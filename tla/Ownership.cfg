\* Two owners to begin with, roles changed with notice and without, sign-ins
\* locked, taken away and given back, a restore.
SPECIFICATION Spec
SYMMETRY AllAlike
CONSTANTS
  NoAccount = NoAccount
  Accounts = {a, b}
  FirstOwners = {a, b}
  Requests = {r1, r2}
  Roles = {"owner", "adult"}
  ChangeIds = {1}
  Notice = 1
  Lapse = 2
  LockFor = {1}
  MaxTime = 3
INVARIANTS
  OwnershipInv
PROPERTIES
  LockSurvives
  NoticeKept
  SettledOnce
