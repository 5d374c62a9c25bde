SPECIFICATION Spec
CONSTANTS
  Reqs = {r1, r2, r3, r4}
  Browsers = {b1, b2}
  None = None
  MaxTries = 2
  CodeTries = 1
  Sends = 2
  Links <- MCLinks
INVARIANTS
  LinkInv
  LimitsKept
  OpensSound
  OnlyLapsedSessionsClash
SYMMETRY MCSymmetry
