------------------------------ MODULE Ownership ------------------------------
(***************************************************************************)
(* Who owns a household, and whose sign-in is locked or taken away         *)
(* (apps/api/src/household/co-owners.ts and locks.ts, with the rules the   *)
(* database keeps: 0015, 0022, 0023, 0051 and 0059).                       *)
(*                                                                         *)
(* Promotion is at once; taking the owner role off somebody else waits     *)
(* for a notice the person can refuse in; giving it up oneself needs none. *)
(* An owner locks anybody but an owner, and takes their sign-in away.      *)
(*                                                                         *)
(* A request is three steps: it is authenticated, when the caller's role   *)
(* is read; its transaction runs its statements, taking the row locks it   *)
(* writes under and reading what was committed by then; and it commits,    *)
(* when the owner floor is judged.  Others run in between.                 *)
(***************************************************************************)
EXTENDS Integers, FiniteSets

CONSTANTS
  Accounts,       \* people of the household who have, or had, a sign-in
  FirstOwners,    \* the owners to begin with; everybody else is an adult
  Roles,          \* the roles the run tells apart
  Requests,       \* API requests that can be under way at once
  ChangeIds,      \* 1..n: rows of owner_change_request
  Notice,         \* NOTICE_DAYS and LAPSE_DAYS, in ticks
  Lapse,
  LockFor,        \* how long a lock may be asked for, in ticks
  MaxTime,        \* bound: ticks of the clock
  NoAccount

ASSUME RolesAssumption ==
  /\ {"owner", "adult"} \subseteq Roles
  /\ Roles \subseteq {"owner", "adult", "teen", "viewer"}

ASSUME AccountsAssumption ==
  /\ FirstOwners \subseteq Accounts
  /\ FirstOwners # {}
  /\ NoAccount \notin Accounts
  /\ ChangeIds \subseteq Nat \ {0}

ASSUME TimesAssumption ==
  /\ Notice \in Nat
  /\ Lapse \in Nat
  /\ Notice < Lapse
  /\ LockFor \subseteq Nat \ {0}
  /\ MaxTime \in Nat \ {0}

VARIABLES
  person,     \* account_household, or what member.former_* keeps of it
  changes,    \* owner_change_request
  tx,         \* the API requests under way
  backup,     \* the last backup of the two tables
  now

vars == <<person, changes, tx, backup, now>>

Forever == 0                       \* suspended_until is null
Whys    == {"no", "locked", "restored"}

\* A suspension; the same columns on member once the sign-in is taken away.
Suspensions == [why : Whys, until : Nat]
Free        == [why |-> "no", until |-> Forever]
Persons     == [role : Roles \union {"none"}, susp : Suspensions]

States  == {"none", "open", "refused", "withdrawn", "stepped_down", "completed", "lapsed"}
Changes ==
  [target : Accounts \union {NoAccount}, opens : Nat, lapses : Nat, state : States]
NoChange == [target |-> NoAccount, opens |-> 0, lapses |-> 0, state |-> "none"]

\* An API request: the caller and the role it was authenticated with; what its
\* transaction has written, one person's row and some requests', and why.
Maybe     == Accounts \union {NoAccount}
NoPerson  == [role |-> "none", susp |-> Free]
Untouched == NoChange
NoRows    == [i \in ChangeIds |-> Untouched]
Reasons   == {"none", "changed", "asked", "stepped_down", "refused", "withdrawn",
              "completed", "removed", "given_back", "locked", "unlocked"}
Txs == [at : {"idle", "authed", "writing"}, caller : Maybe, as : Roles \union {"none"},
        acct : Maybe, row : Persons, rows : [ChangeIds -> Changes], why : Reasons]
Idle == [at |-> "idle", caller |-> NoAccount, as |-> "none", acct |-> NoAccount,
         row |-> NoPerson, rows |-> NoRows, why |-> "none"]

\* suspension_in_effect: a lock past its end is over, though nothing wrote so.
InEffect(s) == s.why # "no" /\ (s.until = Forever \/ s.until > now)

IsOwner(a) == person[a].role = "owner"

HasLapsed(c) == c.state = "lapsed" \/ c.lapses <= now
\* A request that can still be refused, withdrawn or carried out.
Live(c) == c.state = "open" /\ ~HasLapsed(c)

Init ==
  /\ person = [a \in Accounts |->
                 [role |-> IF a \in FirstOwners THEN "owner" ELSE "adult", susp |-> Free]]
  /\ changes = [i \in ChangeIds |-> NoChange]
  /\ tx = [r \in Requests |-> Idle]
  /\ backup = [taken |-> FALSE, person |-> person, changes |-> changes]
  /\ now = 1

-----------------------------------------------------------------------------
(* A request's way through.                                                *)

\* authenticate: the session is open, the sign-in not suspended, and the role
\* is read, for the rest of the request.
Authenticate(r, a) ==
  /\ tx[r].at = "idle"
  /\ person[a].role # "none"
  /\ ~InEffect(person[a].susp)
  /\ tx' = [tx EXCEPT ![r] = [Idle EXCEPT !.at = "authed", !.caller = a,
                                          !.as = person[a].role]]
  /\ UNCHANGED <<person, changes, backup, now>>

Ready(r) == tx[r].at = "authed"
\* requireCapability: the role read then.
AsOwner(r) == tx[r].as = "owner"

\* Rows other transactions hold.
RowFree(a)    == \A q \in Requests : tx[q].at = "writing" => tx[q].acct # a
Wrote(r, i)   == tx[r].rows[i] # Untouched
ChangeFree(i) == \A q \in Requests : tx[q].at = "writing" => ~Wrote(q, i)

\* What the transaction has written and nobody else sees until it commits: the
\* row of one person and rows of owner_change_request.
Writes(r, a, row, rows, why) ==
  /\ a # NoAccount => RowFree(a)
  /\ \A i \in ChangeIds : rows[i] # Untouched => ChangeFree(i)
  /\ tx' = [tx EXCEPT ![r].at = "writing", ![r].as = "none", ![r].acct = a,
                      ![r].row = row, ![r].rows = rows, ![r].why = why]
  /\ UNCHANGED <<person, changes, backup, now>>

\* A refusal, a lost connection, or the process dying: nothing is written.
Abandon(r) ==
  /\ tx[r].at # "idle"
  /\ tx' = [tx EXCEPT ![r] = Idle]
  /\ UNCHANGED <<person, changes, backup, now>>

PersonAfter(r) ==
  IF tx[r].acct = NoAccount THEN person ELSE [person EXCEPT ![tx[r].acct] = tx[r].row]

\* assert_owner_remains, deferred to commit and one at a time per household.
FloorHolds(p) ==
  \E a \in Accounts : p[a].role = "owner" /\ ~InEffect(p[a].susp)

Commit(r) ==
  /\ tx[r].at = "writing"
  /\ tx[r].acct # NoAccount => FloorHolds(PersonAfter(r))
  /\ person' = PersonAfter(r)
  /\ changes' = [i \in ChangeIds |->
                   IF Wrote(r, i) THEN tx[r].rows[i] ELSE changes[i]]
  /\ tx' = [tx EXCEPT ![r] = Idle]
  /\ UNCHANGED <<backup, now>>

-----------------------------------------------------------------------------
(* Roles.                                                                  *)

\* Fault: what is left of a lock stays, as before D528-1.
WithRole_LapsedLeft(row, to) == [row EXCEPT !.role = to]
\* Made an owner, what is left of a lock that ran out is cleared (0051).
WithRole(row, to) ==
  [role |-> to,
   susp |-> IF to = "owner" /\ ~InEffect(row.susp) THEN Free ELSE row.susp]

\* lastOwnerCheck: read with no lock, so that the refusal is a sentence.
OtherOwner(a) == \E b \in Accounts \ {a} : IsOwner(b)

\* Anybody who is no owner changes role at once.
ChangeRole(r, a, to) ==
  /\ Ready(r) /\ AsOwner(r)
  /\ a # tx[r].caller
  /\ person[a].role \notin {"none", "owner", to}
  /\ to = "owner" => ~InEffect(person[a].susp)
  /\ Writes(r, a, WithRole(person[a], to), NoRows, "changed")

\* Requests about somebody that nobody carried out in time.
Lapsing(a) ==
  {i \in ChangeIds : changes[i].state = "open" /\ changes[i].target = a /\ changes[i].lapses <= now}

\* Requests ended, each in its own row.
Settled(I, how) ==
  [i \in ChangeIds |-> IF i \in I THEN [changes[i] EXCEPT !.state = how] ELSE Untouched]

Asked(a) ==
  [target |-> a, opens |-> now + Notice, lapses |-> now + Lapse,
   state |-> "open"]

\* Taking the owner role off somebody else is a request: openRequest.  The
\* person's row is held and not changed.
AskDemotion(r, a) ==
  /\ Ready(r) /\ AsOwner(r)
  /\ a # tx[r].caller
  /\ IsOwner(a)
  /\ OtherOwner(a)
  /\ \A i \in ChangeIds \ Lapsing(a) : ~(changes[i].state = "open" /\ changes[i].target = a)
  /\ \E i \in ChangeIds :
       /\ changes[i].state = "none"
       /\ \A j \in ChangeIds : j < i => changes[j].state # "none" \/ ~ChangeFree(j)
       /\ Writes(r, a, person[a], [Settled(Lapsing(a), "lapsed") EXCEPT ![i] = Asked(a)],
                 "asked")

ClosedBySteppingDown(a) == {i \in ChangeIds : changes[i].target = a /\ Live(changes[i])}

\* Giving the role up oneself, and with it the requests about oneself.
StepDown(r, to) ==
  LET a == tx[r].caller IN
  /\ Ready(r) /\ AsOwner(r)
  /\ to # "owner"
  /\ person[a].role # "none"
  /\ Writes(r, a, WithRole(person[a], to),
            Settled(ClosedBySteppingDown(a), "stepped_down"), "stepped_down")

\* settle: a request ends once, whoever ends it; its row is asked again whether
\* it is open under its lock, so that who comes second settles nothing.
Settles(i, how) == Settled({i}, how)

\* The person it is about says no, whatever their role is by now.
Refuse(r, i) ==
  /\ Ready(r)
  /\ changes[i].target = tx[r].caller
  /\ Live(changes[i])
  /\ Writes(r, NoAccount, NoPerson, Settles(i, "refused"), "refused")

Withdraw(r, i) ==
  /\ Ready(r) /\ AsOwner(r)
  /\ Live(changes[i])
  /\ Writes(r, NoAccount, NoPerson, Settles(i, "withdrawn"), "withdrawn")

\* Fault: the notice is not waited out.
MayComplete_NoNotice(i) ==
  /\ Live(changes[i])
  /\ IsOwner(changes[i].target)
  /\ OtherOwner(changes[i].target)
\* Fault: the request is believed as it was first read.
MayComplete_Settled(i) ==
  /\ changes[i].state # "none"
  /\ changes[i].opens <= now
  /\ IsOwner(changes[i].target)
  /\ OtherOwner(changes[i].target)
MayComplete(i) ==
  /\ Live(changes[i])
  /\ changes[i].opens <= now
  /\ IsOwner(changes[i].target)
  /\ OtherOwner(changes[i].target)

\* Carried out by an owner, who still means it.
Complete(r, i) ==
  /\ Ready(r) /\ AsOwner(r)
  /\ MayComplete(i)
  /\ Writes(r, changes[i].target, WithRole(person[changes[i].target], "adult"),
            Settles(i, "completed"), "completed")

-----------------------------------------------------------------------------
(* Sign-ins taken away, given back, locked and paused.                     *)

\* Fault: the suspension goes with the membership, as before 0059.
Kept_Never(s) == Free
\* A lock or pause still in effect stays with the person.
Kept(s) == IF InEffect(s) THEN s ELSE Free

RemoveSignIn(r, a) ==
  /\ Ready(r) /\ AsOwner(r)
  /\ a # tx[r].caller
  /\ person[a].role \notin {"none", "owner"}
  /\ Writes(r, a, [role |-> "none", susp |-> Kept(person[a].susp)], NoRows, "removed")

RestoreSignIn(r, a, to) ==
  /\ Ready(r) /\ AsOwner(r)
  /\ to # "owner"
  /\ person[a].role = "none"
  /\ Writes(r, a, [role |-> to, susp |-> Kept(person[a].susp)], NoRows, "given_back")

\* A pause may be locked: the lock takes its place.
MayLock(a) ==
  /\ person[a].role \notin {"none", "owner"}
  /\ ~(person[a].susp.why = "locked" /\ InEffect(person[a].susp))

LockSignIn(r, a, until) ==
  /\ Ready(r) /\ AsOwner(r)
  /\ a # tx[r].caller
  /\ MayLock(a)
  /\ Writes(r, a, [person[a] EXCEPT !.susp = [why |-> "locked", until |-> until]],
            NoRows, "locked")

Unlock(r, a) ==
  /\ Ready(r) /\ AsOwner(r)
  /\ a # tx[r].caller
  /\ person[a].role # "none"
  /\ person[a].susp.why = "locked"
  /\ InEffect(person[a].susp)
  /\ Writes(r, a, [person[a] EXCEPT !.susp = Free], NoRows, "unlocked")

Resume(r, a) ==
  /\ Ready(r) /\ AsOwner(r)
  /\ a # tx[r].caller
  /\ person[a].role # "none"
  /\ person[a].susp.why = "restored"
  /\ Writes(r, a, [person[a] EXCEPT !.susp = Free], NoRows, "unlocked")

-----------------------------------------------------------------------------
(* A backup, and the vault restored from it (apps/worker/src/jobs).        *)

TakeBackup ==
  /\ ~backup.taken
  /\ backup' = [taken |-> TRUE, person |-> person, changes |-> changes]
  /\ UNCHANGED <<person, changes, tx, now>>

\* PAUSE_SIGN_INS, KEEP_LOCKS, CLEAR_LAPSED and their like for sign-ins that
\* were taken away.
Paused(row) ==
  IF row.role = "owner" THEN [row EXCEPT !.susp = Kept(@)]
  ELSE IF row.susp.why = "locked" /\ InEffect(row.susp)
       THEN [row EXCEPT !.susp.until = Forever]
       ELSE [row EXCEPT !.susp = [why |-> "restored", until |-> Forever]]

\* Requests the backup brought back are withdrawn: UNDO.
Undone(c) == IF Live(c) THEN [c EXCEPT !.state = "withdrawn"] ELSE c

RestoreBackup ==
  /\ backup.taken
  /\ LET p == [a \in Accounts |-> Paused(backup.person[a])] IN
       /\ FloorHolds(p)
       /\ person' = p
  /\ changes' = [i \in ChangeIds |-> Undone(backup.changes[i])]
  /\ tx' = [r \in Requests |-> Idle]
  /\ UNCHANGED <<backup, now>>

Tick ==
  /\ now < MaxTime
  /\ now' = now + 1
  /\ UNCHANGED <<person, changes, tx, backup>>

RoleRequest(r) ==
  \/ \E a \in Accounts, to \in Roles : ChangeRole(r, a, to)
  \/ \E a \in Accounts : AskDemotion(r, a)
  \/ \E to \in Roles : StepDown(r, to)
  \/ \E i \in ChangeIds : Refuse(r, i)
  \/ \E i \in ChangeIds : Withdraw(r, i)
  \/ \E i \in ChangeIds : Complete(r, i)

SignInRequest(r) ==
  \/ \E a \in Accounts : RemoveSignIn(r, a)
  \/ \E a \in Accounts, to \in Roles : RestoreSignIn(r, a, to)
  \/ \E a \in Accounts, d \in LockFor : LockSignIn(r, a, now + d)
  \/ \E a \in Accounts : LockSignIn(r, a, Forever)
  \/ \E a \in Accounts : Unlock(r, a)
  \/ \E a \in Accounts : Resume(r, a)

Step(r) ==
  \/ \E a \in Accounts : Authenticate(r, a)
  \/ Commit(r)
  \/ Abandon(r)

Next ==
  \/ \E r \in Requests : Step(r) \/ RoleRequest(r) \/ SignInRequest(r)
  \/ TakeBackup
  \/ RestoreBackup
  \/ Tick

Spec == Init /\ [][Next]_vars

-----------------------------------------------------------------------------
(* Properties.                                                             *)

\* Every variable has its type.
TypeOK ==
  /\ person \in [Accounts -> Persons]
  /\ changes \in [ChangeIds -> Changes]
  /\ tx \in [Requests -> Txs]
  /\ backup \in [taken : BOOLEAN, person : [Accounts -> Persons],
                 changes : [ChangeIds -> Changes]]
  /\ now \in 1..MaxTime

\* The household keeps an owner who can sign in, whatever was under way at the
\* same moment: two step-downs, a demotion and a step-down, a restore
\* (assert_owner_remains).
OwnerRemains == \E a \in Accounts : IsOwner(a) /\ ~InEffect(person[a].susp)

\* No lock or pause ever stands on an owner, not even one that ran out: nobody
\* could clear it (account_household_suspension, MayLock, the restore).
OwnersNeverLocked == \A a \in Accounts : IsOwner(a) => person[a].susp = Free

\* There is one open request at most about a person (the unique index), and one
\* that can still be carried out is about an owner: whoever stops being one, by
\* stepping down or by another request carried out, closes it in that very step.
LiveRequestAboutOwner ==
  \A i \in ChangeIds :
    Live(changes[i]) => changes[i].target \in Accounts /\ IsOwner(changes[i].target)
OpenOnce(c) ==
  \A i, j \in ChangeIds :
    c[i].state = "open" /\ c[j].state = "open" /\ c[i].target = c[j].target => i = j
OneOpenRequest == OpenOnce(changes)

\* Two transactions never hold one row.
Writing(r) == tx[r].at = "writing"
HeldAlone ==
  \A r, q \in Requests : r # q /\ Writing(r) /\ Writing(q) =>
    /\ tx[r].acct # NoAccount => tx[r].acct # tx[q].acct
    /\ \A i \in ChangeIds : ~(Wrote(r, i) /\ Wrote(q, i))

\* What a transaction has written and not committed: no suspended owner; a new
\* request about an owner it holds, with every other open one about them; the
\* end of an open request; and, where it takes the owner role away, the end of
\* every request that could still be carried out.
OpensAboutOwner(r, i) ==
  /\ tx[r].acct \in Accounts
  /\ tx[r].rows[i].target = tx[r].acct
  /\ IsOwner(tx[r].acct)
  /\ tx[r].row.role = "owner"
  /\ changes[i].state = "none"
  /\ \A j \in ChangeIds \ {i} :
       changes[j].state = "open" /\ changes[j].target = tx[r].acct =>
         Wrote(r, j) /\ tx[r].rows[j].state # "open"
BufferSound(r) ==
  /\ tx[r].acct \in Accounts /\ tx[r].row.role = "owner" => tx[r].row.susp = Free
  /\ \A i, j \in ChangeIds :
       tx[r].rows[i].state = "open" /\ tx[r].rows[j].state = "open" => i = j
  /\ \A i \in ChangeIds : tx[r].rows[i].state = "open" => OpensAboutOwner(r, i)
  /\ tx[r].acct \in Accounts /\ IsOwner(tx[r].acct) /\ tx[r].row.role # "owner" =>
       \A i \in ChangeIds : Live(changes[i]) /\ changes[i].target = tx[r].acct =>
         Wrote(r, i) /\ tx[r].rows[i].state # "open"
BuffersSound == \A r \in Requests : Writing(r) => BufferSound(r)

CallersKnown == \A r \in Requests : Ready(r) => tx[r].caller \in Accounts

BackupSound ==
  /\ \A a \in Accounts : backup.person[a].role = "owner" => backup.person[a].susp = Free
  /\ OpenOnce(backup.changes)

\* What holds of every household, whatever requests are under way: inductive.
OwnershipInv ==
  /\ TypeOK
  /\ OwnerRemains
  /\ OwnersNeverLocked
  /\ LiveRequestAboutOwner
  /\ OneOpenRequest
  /\ CallersKnown
  /\ HeldAlone
  /\ BuffersSound
  /\ BackupSound

Commits(r, why) == tx[r].at = "writing" /\ tx[r].why = why /\ tx'[r].at = "idle"

\* The owner role is taken off somebody by others only with a request that ran
\* its notice unrefused, and is settled as carried out by that very step; else
\* they stepped down, or the vault is as it was in the backup.
NoticeKept ==
  [][\A a \in Accounts :
       IsOwner(a) /\ person'[a].role # "owner" =>
         \/ \E i \in ChangeIds :
              /\ changes[i].target = a
              /\ changes[i].state = "open"
              /\ changes[i].opens <= now
              /\ changes'[i].state = "completed"
         \/ \E r \in Requests : Commits(r, "stepped_down") /\ tx[r].caller = a
         \/ person' = [b \in Accounts |-> Paused(backup.person[b])]]_vars

\* A request ends once: what it ended as never changes (settle), but for a
\* vault restored to before.
SettledOnce ==
  [][\A i \in ChangeIds :
       changes[i].state \notin {"none", "open"} =>
         \/ changes'[i] = changes[i]
         \/ changes' = [j \in ChangeIds |-> Undone(backup.changes[j])]]_vars

\* A lock or a pause in effect ends by an owner's unlocking it or locking anew,
\* its own end, or a restore: never by the sign-in being taken away and given back (0059).
LockSurvives ==
  [][\A a \in Accounts :
       InEffect(person[a].susp) =>
         \/ person'[a].susp = person[a].susp
         \/ \E r \in Requests : Commits(r, "unlocked") /\ tx[r].acct = a
         \/ \E r \in Requests : Commits(r, "locked") /\ tx[r].acct = a
         \/ person' = [b \in Accounts |-> Paused(backup.person[b])]]_vars
=============================================================================
