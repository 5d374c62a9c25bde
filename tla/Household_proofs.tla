--------------------------- MODULE Household_proofs ---------------------------
(***************************************************************************)
(* Theorems about who owns a household and who is let into it: Ownership   *)
(* and Invitations, for any number of people, requests and links.          *)
(***************************************************************************)
EXTENDS Ownership, Invitations, TLAPS

USE DEF Forever

LEMMA FreeIsNeverInEffect == ~InEffect(Free)
BY DEF InEffect, Free

LEMMA TypesOfConstants ==
  /\ Free \in Suspensions
  /\ NoPerson \in Persons
  /\ NoChange \in Changes
  /\ NoRows \in [ChangeIds -> Changes]
  /\ Idle \in Txs
BY DEF Free, Suspensions, Whys, NoPerson, Persons, NoChange, Changes, Maybe, States,
       NoRows, Untouched, Idle, Txs, Reasons

LEMMA InitInv == Init => OwnershipInv
<1> SUFFICES ASSUME Init PROVE OwnershipInv
  OBVIOUS
<1> USE RolesAssumption, AccountsAssumption, TimesAssumption, TypesOfConstants
<1>1. TypeOK
  BY DEF Init, TypeOK, Persons, Suspensions
<1>2. OwnerRemains
  BY FreeIsNeverInEffect DEF Init, OwnerRemains, IsOwner
<1>3. OwnersNeverLocked
  BY DEF Init, OwnersNeverLocked
<1>4. LiveRequestAboutOwner /\ OneOpenRequest
  BY DEF Init, LiveRequestAboutOwner, OneOpenRequest, OpenOnce, Live, NoChange
<1>5. CallersKnown /\ HeldAlone /\ BuffersSound
  BY DEF Init, CallersKnown, HeldAlone, BuffersSound, Writing, Ready, Idle
<1>6. BackupSound
  BY DEF Init, BackupSound, OpenOnce, NoChange
<1> QED
  BY <1>1, <1>2, <1>3, <1>4, <1>5, <1>6 DEF OwnershipInv

(***************************************************************************)
(* Steps that leave the two tables and the clock alone, and at most stop a *)
(* request or authenticate one.                                            *)
(***************************************************************************)
LEMMA QuietStep ==
  ASSUME OwnershipInv, NEW r \in Requests, NEW t \in Txs, t.at # "writing",
         t.at = "authed" => t.caller \in Accounts,
         tx' = [tx EXCEPT ![r] = t], UNCHANGED <<person, changes, backup, now>>
  PROVE  OwnershipInv'
<1> USE DEF OwnershipInv
<1>1. TypeOK'
  BY DEF TypeOK
<1>2. OwnerRemains' /\ OwnersNeverLocked' /\ LiveRequestAboutOwner'
      /\ OneOpenRequest' /\ BackupSound'
  BY DEF OwnerRemains, OwnersNeverLocked, LiveRequestAboutOwner, OneOpenRequest, OpenOnce,
         BackupSound, IsOwner, InEffect, Live, HasLapsed
<1>3. \A q \in Requests : Writing(q)' => Writing(q) /\ tx'[q] = tx[q]
  BY DEF TypeOK, Writing
<1>4. HeldAlone' /\ CallersKnown'
  BY <1>3 DEF HeldAlone, Wrote, CallersKnown, Ready, TypeOK
<1>5. BuffersSound'
  <2> SUFFICES ASSUME NEW q \in Requests, Writing(q)' PROVE BufferSound(q)'
    BY DEF BuffersSound
  <2>1. BufferSound(q) /\ tx'[q] = tx[q]
    BY <1>3 DEF BuffersSound
  <2> QED
    BY <2>1 DEF BufferSound, OpensAboutOwner, IsOwner, Live, HasLapsed, Wrote
<1> QED
  BY <1>1, <1>2, <1>4, <1>5

(***************************************************************************)
(* What a transaction writes into its buffer, under the locks it takes.    *)
(***************************************************************************)
LEMMA WritesKeeps ==
  ASSUME OwnershipInv, NEW r \in Requests, ~Writing(r), NEW a \in Maybe,
         NEW row \in Persons, NEW rows \in [ChangeIds -> Changes], NEW why \in Reasons,
         Writes(r, a, row, rows, why), BufferSound(r)'
  PROVE  OwnershipInv'
<1> USE DEF OwnershipInv
<1> DEFINE t == [tx[r] EXCEPT !.at = "writing", !.as = "none", !.acct = a,
                              !.row = row, !.rows = rows, !.why = why]
<1>1. /\ tx' = [tx EXCEPT ![r] = t]
      /\ UNCHANGED <<person, changes, backup, now>>
  BY DEF Writes
<1>2. t \in Txs
  BY DEF TypeOK, Txs
<1>3. TypeOK'
  BY <1>1, <1>2 DEF TypeOK
<1>4. OwnerRemains' /\ OwnersNeverLocked' /\ LiveRequestAboutOwner'
      /\ OneOpenRequest' /\ BackupSound'
  BY <1>1 DEF OwnerRemains, OwnersNeverLocked, LiveRequestAboutOwner, OneOpenRequest, OpenOnce,
         BackupSound, IsOwner, InEffect, Live, HasLapsed
<1>5. \A q \in Requests \ {r} : tx'[q] = tx[q]
  BY <1>1 DEF TypeOK
<1>6. tx'[r].acct = a /\ tx'[r].rows = rows
  BY <1>1, <1>2 DEF TypeOK, Txs
<1>7. ASSUME NEW q \in Requests \ {r}, Writing(q)
      PROVE  /\ a # NoAccount => tx[q].acct # a
             /\ \A i \in ChangeIds : ~(rows[i] # Untouched /\ Wrote(q, i))
  BY <1>7 DEF Writes, RowFree, ChangeFree, Writing
<1>8. HeldAlone'
  <2> SUFFICES ASSUME NEW p \in Requests, NEW q \in Requests, p # q, Writing(p)', Writing(q)'
               PROVE  /\ tx'[p].acct # NoAccount => tx'[p].acct # tx'[q].acct
                      /\ \A i \in ChangeIds : ~(Wrote(p, i)' /\ Wrote(q, i)')
    BY DEF HeldAlone
  <2>1. CASE p = r
    BY <2>1, <1>5, <1>6, <1>7 DEF Writing, Wrote
  <2>2. CASE q = r
    BY <2>2, <1>5, <1>6, <1>7 DEF Writing, Wrote
  <2>3. CASE p # r /\ q # r
    BY <2>3, <1>5 DEF Writing, Wrote, HeldAlone
  <2> QED
    BY <2>1, <2>2, <2>3
<1>9. BuffersSound'
  <2> SUFFICES ASSUME NEW q \in Requests, Writing(q)', q # r PROVE BufferSound(q)'
    BY DEF BuffersSound
  <2>1. BufferSound(q) /\ tx'[q] = tx[q]
    BY <1>5 DEF BuffersSound, Writing
  <2> QED
    BY <2>1, <1>1 DEF BufferSound, OpensAboutOwner, IsOwner, Live, HasLapsed, Wrote
<1>10. CallersKnown'
  BY <1>1, <1>2, <1>5 DEF CallersKnown, Ready, TypeOK
<1> QED
  BY <1>3, <1>4, <1>8, <1>9, <1>10

LEMMA WithRoleType ==
  ASSUME NEW row \in Persons, NEW to \in Roles
  PROVE  WithRole(row, to) \in Persons
BY TypesOfConstants DEF WithRole, Persons

LEMMA SettledType ==
  ASSUME TypeOK, NEW I, NEW how \in States
  PROVE  /\ Settled(I, how) \in [ChangeIds -> Changes]
         /\ \A i \in ChangeIds \intersect I :
              /\ Settled(I, how)[i].state = how
              /\ Settled(I, how)[i].target = changes[i].target
              /\ how # "none" => Settled(I, how)[i] # Untouched
         /\ \A i \in ChangeIds \ I : Settled(I, how)[i] = Untouched
<1>1. ASSUME NEW i \in ChangeIds
      PROVE  LET c == [changes[i] EXCEPT !.state = how] IN
               c \in Changes /\ c.state = how /\ c.target = changes[i].target
  BY DEF TypeOK, Changes
<1>2. Untouched \in Changes /\ Untouched.state = "none"
  BY TypesOfConstants DEF Untouched, NoChange
<1> QED
  BY <1>1, <1>2 DEF Settled

(***************************************************************************)
(* A request that opens nothing: its buffer is sound where the row it      *)
(* writes is no suspended owner's, and where taking the owner role away    *)
(* comes with the end of every request that could still be carried out.    *)
(***************************************************************************)
LEMMA EndsOnly ==
  ASSUME OwnershipInv, NEW r \in Requests, ~Writing(r), NEW a \in Maybe,
         NEW row \in Persons, NEW I, NEW how \in States \ {"open", "none"}, NEW why \in Reasons,
         Writes(r, a, row, Settled(I, how), why),
         a # NoAccount /\ row.role = "owner" => row.susp = Free,
         a # NoAccount /\ IsOwner(a) /\ row.role # "owner" =>
           \A i \in ChangeIds : Live(changes[i]) /\ changes[i].target = a => i \in I
  PROVE  OwnershipInv'
<1> USE DEF OwnershipInv
<1> DEFINE rows == Settled(I, how)
<1>1. rows \in [ChangeIds -> Changes]
  BY SettledType
<1>2. /\ tx'[r].acct = a
      /\ tx'[r].row = row
      /\ tx'[r].rows = rows
      /\ UNCHANGED <<person, changes, backup, now>>
  BY DEF Writes, TypeOK, Txs
<1>3. \A i \in ChangeIds : rows[i].state # "open"
  BY SettledType DEF NoChange, Untouched
<1>4. \A i \in ChangeIds \intersect I : rows[i] # Untouched
  BY SettledType
<1>5. BufferSound(r)'
  <2>1. tx'[r].acct \in Accounts => a # NoAccount
    BY <1>2, AccountsAssumption
  <2>2. (tx'[r].acct \in Accounts /\ tx'[r].row.role = "owner") => tx'[r].row.susp = Free
    BY <1>2, <2>1
  <2>3. ASSUME tx'[r].acct \in Accounts, IsOwner(tx[r].acct)', tx'[r].row.role # "owner",
               NEW i \in ChangeIds, Live(changes[i])', changes'[i].target = tx'[r].acct
        PROVE  Wrote(r, i)' /\ tx'[r].rows[i].state # "open"
    <3>1. i \in I
      BY <1>2, <2>1, <2>3 DEF IsOwner, Live, HasLapsed
    <3> QED
      BY <3>1, <1>2, <1>3, <1>4 DEF Wrote
  <2> QED
    BY <1>2, <1>3, <2>2, <2>3 DEF BufferSound
<1> QED
  BY <1>1, <1>5, WritesKeeps

LEMMA NothingSettled == NoRows = Settled({}, "refused")
BY DEF NoRows, Settled

(***************************************************************************)
(* The requests, one by one.                                               *)
(***************************************************************************)
LEMMA RoleRequestKeeps ==
  ASSUME OwnershipInv, NEW r \in Requests, RoleRequest(r)
  PROVE  OwnershipInv'
<1> USE DEF OwnershipInv
<1>0. Ready(r) /\ ~Writing(r) /\ tx[r] \in Txs
  BY DEF RoleRequest, ChangeRole, AskDemotion, StepDown, Refuse, Withdraw, Complete, Ready,
         Writing, TypeOK
<1>1. ASSUME NEW a \in Accounts, NEW to \in Roles, ChangeRole(r, a, to)
      PROVE  OwnershipInv'
  <2>1. person[a] \in Persons /\ WithRole(person[a], to) \in Persons
    BY WithRoleType DEF TypeOK
  <2>2. WithRole(person[a], to).role = "owner" => WithRole(person[a], to).susp = Free
    BY <1>1 DEF ChangeRole, WithRole
  <2>3. ~IsOwner(a)
    BY <1>1 DEF ChangeRole, IsOwner
  <2>4. Writes(r, a, WithRole(person[a], to), Settled({}, "refused"), "changed")
    BY <1>1, NothingSettled DEF ChangeRole
  <2> QED
    BY <1>0, <2>1, <2>2, <2>3, <2>4, EndsOnly DEF Maybe, States, Reasons
<1>2. ASSUME NEW a \in Accounts, AskDemotion(r, a)
      PROVE  OwnershipInv'
  <2>1. PICK i \in ChangeIds :
          /\ changes[i].state = "none"
          /\ Writes(r, a, person[a], [Settled(Lapsing(a), "lapsed") EXCEPT ![i] = Asked(a)],
                    "asked")
    BY <1>2 DEF AskDemotion
  <2> DEFINE rows == [Settled(Lapsing(a), "lapsed") EXCEPT ![i] = Asked(a)]
  <2>2. Asked(a) \in Changes
    BY TimesAssumption DEF Asked, Changes, Maybe, States, TypeOK
  <2>3. /\ rows \in [ChangeIds -> Changes]
        /\ rows[i] = Asked(a)
        /\ \A j \in ChangeIds \ {i} : rows[j] = Settled(Lapsing(a), "lapsed")[j]
    BY <2>2, SettledType DEF States
  <2>4. /\ tx'[r].acct = a
        /\ tx'[r].row = person[a]
        /\ tx'[r].rows = rows
        /\ UNCHANGED <<person, changes, backup, now>>
    BY <2>1, <1>0 DEF Writes, TypeOK, Txs
  <2>5. \A j \in ChangeIds \ {i} : rows[j].state # "open"
    BY <2>3, SettledType DEF NoChange, Untouched, States
  <2>6. \A j \in Lapsing(a) : j \in ChangeIds /\ j # i /\ rows[j] # Untouched
    BY <2>1, <2>3, SettledType DEF Lapsing, States
  <2>7. \A j \in ChangeIds : changes[j].state = "open" /\ changes[j].target = a =>
          j \in Lapsing(a)
    BY <1>2 DEF AskDemotion
  <2>8. IsOwner(a) /\ person[a].role = "owner" /\ person[a].susp = Free
    BY <1>2 DEF AskDemotion, IsOwner, OwnersNeverLocked
  <2>9. OpensAboutOwner(r, i)'
    BY <2>1, <2>3, <2>4, <2>5, <2>6, <2>7, <2>8 DEF OpensAboutOwner, IsOwner, Wrote, Asked
  <2>10. BufferSound(r)'
    BY <2>4, <2>5, <2>8, <2>9 DEF BufferSound
  <2>11. person[a] \in Persons
    BY DEF TypeOK
  <2> QED
    BY <1>0, <2>1, <2>3, <2>10, <2>11, WritesKeeps DEF Maybe, Reasons
<1>3. ASSUME NEW to \in Roles, StepDown(r, to)
      PROVE  OwnershipInv'
  <2> DEFINE a == tx[r].caller
  <2>1. a \in Accounts
    BY <1>0 DEF CallersKnown
  <2>2. WithRole(person[a], to) \in Persons
    BY <2>1, WithRoleType DEF TypeOK
  <2>3. WithRole(person[a], to).role # "owner"
    BY <1>3 DEF StepDown, WithRole
  <2>4. Writes(r, a, WithRole(person[a], to),
               Settled(ClosedBySteppingDown(a), "stepped_down"), "stepped_down")
    BY <1>3 DEF StepDown
  <2>5. \A i \in ChangeIds : Live(changes[i]) /\ changes[i].target = a =>
          i \in ClosedBySteppingDown(a)
    BY DEF ClosedBySteppingDown
  <2> QED
    BY <1>0, <2>1, <2>2, <2>3, <2>4, <2>5, EndsOnly DEF Maybe, States, Reasons
<1>4. ASSUME NEW i \in ChangeIds, Refuse(r, i) \/ Withdraw(r, i)
      PROVE  OwnershipInv'
  <2>1. \/ Writes(r, NoAccount, NoPerson, Settled({i}, "refused"), "refused")
        \/ Writes(r, NoAccount, NoPerson, Settled({i}, "withdrawn"), "withdrawn")
    BY <1>4 DEF Refuse, Withdraw, Settles
  <2> QED
    BY <1>0, <2>1, TypesOfConstants, EndsOnly DEF Maybe, States, Reasons
<1>5. ASSUME NEW i \in ChangeIds, Complete(r, i)
      PROVE  OwnershipInv'
  <2> DEFINE a == changes[i].target
  <2>1. MayComplete(i)
    BY <1>5 DEF Complete
  <2>2. a \in Accounts
    BY <2>1 DEF MayComplete, LiveRequestAboutOwner
  <2>3. WithRole(person[a], "adult") \in Persons
    BY <2>2, WithRoleType, RolesAssumption DEF TypeOK
  <2>4. WithRole(person[a], "adult").role # "owner"
    BY DEF WithRole
  <2>5. Writes(r, a, WithRole(person[a], "adult"), Settled({i}, "completed"), "completed")
    BY <1>5 DEF Complete, Settles
  <2>6. \A j \in ChangeIds : Live(changes[j]) /\ changes[j].target = a => j \in {i}
    BY <2>1 DEF MayComplete, OneOpenRequest, OpenOnce, Live
  <2> QED
    BY <1>0, <2>2, <2>3, <2>4, <2>5, <2>6, EndsOnly DEF Maybe, States, Reasons
<1> QED
  BY <1>1, <1>2, <1>3, <1>4, <1>5 DEF RoleRequest

LEMMA KeptIsInEffect ==
  ASSUME NEW s \in Suspensions
  PROVE  Kept(s) \in Suspensions
BY TypesOfConstants DEF Kept

LEMMA SignInRequestKeeps ==
  ASSUME OwnershipInv, NEW r \in Requests, SignInRequest(r)
  PROVE  OwnershipInv'
<1> USE DEF OwnershipInv
<1>0. ~Writing(r)
  BY DEF SignInRequest, RemoveSignIn, RestoreSignIn, LockSignIn, Unlock, Resume, Ready, Writing
<1>1. ASSUME NEW a \in Accounts, NEW row \in Persons, NEW why \in Reasons,
             Writes(r, a, row, NoRows, why), ~IsOwner(a),
             row.role = "owner" => row.susp = Free
      PROVE  OwnershipInv'
  BY <1>0, <1>1, NothingSettled, EndsOnly DEF Maybe, States
<1>2. ASSUME NEW a \in Accounts, RemoveSignIn(r, a)
      PROVE  OwnershipInv'
  <2>1. [role |-> "none", susp |-> Kept(person[a].susp)] \in Persons
    BY KeptIsInEffect DEF TypeOK, Persons
  <2> QED
    BY <1>1, <1>2, <2>1 DEF RemoveSignIn, IsOwner, Reasons
<1>3. ASSUME NEW a \in Accounts, NEW to \in Roles, RestoreSignIn(r, a, to)
      PROVE  OwnershipInv'
  <2>1. [role |-> to, susp |-> Kept(person[a].susp)] \in Persons
    BY KeptIsInEffect DEF TypeOK, Persons
  <2> QED
    BY <1>1, <1>3, <2>1 DEF RestoreSignIn, IsOwner, Reasons
<1>4. ASSUME NEW a \in Accounts, NEW until \in Nat, LockSignIn(r, a, until)
      PROVE  OwnershipInv'
  <2> DEFINE row == [person[a] EXCEPT !.susp = [why |-> "locked", until |-> until]]
  <2>1. row \in Persons /\ row.role = person[a].role
    BY DEF TypeOK, Persons, Suspensions, Whys
  <2>2. person[a].role # "owner"
    BY <1>4 DEF LockSignIn, MayLock
  <2>3. Writes(r, a, row, NoRows, "locked")
    BY <1>4 DEF LockSignIn
  <2> QED
    BY <1>1, <2>1, <2>2, <2>3 DEF IsOwner, Reasons
<1>5. ASSUME NEW a \in Accounts, Unlock(r, a) \/ Resume(r, a)
      PROVE  OwnershipInv'
  <2> DEFINE row == [person[a] EXCEPT !.susp = Free]
  <2>1. row \in Persons /\ row.role = person[a].role
    BY TypesOfConstants DEF TypeOK, Persons
  <2>2. person[a].susp.why # "no"
    BY <1>5 DEF Unlock, Resume
  <2>3. person[a].role # "owner"
    BY <2>2 DEF OwnersNeverLocked, IsOwner, Free
  <2>4. Writes(r, a, row, NoRows, "unlocked")
    BY <1>5 DEF Unlock, Resume
  <2> QED
    BY <1>1, <2>1, <2>3, <2>4 DEF IsOwner, Reasons
<1>6. \A d \in LockFor : now + d \in Nat
  BY TimesAssumption DEF TypeOK
<1> QED
  BY <1>2, <1>3, <1>4, <1>5, <1>6 DEF SignInRequest

(***************************************************************************)
(* The commit, where what the buffer promises becomes what the household   *)
(* is.                                                                     *)
(***************************************************************************)
LEMMA CommitKeeps ==
  ASSUME OwnershipInv, NEW r \in Requests, Commit(r)
  PROVE  OwnershipInv'
<1> USE DEF OwnershipInv
<1> DEFINE a == tx[r].acct
<1>1. /\ Writing(r)
      /\ BufferSound(r)
      /\ tx[r] \in Txs
      /\ a \in Maybe
      /\ UNCHANGED <<backup, now>>
      /\ tx' = [tx EXCEPT ![r] = Idle]
  BY DEF Commit, Writing, BuffersSound, TypeOK, Txs
<1>2. \A b \in Accounts : person'[b] = IF b = a THEN tx[r].row ELSE person[b]
  BY <1>1, AccountsAssumption DEF Commit, PersonAfter, TypeOK, Maybe
<1>3. \A i \in ChangeIds : changes'[i] = IF Wrote(r, i) THEN tx[r].rows[i] ELSE changes[i]
  BY DEF Commit
<1>4. \A q \in Requests : Ready(q)' => tx'[q] = tx[q] /\ Ready(q)
  BY <1>1 DEF Ready, Idle, TypeOK
<1>5. \A q \in Requests : Writing(q)' => tx'[q] = tx[q] /\ Writing(q) /\ q # r
  BY <1>1 DEF Writing, Idle, TypeOK
<1>6. TypeOK'
  <2>1. person' \in [Accounts -> Persons]
    BY <1>1 DEF Commit, PersonAfter, TypeOK, Txs
  <2>2. changes' \in [ChangeIds -> Changes]
    BY <1>1 DEF Commit, TypeOK, Txs
  <2> QED
    BY <1>1, <2>1, <2>2, TypesOfConstants DEF TypeOK
<1>7. OwnerRemains'
  <2>1. CASE a = NoAccount
    BY <2>1, <1>1, <1>2, AccountsAssumption DEF OwnerRemains, IsOwner, InEffect
  <2>2. CASE a # NoAccount
    <3>1. \E b \in Accounts : PersonAfter(r)[b].role = "owner"
                              /\ ~InEffect(PersonAfter(r)[b].susp)
      BY <2>2 DEF Commit, FloorHolds
    <3> QED
      BY <3>1, <1>1 DEF Commit, OwnerRemains, IsOwner, InEffect
  <2> QED
    BY <2>1, <2>2
<1>8. OwnersNeverLocked'
  BY <1>1, <1>2 DEF OwnersNeverLocked, BufferSound, IsOwner
<1>9. LiveRequestAboutOwner'
  <2> SUFFICES ASSUME NEW i \in ChangeIds, Live(changes[i])'
               PROVE  /\ changes'[i].target \in Accounts
                      /\ person'[changes'[i].target].role = "owner"
    BY DEF LiveRequestAboutOwner, IsOwner
  <2>1. CASE Wrote(r, i)
    <3>1. OpensAboutOwner(r, i)
      BY <2>1, <1>1, <1>3 DEF BufferSound, Live
    <3> QED
      BY <3>1, <2>1, <1>2, <1>3 DEF OpensAboutOwner, IsOwner
  <2>2. CASE ~Wrote(r, i)
    <3>1. Live(changes[i]) /\ changes'[i] = changes[i]
      BY <2>2, <1>1, <1>3 DEF Live, HasLapsed
    <3>2. changes[i].target \in Accounts /\ IsOwner(changes[i].target)
      BY <3>1 DEF LiveRequestAboutOwner
    <3>3. changes[i].target = a => tx[r].row.role = "owner"
      BY <3>1, <3>2, <2>2, <1>1 DEF BufferSound
    <3> QED
      BY <3>1, <3>2, <3>3, <1>2 DEF IsOwner
  <2> QED
    BY <2>1, <2>2
<1>10. OneOpenRequest'
  <2> SUFFICES ASSUME NEW i \in ChangeIds, NEW j \in ChangeIds,
                      changes'[i].state = "open", changes'[j].state = "open",
                      changes'[i].target = changes'[j].target
               PROVE  i = j
    BY DEF OneOpenRequest, OpenOnce
  <2>1. ASSUME NEW k \in ChangeIds, NEW l \in ChangeIds, Wrote(r, k), k # l,
               changes'[k].state = "open", changes'[l].state = "open",
               changes'[k].target = changes'[l].target
        PROVE  FALSE
    <3>1. tx[r].rows[k].state = "open" /\ changes'[k] = tx[r].rows[k]
      BY <2>1, <1>3
    <3>2. OpensAboutOwner(r, k)
      BY <3>1, <1>1 DEF BufferSound
    <3>3. CASE Wrote(r, l)
      BY <3>1, <3>3, <2>1, <1>1, <1>3 DEF BufferSound
    <3>4. CASE ~Wrote(r, l)
      BY <3>1, <3>2, <3>4, <2>1, <1>3 DEF OpensAboutOwner
    <3> QED
      BY <3>3, <3>4
  <2>2. CASE Wrote(r, i)
    BY <2>1, <2>2
  <2>3. CASE Wrote(r, j)
    BY <2>1, <2>3
  <2>4. CASE ~Wrote(r, i) /\ ~Wrote(r, j)
    BY <2>4, <1>3 DEF OneOpenRequest, OpenOnce
  <2> QED
    BY <2>2, <2>3, <2>4
<1>11. CallersKnown' /\ HeldAlone'
  BY <1>4, <1>5 DEF CallersKnown, HeldAlone, Wrote
<1>12. BuffersSound'
  <2> SUFFICES ASSUME NEW q \in Requests, Writing(q)' PROVE BufferSound(q)'
    BY DEF BuffersSound
  <2>1. BufferSound(q) /\ tx'[q] = tx[q] /\ Writing(q) /\ q # r
    BY <1>5 DEF BuffersSound
  <2>2. /\ tx[q].acct \in Accounts => person'[tx[q].acct] = person[tx[q].acct]
        /\ \A i \in ChangeIds : Wrote(q, i) => changes'[i] = changes[i]
    BY <2>1, <1>1, <1>2, <1>3, AccountsAssumption DEF HeldAlone
  <2>3. \A i \in ChangeIds : Wrote(q, i)' = Wrote(q, i)
    BY <2>1 DEF Wrote
  \* What r opens is about somebody r holds, so nobody q holds.
  <2>4. ASSUME NEW i \in ChangeIds, changes'[i].state = "open", tx[q].acct \in Accounts,
               changes'[i].target = tx[q].acct
        PROVE  changes'[i] = changes[i]
    <3>1. CASE Wrote(r, i)
      <4>1. changes'[i] = tx[r].rows[i]
        BY <3>1, <1>3
      <4>2. OpensAboutOwner(r, i)
        BY <4>1, <2>4, <1>1 DEF BufferSound
      <4> QED
        BY <4>1, <4>2, <2>1, <2>4, <1>1, AccountsAssumption DEF OpensAboutOwner, HeldAlone
    <3>2. CASE ~Wrote(r, i)
      BY <3>2, <1>3
    <3> QED
      BY <3>1, <3>2
  <2>5. ASSUME NEW i \in ChangeIds, tx[q].rows[i].state = "open"
        PROVE  OpensAboutOwner(q, i)'
    <3>1. OpensAboutOwner(q, i)
      BY <2>1, <2>5 DEF BufferSound
    <3>2. Wrote(q, i)
      BY <2>5 DEF Wrote, Untouched, NoChange
    <3> QED
      BY <3>1, <3>2, <2>1, <2>2, <2>3, <2>4 DEF OpensAboutOwner, IsOwner
  <2>6. ASSUME tx[q].acct \in Accounts, IsOwner(tx[q].acct)', tx[q].row.role # "owner",
               NEW i \in ChangeIds, Live(changes[i])', changes'[i].target = tx[q].acct
        PROVE  Wrote(q, i) /\ tx[q].rows[i].state # "open"
    <3>1. changes'[i] = changes[i]
      BY <2>4, <2>6 DEF Live
    <3> QED
      BY <3>1, <2>1, <2>2, <2>6, <1>1 DEF BufferSound, IsOwner, Live, HasLapsed
  <2>7. tx[q].acct \in Accounts /\ tx[q].row.role = "owner" => tx[q].row.susp = Free
    BY <2>1 DEF BufferSound
  <2>8. \A i, j \in ChangeIds :
          tx[q].rows[i].state = "open" /\ tx[q].rows[j].state = "open" => i = j
    BY <2>1 DEF BufferSound
  <2> QED
    BY <2>1, <2>3, <2>5, <2>6, <2>7, <2>8 DEF BufferSound
<1>13. BackupSound'
  BY <1>1 DEF BackupSound, OpenOnce
<1> QED
  BY <1>6, <1>7, <1>8, <1>9, <1>10, <1>11, <1>12, <1>13

(***************************************************************************)
(* The clock, backups, and a vault restored from one.                      *)
(***************************************************************************)
LEMMA TickKeeps ==
  ASSUME OwnershipInv, Tick
  PROVE  OwnershipInv'
<1> USE DEF OwnershipInv
<1>1. UNCHANGED <<person, changes, tx, backup>> /\ now' = now + 1 /\ now' \in 1..MaxTime
  BY TimesAssumption DEF Tick, TypeOK
<1>2. ASSUME NEW s \in Suspensions PROVE InEffect(s)' => InEffect(s)
  BY <1>1 DEF InEffect, Suspensions, TypeOK
<1>3. ASSUME NEW c \in Changes PROVE Live(c)' => Live(c)
  BY <1>1 DEF Live, HasLapsed, Changes, TypeOK
<1>4. TypeOK'
  BY <1>1 DEF TypeOK
<1>5. OwnerRemains' /\ OwnersNeverLocked'
  BY <1>1, <1>2 DEF OwnerRemains, OwnersNeverLocked, IsOwner, TypeOK, Persons
<1>6. LiveRequestAboutOwner'
  BY <1>1, <1>3 DEF LiveRequestAboutOwner, IsOwner, TypeOK
<1>7. OneOpenRequest' /\ CallersKnown' /\ HeldAlone' /\ BackupSound'
  BY <1>1 DEF OneOpenRequest, OpenOnce, CallersKnown, Ready, HeldAlone, Writing, Wrote, BackupSound
<1>8. BuffersSound'
  <2> SUFFICES ASSUME NEW q \in Requests, Writing(q) PROVE BufferSound(q)'
    BY <1>1 DEF BuffersSound, Writing
  <2>1. BufferSound(q)
    BY DEF BuffersSound
  <2>2. \A i \in ChangeIds : Live(changes[i])' => Live(changes[i])
    BY <1>1, <1>3 DEF TypeOK
  <2> QED
    BY <2>1, <2>2, <1>1 DEF BufferSound, OpensAboutOwner, IsOwner, Wrote
<1> QED
  BY <1>4, <1>5, <1>6, <1>7, <1>8

LEMMA BackupKeeps ==
  ASSUME OwnershipInv, TakeBackup
  PROVE  OwnershipInv'
<1> USE DEF OwnershipInv
<1>1. UNCHANGED <<person, changes, tx, now>>
  BY DEF TakeBackup
<1>2. TypeOK'
  BY DEF TakeBackup, TypeOK
<1>3. BackupSound'
  BY DEF TakeBackup, BackupSound, OwnersNeverLocked, IsOwner, OneOpenRequest, OpenOnce
<1> QED
  BY <1>1, <1>2, <1>3
  DEF OwnerRemains, OwnersNeverLocked, LiveRequestAboutOwner, OneOpenRequest, OpenOnce,
      CallersKnown, HeldAlone, BuffersSound, BufferSound, OpensAboutOwner, IsOwner, InEffect,
      Live, HasLapsed, Ready, Writing, Wrote

LEMMA RestoreKeeps ==
  ASSUME OwnershipInv, RestoreBackup
  PROVE  OwnershipInv'
<1> USE DEF OwnershipInv
<1>1. /\ person' = [a \in Accounts |-> Paused(backup.person[a])]
      /\ changes' = [i \in ChangeIds |-> Undone(backup.changes[i])]
      /\ tx' = [r \in Requests |-> Idle]
      /\ UNCHANGED <<backup, now>>
      /\ FloorHolds(person')
  BY DEF RestoreBackup
<1>2. ASSUME NEW row \in Persons
      PROVE  /\ Paused(row) \in Persons
             /\ Paused(row).role = row.role
             /\ row.role = "owner" /\ row.susp = Free => Paused(row).susp = Free
  <2>1. Kept(row.susp) \in Suspensions
    BY KeptIsInEffect DEF Persons
  <2>2. CASE row.role = "owner"
    BY <2>1, <2>2 DEF Paused, Persons, Kept
  <2>3. CASE row.role # "owner"
    BY <2>3 DEF Paused, Persons, Suspensions, Whys
  <2> QED
    BY <2>2, <2>3
<1>3. ASSUME NEW c \in Changes
      PROVE  /\ Undone(c) \in Changes
             /\ Undone(c).target = c.target
             /\ Undone(c).state = "open" => c.state = "open" /\ ~Live(c) /\ Undone(c) = c
  BY DEF Undone, Changes, States, Live
<1>4. TypeOK'
  BY <1>1, <1>2, <1>3, TypesOfConstants DEF TypeOK
<1>5. OwnerRemains'
  BY <1>1 DEF OwnerRemains, FloorHolds, IsOwner, InEffect
<1>6. OwnersNeverLocked'
  BY <1>1, <1>2 DEF OwnersNeverLocked, IsOwner, BackupSound, TypeOK
<1>7. LiveRequestAboutOwner'
  BY <1>1, <1>3 DEF LiveRequestAboutOwner, Live, HasLapsed, TypeOK
<1>8. OneOpenRequest'
  BY <1>1, <1>3 DEF OneOpenRequest, OpenOnce, BackupSound, TypeOK
<1>9. CallersKnown' /\ HeldAlone' /\ BuffersSound' /\ BackupSound'
  BY <1>1 DEF CallersKnown, HeldAlone, BuffersSound, Ready, Writing, Idle, BackupSound, OpenOnce
<1> QED
  BY <1>4, <1>5, <1>6, <1>7, <1>8, <1>9

LEMMA StepKeeps ==
  ASSUME OwnershipInv, NEW r \in Requests, Step(r)
  PROVE  OwnershipInv'
<1>1. ASSUME NEW a \in Accounts, Authenticate(r, a)
      PROVE  OwnershipInv'
  <2> DEFINE t == [Idle EXCEPT !.at = "authed", !.caller = a, !.as = person[a].role]
  <2>1. t \in Txs /\ t.at = "authed" /\ t.caller = a
    BY TypesOfConstants DEF OwnershipInv, TypeOK, Txs, Persons, Maybe, Idle
  <2>2. tx' = [tx EXCEPT ![r] = t] /\ UNCHANGED <<person, changes, backup, now>>
    BY <1>1 DEF Authenticate
  <2> QED
    BY <2>1, <2>2, QuietStep
<1>2. ASSUME Abandon(r)
      PROVE  OwnershipInv'
  BY <1>2, TypesOfConstants, QuietStep DEF Abandon, Idle
<1> QED
  BY <1>1, <1>2, CommitKeeps DEF Step

LEMMA NextKeeps == OwnershipInv /\ [Next]_vars => OwnershipInv'
<1> SUFFICES ASSUME OwnershipInv, [Next]_vars PROVE OwnershipInv'
  OBVIOUS
<1>1. CASE UNCHANGED vars
  BY <1>1 DEF vars, OwnershipInv, TypeOK, OwnerRemains, OwnersNeverLocked,
      LiveRequestAboutOwner, OneOpenRequest, OpenOnce, CallersKnown, HeldAlone, BuffersSound,
      BufferSound, OpensAboutOwner, BackupSound, IsOwner, InEffect, Live, HasLapsed, Ready,
      Writing, Wrote
<1>2. CASE Next
  BY <1>2, StepKeeps, RoleRequestKeeps, SignInRequestKeeps, BackupKeeps, RestoreKeeps, TickKeeps
  DEF Next
<1> QED
  BY <1>1, <1>2

\* Whatever the household, the requests under way and the times they take,
\* the invariant the run checks on two people holds (co-owners.ts, locks.ts).
THEOREM OwnershipInvariant == Spec => []OwnershipInv
<1>1. Init => OwnershipInv
  BY InitInv
<1>2. OwnershipInv /\ [Next]_vars => OwnershipInv'
  BY NextKeeps
<1> QED
  BY <1>1, <1>2, PTL DEF Spec

\* A household always has an owner who can sign in (assert_owner_remains).
THEOREM OwnerRemainsHolds == Spec => []OwnerRemains
<1>1. OwnershipInv => OwnerRemains
  BY DEF OwnershipInv
<1> QED
  BY <1>1, OwnershipInvariant, PTL

\* A demotion that can still be carried out is about an owner, whoever stepped
\* down or was demoted meanwhile (stepDown, complete, settle).
THEOREM LiveRequestAboutOwnerHolds == Spec => []LiveRequestAboutOwner
<1>1. OwnershipInv => LiveRequestAboutOwner
  BY DEF OwnershipInv
<1> QED
  BY <1>1, OwnershipInvariant, PTL

(***************************************************************************)
(* What a transaction about to commit is there for: the action properties. *)
(***************************************************************************)

\* It ends requests that have not ended; it takes the owner role off whoever
\* steps down, or with a request whose notice has run; and it lifts a lock in
\* effect only to unlock or to lock anew.
BufferReasons(r) ==
  /\ \A i \in ChangeIds : Wrote(r, i) => changes[i].state \in {"none", "open"}
  /\ tx[r].acct \in Accounts /\ IsOwner(tx[r].acct) /\ tx[r].row.role # "owner" =>
       \/ tx[r].why = "stepped_down" /\ tx[r].caller = tx[r].acct
       \/ \E i \in ChangeIds :
            /\ changes[i].target = tx[r].acct
            /\ changes[i].state = "open"
            /\ changes[i].opens <= now
            /\ Wrote(r, i)
            /\ tx[r].rows[i].state = "completed"
  /\ tx[r].acct \in Accounts /\ InEffect(person[tx[r].acct].susp)
       /\ tx[r].why \notin {"locked", "unlocked"} =>
         tx[r].row.susp = person[tx[r].acct].susp

ReasonsKept == \A r \in Requests : Writing(r) => BufferReasons(r)

LEMMA RequestMovesOne ==
  ASSUME TypeOK, NEW r \in Requests, NEW q \in Requests \ {r},
         \/ RoleRequest(r) \/ SignInRequest(r) \/ Abandon(r)
         \/ \E a \in Accounts : Authenticate(r, a)
  PROVE  tx'[q] = tx[q]
<1>1. ASSUME NEW a, NEW row, NEW rows, NEW why, Writes(r, a, row, rows, why)
      PROVE  tx'[q] = tx[q]
  BY <1>1 DEF Writes, TypeOK
<1>2. CASE RoleRequest(r)
  BY <1>1, <1>2 DEF RoleRequest, ChangeRole, AskDemotion, StepDown, Refuse, Withdraw, Complete
<1>3. CASE SignInRequest(r)
  BY <1>1, <1>3 DEF SignInRequest, RemoveSignIn, RestoreSignIn, LockSignIn, Unlock, Resume
<1>4. CASE Abandon(r) \/ \E a \in Accounts : Authenticate(r, a)
  BY <1>4 DEF Abandon, Authenticate, TypeOK
<1> QED
  BY <1>2, <1>3, <1>4

\* What a transaction holds stays as it read it until it commits.
LEMMA HeldStays ==
  ASSUME OwnershipInv, [Next]_vars, NEW q \in Requests, Writing(q), Writing(q)'
  PROVE  /\ tx'[q] = tx[q] /\ now <= now' /\ now \in Nat /\ now' \in Nat
         /\ tx[q].acct \in Accounts => person'[tx[q].acct] = person[tx[q].acct]
         /\ \A i \in ChangeIds : Wrote(q, i) => changes'[i] = changes[i]
<1> USE DEF OwnershipInv
<1>0. /\ TypeOK /\ now \in Nat /\ ~Ready(q) /\ tx[q].at # "idle"
  BY TimesAssumption DEF TypeOK, Writing, Ready
<1>1. ASSUME NEW r \in Requests, Commit(r)
      PROVE  /\ tx'[q] = tx[q] /\ now' = now
             /\ tx[q].acct \in Accounts => person'[tx[q].acct] = person[tx[q].acct]
             /\ \A i \in ChangeIds : Wrote(q, i) => changes'[i] = changes[i]
  <2>1. r # q
    BY <1>1 DEF Commit, Writing, Idle, TypeOK
  <2>2. tx[r].acct # NoAccount => tx[r].acct # tx[q].acct
    BY <1>1, <2>1 DEF Commit, HeldAlone, Writing
  <2>3. \A i \in ChangeIds : Wrote(q, i) => ~Wrote(r, i)
    BY <1>1, <2>1 DEF Commit, HeldAlone, Writing
  <2> QED
    BY <1>1, <2>1, <2>2, <2>3 DEF Commit, PersonAfter, TypeOK
<1>2. ASSUME NEW r \in Requests,
             \/ RoleRequest(r) \/ SignInRequest(r) \/ Abandon(r)
             \/ \E a \in Accounts : Authenticate(r, a)
      PROVE  tx'[q] = tx[q] /\ UNCHANGED <<person, changes, now>>
  <2>1. \/ Ready(r) \/ tx[r].at = "idle" \/ tx' = [tx EXCEPT ![r] = Idle]
    BY <1>2 DEF RoleRequest, ChangeRole, AskDemotion, StepDown, Refuse, Withdraw, Complete,
                SignInRequest, RemoveSignIn, RestoreSignIn, LockSignIn, Unlock, Resume,
                Abandon, Authenticate
  <2>2. r # q
    BY <2>1, <1>0 DEF Writing, Idle, TypeOK
  <2>3. UNCHANGED <<person, changes, now>>
    BY <1>2 DEF RoleRequest, ChangeRole, AskDemotion, StepDown, Refuse, Withdraw, Complete,
                SignInRequest, RemoveSignIn, RestoreSignIn, LockSignIn, Unlock, Resume,
                Abandon, Authenticate, Writes
  <2> QED
    BY <1>2, <2>2, <2>3, RequestMovesOne
<1>3. CASE Tick \/ TakeBackup \/ UNCHANGED vars
  BY <1>0, <1>3 DEF Tick, TakeBackup, vars
<1>4. ~RestoreBackup
  BY DEF RestoreBackup, Writing, Idle
<1> QED
  BY <1>0, <1>1, <1>2, <1>3, <1>4 DEF Next, Step

\* What is read as a buffer is written is what it was written for.
LEMMA WrittenFor ==
  ASSUME OwnershipInv, NEW r \in Requests, NEW a \in Maybe, NEW row \in Persons,
         NEW rows \in [ChangeIds -> Changes], NEW why \in Reasons,
         Writes(r, a, row, rows, why),
         \A i \in ChangeIds : rows[i] # Untouched => changes[i].state \in {"none", "open"},
         a \in Accounts /\ IsOwner(a) /\ row.role # "owner" =>
           \/ why = "stepped_down" /\ tx[r].caller = a
           \/ \E i \in ChangeIds :
                /\ changes[i].target = a
                /\ changes[i].state = "open"
                /\ changes[i].opens <= now
                /\ rows[i] # Untouched
                /\ rows[i].state = "completed",
         a \in Accounts /\ InEffect(person[a].susp) /\ why \notin {"locked", "unlocked"} =>
           row.susp = person[a].susp
  PROVE  BufferReasons(r)'
<1>1. /\ tx'[r].acct = a /\ tx'[r].row = row /\ tx'[r].rows = rows /\ tx'[r].why = why
      /\ tx'[r].caller = tx[r].caller
      /\ UNCHANGED <<person, changes, backup, now>>
  BY DEF Writes, OwnershipInv, TypeOK, Txs
<1> QED
  BY <1>1 DEF BufferReasons, Wrote, IsOwner, InEffect

LEMMA RequestsHaveReasons ==
  ASSUME OwnershipInv, NEW r \in Requests, RoleRequest(r) \/ SignInRequest(r)
  PROVE  BufferReasons(r)'
<1> USE DEF OwnershipInv
<1>0. Ready(r) /\ tx[r] \in Txs /\ NoRows \in [ChangeIds -> Changes]
      /\ \A i \in ChangeIds : NoRows[i] = Untouched
  BY TypesOfConstants
  DEF RoleRequest, ChangeRole, AskDemotion, StepDown, Refuse, Withdraw, Complete,
      SignInRequest, RemoveSignIn, RestoreSignIn, LockSignIn, Unlock, Resume, TypeOK, NoRows
<1>1. ASSUME NEW a \in Accounts, NEW row \in Persons, NEW why \in Reasons,
             Writes(r, a, row, NoRows, why), ~IsOwner(a),
             InEffect(person[a].susp) /\ why \notin {"locked", "unlocked"} =>
               row.susp = person[a].susp
      PROVE  BufferReasons(r)'
  BY <1>0, <1>1, WrittenFor DEF Maybe
<1>2. ASSUME NEW a \in Accounts, NEW to \in Roles, ChangeRole(r, a, to)
      PROVE  BufferReasons(r)'
  <2>1. person[a] \in Persons /\ WithRole(person[a], to) \in Persons
    BY WithRoleType DEF TypeOK
  <2>2. InEffect(person[a].susp) => WithRole(person[a], to).susp = person[a].susp
    BY DEF WithRole
  <2> QED
    BY <1>1, <1>2, <2>1, <2>2 DEF ChangeRole, IsOwner, Reasons
<1>3. ASSUME NEW a \in Accounts, AskDemotion(r, a) PROVE BufferReasons(r)'
  <2>1. PICK i \in ChangeIds :
          /\ changes[i].state = "none"
          /\ Writes(r, a, person[a], [Settled(Lapsing(a), "lapsed") EXCEPT ![i] = Asked(a)],
                    "asked")
    BY <1>3 DEF AskDemotion
  <2> DEFINE rows == [Settled(Lapsing(a), "lapsed") EXCEPT ![i] = Asked(a)]
  <2>2. Asked(a) \in Changes
    BY TimesAssumption DEF Asked, Changes, Maybe, States, TypeOK
  <2>3. rows \in [ChangeIds -> Changes]
    BY <2>2, SettledType DEF States
  <2>4. \A j \in ChangeIds : rows[j] # Untouched => changes[j].state \in {"none", "open"}
    <3>1. \A j \in ChangeIds \ Lapsing(a) : j # i => rows[j] = Untouched
      BY <2>2, SettledType DEF States
    <3> QED
      BY <2>1, <3>1 DEF Lapsing
  <2>5. person[a] \in Persons /\ person[a].role = "owner"
    BY <1>3 DEF TypeOK, AskDemotion, IsOwner
  <2> HIDE DEF rows
  <2>6. Writes(r, a, person[a], rows, "asked")
    BY <2>1 DEF rows
  <2> QED
    BY <2>3, <2>4, <2>5, <2>6, WrittenFor DEF Maybe, Reasons
<1>4. ASSUME NEW to \in Roles, StepDown(r, to) PROVE BufferReasons(r)'
  <2> DEFINE a == tx[r].caller
             rows == Settled(ClosedBySteppingDown(a), "stepped_down")
  <2>1. a \in Accounts
    BY <1>0 DEF CallersKnown
  <2>2. WithRole(person[a], to) \in Persons
    BY <2>1, WithRoleType DEF TypeOK
  <2>3. InEffect(person[a].susp) => WithRole(person[a], to).susp = person[a].susp
    BY DEF WithRole
  <2>4. rows \in [ChangeIds -> Changes]
    BY SettledType DEF States
  <2>5. \A i \in ChangeIds : rows[i] # Untouched => changes[i].state = "open"
    BY SettledType DEF States, ClosedBySteppingDown, Live
  <2>6. Writes(r, a, WithRole(person[a], to), rows, "stepped_down")
    BY <1>4 DEF StepDown
  <2> HIDE DEF rows
  <2> QED
    BY <2>1, <2>2, <2>3, <2>4, <2>5, <2>6, WrittenFor DEF Maybe, Reasons
<1>5. ASSUME NEW i \in ChangeIds, NEW how \in {"refused", "withdrawn"}, Live(changes[i]),
             Writes(r, NoAccount, NoPerson, Settles(i, how), how)
      PROVE  BufferReasons(r)'
  <2>1. Settles(i, how) \in [ChangeIds -> Changes]
        /\ \A j \in ChangeIds : Settles(i, how)[j] # Untouched => j = i
    BY SettledType DEF Settles, States
  <2> QED
    BY <1>5, <2>1, WrittenFor, TypesOfConstants, AccountsAssumption DEF Maybe, Reasons, Live
<1>6. ASSUME NEW i \in ChangeIds, Complete(r, i) PROVE BufferReasons(r)'
  <2> DEFINE a == changes[i].target
             rows == Settles(i, "completed")
  <2>1. MayComplete(i) /\ Live(changes[i])
    BY <1>6 DEF Complete, MayComplete
  <2>2. a \in Accounts
    BY <2>1 DEF LiveRequestAboutOwner
  <2>3. WithRole(person[a], "adult") \in Persons
    BY <2>2, WithRoleType, RolesAssumption DEF TypeOK
  <2>4. InEffect(person[a].susp) => WithRole(person[a], "adult").susp = person[a].susp
    BY DEF WithRole
  <2>5. /\ rows \in [ChangeIds -> Changes] /\ rows[i] # Untouched
        /\ rows[i].state = "completed"
        /\ \A j \in ChangeIds : rows[j] # Untouched => j = i
    BY SettledType DEF Settles, States
  <2>6. Writes(r, a, WithRole(person[a], "adult"), rows, "completed")
    BY <1>6 DEF Complete
  <2> HIDE DEF rows
  <2>7. changes[i].state = "open" /\ changes[i].opens <= now
    BY <2>1 DEF MayComplete, Live
  <2> QED
    BY <2>2, <2>3, <2>4, <2>5, <2>6, <2>7, WrittenFor DEF Maybe, Reasons
<1>7. ASSUME NEW a \in Accounts, NEW to \in Roles, RemoveSignIn(r, a) \/ RestoreSignIn(r, a, to)
      PROVE  BufferReasons(r)'
  <2>1. /\ [role |-> "none", susp |-> Kept(person[a].susp)] \in Persons
        /\ [role |-> to, susp |-> Kept(person[a].susp)] \in Persons
    BY KeptIsInEffect DEF TypeOK, Persons
  <2>2. InEffect(person[a].susp) => Kept(person[a].susp) = person[a].susp
    BY DEF Kept
  <2> QED
    BY <1>1, <1>7, <2>1, <2>2 DEF RemoveSignIn, RestoreSignIn, IsOwner, Reasons
<1>8. ASSUME NEW a \in Accounts, NEW until \in Nat, LockSignIn(r, a, until)
      PROVE  BufferReasons(r)'
  <2>1. [person[a] EXCEPT !.susp = [why |-> "locked", until |-> until]] \in Persons
    BY DEF TypeOK, Persons, Suspensions, Whys
  <2> QED
    BY <1>1, <1>8, <2>1 DEF LockSignIn, MayLock, IsOwner, Reasons
<1>9. ASSUME NEW a \in Accounts, Unlock(r, a) \/ Resume(r, a)
      PROVE  BufferReasons(r)'
  <2>1. [person[a] EXCEPT !.susp = Free] \in Persons
    BY TypesOfConstants DEF TypeOK, Persons
  <2>2. ~IsOwner(a)
    BY <1>9 DEF Unlock, Resume, OwnersNeverLocked, Free
  <2> QED
    BY <1>1, <1>9, <2>1, <2>2 DEF Unlock, Resume, Reasons
<1>10. \A d \in LockFor : now + d \in Nat
  BY TimesAssumption DEF TypeOK
<1>11. ASSUME RoleRequest(r) PROVE BufferReasons(r)'
  BY <1>11, <1>2, <1>3, <1>4, <1>5, <1>6 DEF RoleRequest, Refuse, Withdraw
<1>12. ASSUME SignInRequest(r) PROVE BufferReasons(r)'
  BY <1>12, <1>7, <1>8, <1>9, <1>10, RolesAssumption DEF SignInRequest
<1> QED
  BY <1>11, <1>12

LEMMA ReasonsStep ==
  ASSUME OwnershipInv, OwnershipInv', ReasonsKept, [Next]_vars
  PROVE  ReasonsKept'
<1> SUFFICES ASSUME NEW q \in Requests, Writing(q)' PROVE BufferReasons(q)'
  BY DEF ReasonsKept
<1>1. CASE Writing(q)
  <2>1. /\ tx'[q] = tx[q] /\ now <= now' /\ now \in Nat /\ now' \in Nat
        /\ tx[q].acct \in Accounts => person'[tx[q].acct] = person[tx[q].acct]
        /\ \A i \in ChangeIds : Wrote(q, i) => changes'[i] = changes[i]
    BY <1>1, HeldStays
  <2>2. BufferReasons(q)
    BY <1>1 DEF ReasonsKept
  <2>3. \A i \in ChangeIds : Wrote(q, i)' = Wrote(q, i)
    BY <2>1 DEF Wrote
  <2>4. \A i \in ChangeIds : changes[i].opens \in Nat
    BY DEF OwnershipInv, TypeOK, Changes
  <2>5. \A a \in Accounts : person[a].susp.until \in Nat
    BY DEF OwnershipInv, TypeOK, Persons, Suspensions
  <2>6. \A a \in Accounts : person'[a] = person[a] /\ InEffect(person[a].susp)' =>
          InEffect(person[a].susp)
    BY <2>1, <2>5 DEF InEffect
  <2>7. ASSUME tx'[q].acct \in Accounts, IsOwner(tx[q].acct)', tx'[q].row.role # "owner"
        PROVE  \/ tx'[q].why = "stepped_down" /\ tx'[q].caller = tx'[q].acct
               \/ \E i \in ChangeIds :
                    /\ changes'[i].target = tx'[q].acct
                    /\ changes'[i].state = "open"
                    /\ changes'[i].opens <= now'
                    /\ Wrote(q, i)'
                    /\ tx'[q].rows[i].state = "completed"
    BY <2>1, <2>2, <2>3, <2>4, <2>7 DEF BufferReasons, IsOwner
  <2>8. ASSUME tx'[q].acct \in Accounts, InEffect(person[tx[q].acct].susp)',
               tx'[q].why \notin {"locked", "unlocked"}
        PROVE  tx'[q].row.susp = person'[tx'[q].acct].susp
    BY <2>1, <2>2, <2>6, <2>8 DEF BufferReasons, InEffect
  <2> QED
    BY <2>1, <2>2, <2>3, <2>7, <2>8 DEF BufferReasons
<1>2. CASE ~Writing(q)
  <2>1. TypeOK /\ ~(tx'[q] = tx[q]) /\ ~(tx'[q] = Idle) /\ tx'[q].at = "writing"
    BY <1>2 DEF Writing, Idle, OwnershipInv
  <2>2. ASSUME NEW r \in Requests, Step(r) \/ RoleRequest(r) \/ SignInRequest(r)
        PROVE  RoleRequest(q) \/ SignInRequest(q)
    <3>1. CASE Commit(r)
      BY <2>1, <3>1 DEF Commit, TypeOK
    <3>2. CASE Abandon(r) \/ \E a \in Accounts : Authenticate(r, a)
      <4>1. q = r
        BY <2>1, <3>2, RequestMovesOne
      <4> QED
        BY <2>1, <3>2, <4>1 DEF Abandon, Authenticate, TypeOK, Idle
    <3>3. CASE RoleRequest(r) \/ SignInRequest(r)
      BY <2>1, <3>3, RequestMovesOne
    <3> QED
      BY <2>2, <3>1, <3>2, <3>3 DEF Step
  <2>3. ~(TakeBackup \/ Tick \/ RestoreBackup \/ UNCHANGED vars)
    BY <2>1 DEF TakeBackup, Tick, RestoreBackup, vars
  <2>4. RoleRequest(q) \/ SignInRequest(q)
    BY <2>2, <2>3 DEF Next
  <2> QED
    BY <2>4, RequestsHaveReasons
<1> QED
  BY <1>1, <1>2

LEMMA ReasonsInvariant == Spec => []ReasonsKept
<1>1. Init => ReasonsKept
  BY DEF Init, ReasonsKept, Writing, Idle
<1>2. OwnershipInv /\ OwnershipInv' /\ ReasonsKept /\ [Next]_vars => ReasonsKept'
  BY ReasonsStep
<1> QED
  BY <1>1, <1>2, OwnershipInvariant, PTL DEF Spec

\* Who commits, and what for; or a restore; or nobody's row and nobody's request.
LEMMA CommitOrRestore ==
  ASSUME OwnershipInv, [Next]_vars, ~(UNCHANGED <<person, changes>>)
  PROVE  \/ \E r \in Requests : Commit(r)
         \/ RestoreBackup
<1>1. ASSUME NEW r, NEW a, NEW row, NEW rows, NEW why, Writes(r, a, row, rows, why)
      PROVE  UNCHANGED <<person, changes>>
  BY <1>1 DEF Writes
<1>2. ASSUME NEW r \in Requests, RoleRequest(r) \/ SignInRequest(r)
      PROVE  UNCHANGED <<person, changes>>
  BY <1>1, <1>2 DEF RoleRequest, ChangeRole, AskDemotion, StepDown, Refuse, Withdraw, Complete,
                SignInRequest, RemoveSignIn, RestoreSignIn, LockSignIn, Unlock, Resume
<1> QED
  BY <1>2 DEF Next, Step, Authenticate, Abandon, TakeBackup, Tick, vars

LEMMA CommitWrites ==
  ASSUME OwnershipInv, ReasonsKept, NEW r \in Requests, Commit(r)
  PROVE  /\ Writing(r) /\ BufferReasons(r) /\ tx'[r].at = "idle"
         /\ \A b \in Accounts : person'[b] = IF b = tx[r].acct THEN tx[r].row ELSE person[b]
         /\ \A i \in ChangeIds : changes'[i] = IF Wrote(r, i) THEN tx[r].rows[i] ELSE changes[i]
<1>1. Writing(r) /\ BufferReasons(r) /\ tx'[r] = Idle
  BY DEF Commit, Writing, ReasonsKept, OwnershipInv, TypeOK
<1>2. tx[r].acct \in Maybe
  BY DEF OwnershipInv, TypeOK, Txs
<1>3. \A b \in Accounts : person'[b] = IF b = tx[r].acct THEN tx[r].row ELSE person[b]
  BY <1>2, AccountsAssumption DEF Commit, PersonAfter, OwnershipInv, TypeOK, Maybe
<1> QED
  BY <1>1, <1>3 DEF Commit, Idle

\* Nobody loses the owner role to others but by a request that ran its notice
\* unrefused, settled as carried out by the step that takes the role.
THEOREM NoticeKeptHolds == Spec => NoticeKept
<1>1. OwnershipInv /\ ReasonsKept /\ [Next]_vars =>
        [\A a \in Accounts :
           IsOwner(a) /\ person'[a].role # "owner" =>
             \/ \E i \in ChangeIds :
                  /\ changes[i].target = a
                  /\ changes[i].state = "open"
                  /\ changes[i].opens <= now
                  /\ changes'[i].state = "completed"
             \/ \E r \in Requests : Commits(r, "stepped_down") /\ tx[r].caller = a
             \/ person' = [b \in Accounts |-> Paused(backup.person[b])]]_vars
  <2> SUFFICES ASSUME OwnershipInv, ReasonsKept, [Next]_vars, NEW a \in Accounts,
                      IsOwner(a), person'[a].role # "owner"
               PROVE  \/ \E i \in ChangeIds :
                           /\ changes[i].target = a
                           /\ changes[i].state = "open"
                           /\ changes[i].opens <= now
                           /\ changes'[i].state = "completed"
                      \/ \E r \in Requests : Commits(r, "stepped_down") /\ tx[r].caller = a
                      \/ person' = [b \in Accounts |-> Paused(backup.person[b])]
    OBVIOUS
  <2>1. (\E r \in Requests : Commit(r)) \/ RestoreBackup
    BY CommitOrRestore DEF IsOwner
  <2>2. ASSUME NEW r \in Requests, Commit(r)
        PROVE  \/ \E i \in ChangeIds :
                    /\ changes[i].target = a
                    /\ changes[i].state = "open"
                    /\ changes[i].opens <= now
                    /\ changes'[i].state = "completed"
               \/ Commits(r, "stepped_down") /\ tx[r].caller = a
    <3>1. /\ Writing(r) /\ BufferReasons(r) /\ tx'[r].at = "idle"
          /\ \A b \in Accounts : person'[b] = IF b = tx[r].acct THEN tx[r].row ELSE person[b]
          /\ \A i \in ChangeIds : changes'[i] = IF Wrote(r, i) THEN tx[r].rows[i] ELSE changes[i]
      BY <2>2, CommitWrites
    <3>2. tx[r].acct = a /\ tx[r].row.role # "owner"
      BY <3>1 DEF IsOwner
    <3> QED
      BY <3>1, <3>2 DEF BufferReasons, Commits, Writing
  <2> QED
    BY <2>1, <2>2 DEF RestoreBackup
<1> QED
  BY <1>1, OwnershipInvariant, ReasonsInvariant, PTL DEF Spec, NoticeKept

\* A request ends once, whoever ends it and however many try at the same time.
THEOREM SettledOnceHolds == Spec => SettledOnce
<1>1. OwnershipInv /\ ReasonsKept /\ [Next]_vars =>
        [\A i \in ChangeIds :
           changes[i].state \notin {"none", "open"} =>
             \/ changes'[i] = changes[i]
             \/ changes' = [j \in ChangeIds |-> Undone(backup.changes[j])]]_vars
  <2> SUFFICES ASSUME OwnershipInv, ReasonsKept, [Next]_vars, NEW i \in ChangeIds,
                      changes[i].state \notin {"none", "open"}, changes'[i] # changes[i]
               PROVE  changes' = [j \in ChangeIds |-> Undone(backup.changes[j])]
    OBVIOUS
  <2>1. (\E r \in Requests : Commit(r)) \/ RestoreBackup
    BY CommitOrRestore
  <2>2. ASSUME NEW r \in Requests, Commit(r) PROVE FALSE
    BY <2>2, CommitWrites DEF BufferReasons
  <2> QED
    BY <2>1, <2>2 DEF RestoreBackup
<1> QED
  BY <1>1, OwnershipInvariant, ReasonsInvariant, PTL DEF Spec, SettledOnce

\* A lock in effect is not lost by taking the sign-in away and giving it back.
THEOREM LockSurvivesHolds == Spec => LockSurvives
<1>1. OwnershipInv /\ ReasonsKept /\ [Next]_vars =>
        [\A a \in Accounts :
           InEffect(person[a].susp) =>
             \/ person'[a].susp = person[a].susp
             \/ \E r \in Requests : Commits(r, "unlocked") /\ tx[r].acct = a
             \/ \E r \in Requests : Commits(r, "locked") /\ tx[r].acct = a
             \/ person' = [b \in Accounts |-> Paused(backup.person[b])]]_vars
  <2> SUFFICES ASSUME OwnershipInv, ReasonsKept, [Next]_vars, NEW a \in Accounts,
                      InEffect(person[a].susp), person'[a].susp # person[a].susp
               PROVE  \/ \E r \in Requests : Commits(r, "unlocked") /\ tx[r].acct = a
                      \/ \E r \in Requests : Commits(r, "locked") /\ tx[r].acct = a
                      \/ person' = [b \in Accounts |-> Paused(backup.person[b])]
    OBVIOUS
  <2>1. (\E r \in Requests : Commit(r)) \/ RestoreBackup
    BY CommitOrRestore
  <2>2. ASSUME NEW r \in Requests, Commit(r)
        PROVE  (Commits(r, "unlocked") \/ Commits(r, "locked")) /\ tx[r].acct = a
    <3>1. /\ Writing(r) /\ BufferReasons(r) /\ tx'[r].at = "idle"
          /\ person'[a] = IF a = tx[r].acct THEN tx[r].row ELSE person[a]
      BY <2>2, CommitWrites
    <3> QED
      BY <3>1 DEF BufferReasons, Commits, Writing
  <2> QED
    BY <2>1, <2>2 DEF RestoreBackup
<1> QED
  BY <1>1, OwnershipInvariant, ReasonsInvariant, PTL DEF Spec, LockSurvives

-----------------------------------------------------------------------------
(* Invitations.                                                            *)

LinkRecords == Made \union {Unmade}

LEMMA InvitationsInitInv == InvitationsInit => InvitationsInv
<1> SUFFICES ASSUME InvitationsInit PROVE InvitationsInv
  OBVIOUS
<1>1. \A l \in Links : link[l] = Unmade /\ ~There(l)
  BY DEF InvitationsInit, There, Unmade
<1>2. (\A a \in Inviters : making[a] = NotMaking) /\ \A c \in Calls : call[c] = NotAccepting /\ ~Held(c)
  BY DEF InvitationsInit, Held, NotAccepting
<1>3. LinksTypeOK
  BY InvitationsAssumption
  DEF InvitationsInit, LinksTypeOK, Invitees, Kinds, Limits, RolesByAge, NotMaking, NotAccepting, Unmade
<1>4. OneWayIn /\ SignInFits /\ AsGiven
  BY <1>1 DEF OneWayIn, SignInFits, AsGiven, Open, Used, InvitationsInit
<1> QED
  BY <1>2, <1>3, <1>4 DEF InvitationsInv, MakersHold, HeldToAccept, CallsNameLinks, NotAccepting

\* What happens to a link that is neither made, accepted nor taken out of the way.
Aged(l) ==
  \/ link'[l] = link[l]
  \/ /\ link[l] \in Made /\ link'[l] \in Made
     /\ link'[l].at = link[l].at
     /\ link'[l].by = link[l].by
     /\ link'[l].role = link[l].role
     /\ link'[l].given = link[l].given
     /\ link'[l].accepted = link[l].accepted
     /\ \/ link'[l].revoked = link[l].revoked
        \/ Open(l) /\ link'[l].revoked = "loose"
        \/ Open(l) /\ link'[l].revoked = "held" /\ ~SomeHold

LEMMA AgedLinks ==
  ASSUME InvitationsInv, NEW l \in Links, Aged(l)
  PROVE  /\ There(l)' = There(l) /\ Used(l)' = Used(l)
         /\ Open(l)' => Open(l)
         /\ (link'[l] = Unmade) = (link[l] = Unmade)
         /\ link[l] # Unmade => /\ link'[l].by = link[l].by /\ link'[l].role = link[l].role
                                /\ link'[l].given = link[l].given
<1>1. CASE link'[l] = link[l]
  BY <1>1 DEF There, Used, Open
<1>2. CASE link'[l] # link[l]
  <2>1. /\ link[l] \in Made /\ link'[l] \in Made
        /\ link'[l].at = link[l].at /\ link'[l].accepted = link[l].accepted
        /\ link'[l].by = link[l].by /\ link'[l].role = link[l].role /\ link'[l].given = link[l].given
        /\ link'[l].revoked = "no" => link[l].revoked = "no"
    BY <1>2 DEF Aged, Open
  <2>2. link[l] # Unmade /\ link'[l] # Unmade
    BY <2>1 DEF Made, Unmade
  <2> QED
    BY <2>1, <2>2 DEF There, Used, Open
<1> QED
  BY <1>1, <1>2

\* A step that makes no link and lets nobody in.
LEMMA QuietInvitation ==
  ASSUME InvitationsInv, UNCHANGED making,
         link' \in [Links -> LinkRecords], \A l \in Links : Aged(l),
         invitee' \in Invitees, invitee'.kind = invitee.kind,
         invitee' = invitee \/ ~SomeHold,
         limits' \in Limits, locked' \subseteq Adults, SignInFits',
         call' \in [Calls -> [at : {"idle", "looked", "right", "held"}, link : Links \union {NoLink}]],
         \A c \in Calls : Held(c)' => call'[c] = call[c],
         CallsNameLinks'
  PROVE  InvitationsInv'
<1> USE DEF InvitationsInv
<1>1. LinksTypeOK'
  BY DEF LinksTypeOK, LinkRecords
<1>2. OneWayIn'
  BY AgedLinks DEF OneWayIn
<1>3. AsGiven'
  BY AgedLinks DEF AsGiven
<1>4. MakersHold'
  <2> SUFFICES ASSUME NEW a \in Inviters, making[a] # NotMaking
               PROVE  /\ making[a].link \in Links
                      /\ LET it == link'[making[a].link]
                         IN it.at = "making" /\ it.by = a /\ ~it.accepted /\ it.revoked = "no"
                      /\ \A l \in making[a].there : There(l)' /\ (a \notin Owners => link'[l].by = a)
    BY DEF MakersHold, LinksTypeOK
  <2> DEFINE it == link[making[a].link]
  <2>1. making[a].link \in Links /\ it.at = "making" /\ it.by = a /\ ~it.accepted /\ it.revoked = "no"
    BY DEF MakersHold
  <2>2. ~Open(making[a].link)
    BY <2>1 DEF Open, There
  <2>3. Aged(making[a].link)
    BY <2>1
  <2>4. LET new == link'[making[a].link]
        IN new.at = "making" /\ new.by = a /\ ~new.accepted /\ new.revoked = "no"
    BY <2>1, <2>2, <2>3 DEF Aged
  <2>5. ASSUME NEW l \in making[a].there PROVE There(l)' /\ (a \notin Owners => link'[l].by = a)
    <3>1. l \in Links /\ There(l) /\ (a \notin Owners => link[l].by = a)
      BY DEF MakersHold, LinksTypeOK
    <3>2. link[l] # Unmade
      BY <3>1 DEF There, Unmade
    <3> QED
      BY <3>1, <3>2, AgedLinks
  <2> QED
    BY <2>1, <2>4, <2>5
<1>5. HeldToAccept'
  <2> SUFFICES ASSUME NEW c \in Calls, Held(c)'
               PROVE  /\ ~Shared'
                      /\ \A d \in Calls : Held(d)' => d = c
                      /\ There(call[c].link)'
                      /\ MaySignIn(link[call[c].link].role)'
                      /\ link'[call[c].link].revoked # "held"
    BY DEF HeldToAccept
  <2>1. \A d \in Calls : Held(d)' => Held(d)
    BY DEF Held
  <2>2. Held(c) /\ SomeHold /\ invitee' = invitee
    BY <2>1 DEF SomeHold
  <2>3. call[c].link \in Links
    BY <2>2 DEF Held, CallsNameLinks
  <2>4. There(call[c].link)' /\ ~HadSignIn'
    <3>1. There(call[c].link) /\ ~HadSignIn /\ call'[c] = call[c]
      BY <2>2 DEF HeldToAccept, MaySignIn
    <3> QED
      BY <2>3, <3>1, AgedLinks DEF HadSignIn
  <2>5. link'[call[c].link].revoked # "held"
    BY <2>2, <2>3 DEF Aged, HeldToAccept
  <2>6. MaySignIn(link[call[c].link].role)'
    <3>1. There(call[c].link) /\ MaySignIn(link[call[c].link].role) /\ call'[c] = call[c]
      BY <2>2 DEF HeldToAccept
    <3>2. link'[call[c].link].role = link[call[c].link].role
      BY <2>3, <3>1, AgedLinks DEF There, Unmade
    <3> QED
      BY <2>2, <2>4, <3>1, <3>2 DEF MaySignIn
  <2> QED
    BY <2>1, <2>2, <2>4, <2>5, <2>6 DEF HeldToAccept, Shared
<1> QED
  BY <1>1, <1>2, <1>3, <1>4, <1>5

LEMMA TakenBackAges ==
  ASSUME InvitationsInv, NEW why \in {"loose", "held"}, NEW which, why = "held" => ~SomeHold,
         link' = TakenBack(why, which)
  PROVE  link' \in [Links -> LinkRecords] /\ \A l \in Links : Aged(l)
<1>1. ASSUME NEW l \in Links PROVE link'[l] \in LinkRecords /\ Aged(l)
  <2>1. link[l] \in LinkRecords
    BY DEF InvitationsInv, LinksTypeOK, LinkRecords
  <2>2. CASE l \in which /\ Open(l)
    <3>1. link'[l] = [link[l] EXCEPT !.revoked = why]
      BY <2>2 DEF TakenBack
    <3>2. link[l] \in Made
      BY <2>1, <2>2 DEF LinkRecords, Open, There, Unmade
    <3> QED
      BY <2>2, <3>1, <3>2 DEF LinkRecords, Aged, Made
  <2>3. CASE ~(l \in which /\ Open(l))
    BY <2>1, <2>3 DEF TakenBack, Aged
  <2> QED
    BY <2>2, <2>3
<1> QED
  BY <1>1 DEF TakenBack

\* One link changes and stays what it is.
LEMMA OneAges ==
  ASSUME InvitationsInv, NEW l \in Links, NEW r \in Made,
         link' = [link EXCEPT ![l] = r],
         link[l] \in Made,
         r.at = link[l].at, r.by = link[l].by, r.role = link[l].role, r.given = link[l].given,
         r.accepted = link[l].accepted, r.revoked = link[l].revoked
  PROVE  link' \in [Links -> LinkRecords] /\ \A m \in Links : Aged(m)
BY DEF InvitationsInv, LinksTypeOK, LinkRecords, Aged

LEMMA ThereIsMade ==
  ASSUME InvitationsInv, NEW l \in Links, There(l)
  PROVE  link[l] \in Made
BY DEF InvitationsInv, LinksTypeOK, There, Unmade

LEMMA SameLinks ==
  ASSUME InvitationsInv, UNCHANGED link
  PROVE  link' \in [Links -> LinkRecords] /\ \A l \in Links : Aged(l)
BY DEF InvitationsInv, LinksTypeOK, LinkRecords, Aged

\* Whoever is signed in stays so while links age.
LEMMA SignInStays ==
  ASSUME InvitationsInv, \A l \in Links : Aged(l), UNCHANGED <<invitee, limits>>
  PROVE  SignInFits'
<1>1. CASE invitee.signedIn = NoLink
  BY <1>1 DEF SignInFits
<1>2. CASE invitee.signedIn # NoLink
  <2> DEFINE l == invitee.signedIn
  <2>1. l \in Links /\ Used(l) /\ link[l] # Unmade
    BY <1>2 DEF InvitationsInv, LinksTypeOK, SignInFits, Invitees, Used, There, Unmade
  <2>2. Used(l)' /\ link'[l].role = link[l].role
    BY <2>1, AgedLinks
  <2>3. invitee'.signedIn = l
    OBVIOUS
  <2> QED
    BY <1>2, <2>2, <2>3 DEF InvitationsInv, SignInFits, Used, There
<1> QED
  BY <1>1, <1>2

\* Steps that leave the person, their limits and all requests alone.
LEMMA LinkAgesKeeps ==
  ASSUME InvitationsInv, link' \in [Links -> LinkRecords], \A l \in Links : Aged(l),
         UNCHANGED <<invitee, limits, making, call>>, locked' \subseteq Adults
  PROVE  InvitationsInv'
<1>1. SignInFits'
  BY SignInStays
<1>2. CallsNameLinks' /\ invitee \in Invitees /\ limits \in Limits
  BY DEF InvitationsInv, CallsNameLinks, LinksTypeOK
<1>3. call \in [Calls -> [at : {"idle", "looked", "right", "held"}, link : Links \union {NoLink}]]
  BY DEF InvitationsInv, LinksTypeOK
<1> QED
  BY <1>1, <1>2, <1>3, QuietInvitation

LEMMA OpenAgesKeeps ==
  ASSUME InvitationsInv,
         (\E l \in Links : Revoke(l) \/ Expire(l)) \/ \E a \in Adults : Lock(a)
  PROVE  InvitationsInv'
<1>0. locked \subseteq Adults
  BY DEF InvitationsInv, LinksTypeOK
<1>1. ASSUME NEW l \in Links, Revoke(l) PROVE InvitationsInv'
  BY <1>0, <1>1, TakenBackAges, LinkAgesKeeps DEF Revoke
<1>2. ASSUME NEW a \in Adults, Lock(a) PROVE InvitationsInv'
  BY <1>0, <1>2, TakenBackAges, LinkAgesKeeps DEF Lock
<1>3. ASSUME NEW l \in Links, Expire(l) PROVE InvitationsInv'
  <2> DEFINE r == [link[l] EXCEPT !.expired = TRUE]
  <2>1. link[l] \in Made
    BY <1>3, ThereIsMade DEF Expire, Open
  <2>2. /\ r \in Made /\ r.at = link[l].at /\ r.by = link[l].by /\ r.role = link[l].role
        /\ r.given = link[l].given /\ r.accepted = link[l].accepted /\ r.revoked = link[l].revoked
    BY <2>1 DEF Made
  <2>3. link' = [link EXCEPT ![l] = r]
    BY <1>3 DEF Expire
  <2> HIDE DEF r
  <2>4. link' \in [Links -> LinkRecords] /\ \A m \in Links : Aged(m)
    BY <2>1, <2>2, <2>3, OneAges
  <2> QED
    BY <1>0, <1>3, <2>4, LinkAgesKeeps DEF Expire
<1> QED
  BY <1>1, <1>2, <1>3

\* Steps that change the person or their limits and leave every request alone.
LEMMA PersonKeeps ==
  ASSUME InvitationsInv, link' \in [Links -> LinkRecords], \A l \in Links : Aged(l),
         UNCHANGED <<making, call, locked>>,
         invitee' \in Invitees, invitee'.kind = invitee.kind, invitee' = invitee \/ ~SomeHold,
         limits' \in Limits, SignInFits'
  PROVE  InvitationsInv'
<1>1. CallsNameLinks' /\ locked \subseteq Adults
  BY DEF InvitationsInv, CallsNameLinks, LinksTypeOK
<1>2. call \in [Calls -> [at : {"idle", "looked", "right", "held"}, link : Links \union {NoLink}]]
  BY DEF InvitationsInv, LinksTypeOK
<1> QED
  BY <1>1, <1>2, QuietInvitation

LEMMA InviteeType ==
  ASSUME InvitationsInv, NEW here \in BOOLEAN, NEW dead \in BOOLEAN, NEW suits \in RolesByAge,
         NEW l \in Links \union {NoLink}
  PROVE  /\ invitee \in Invitees
         /\ [invitee EXCEPT !.here = here] \in Invitees
         /\ [invitee EXCEPT !.dead = dead] \in Invitees
         /\ [invitee EXCEPT !.suits = suits] \in Invitees
         /\ [invitee EXCEPT !.signedIn = l] \in Invitees
BY DEF InvitationsInv, LinksTypeOK, Invitees

LEMMA PassKeeps ==
  ASSUME InvitationsInv, Pass
  PROVE  InvitationsInv'
<1>1. ~SomeHold
  BY DEF Pass, Unheld
<1>2. link' \in [Links -> LinkRecords] /\ \A l \in Links : Aged(l)
  BY <1>1, TakenBackAges, SameLinks DEF Pass
<1>3. invitee \in Invitees /\ limits \in Limits
  BY DEF InvitationsInv, LinksTypeOK
<1>4. invitee' \in Invitees /\ invitee'.kind = invitee.kind /\ invitee'.signedIn = invitee.signedIn
  BY <1>3 DEF Pass, Invitees
<1>5. invitee.signedIn = NoLink
  BY DEF Pass, InvitationsInv, SignInFits
<1>6. SignInFits'
  BY <1>4, <1>5 DEF SignInFits
<1> QED
  BY <1>1, <1>2, <1>3, <1>4, <1>6, PersonKeeps DEF Pass

LEMMA ChangeBirthdayKeeps ==
  ASSUME InvitationsInv, ChangeBirthday
  PROVE  InvitationsInv'
<1>1. ~SomeHold /\ link' \in [Links -> LinkRecords] /\ \A l \in Links : Aged(l)
  BY SameLinks DEF ChangeBirthday, Unheld
<1>2. invitee \in Invitees /\ limits \in Limits
  BY DEF InvitationsInv, LinksTypeOK
<1>3. /\ invitee' \in Invitees /\ invitee'.kind = invitee.kind /\ invitee'.signedIn = invitee.signedIn
      /\ invitee'.here = invitee.here /\ invitee'.dead = invitee.dead
  BY <1>2 DEF ChangeBirthday, Invitees
<1>4. SignInFits'
  BY <1>3 DEF ChangeBirthday, InvitationsInv, SignInFits, Used, There
<1> QED
  BY <1>1, <1>2, <1>3, <1>4, PersonKeeps DEF ChangeBirthday

LEMMA LimitsKeeps ==
  ASSUME InvitationsInv, SetLimits \/ RemoveLimits
  PROVE  InvitationsInv'
<1>1. invitee \in Invitees /\ limits \in Limits /\ limits' \in Limits /\ UNCHANGED invitee
  BY DEF InvitationsInv, LinksTypeOK, SetLimits, RemoveLimits, Limits
<1>2. link' \in [Links -> LinkRecords] /\ \A l \in Links : Aged(l)
  <2>1. CASE RemoveLimits
    BY <2>1, SameLinks DEF RemoveLimits
  <2>2. CASE SetLimits
    <3>1. ASSUME NEW l \in Links PROVE link'[l] \in LinkRecords /\ Aged(l)
      <4>1. link[l] \in LinkRecords
        BY DEF InvitationsInv, LinksTypeOK, LinkRecords
      <4>2. CASE Open(l) \/ link[l].at = "making"
        <5>1. link'[l] = [link[l] EXCEPT !.after = FALSE]
          BY <2>2, <4>2 DEF SetLimits
        <5>2. link[l] \in Made
          BY <4>1, <4>2 DEF LinkRecords, Open, There, Unmade
        <5> QED
          BY <5>1, <5>2 DEF LinkRecords, Aged, Made
      <4>3. CASE ~(Open(l) \/ link[l].at = "making")
        BY <2>2, <4>1, <4>3 DEF SetLimits, Aged
      <4> QED
        BY <4>2, <4>3
    <3> QED
      BY <2>2, <3>1 DEF SetLimits
  <2> QED
    BY <2>1, <2>2
<1>3. SignInFits'
  <2> SUFFICES ASSUME invitee.signedIn # NoLink
               PROVE  /\ Used(invitee.signedIn)'
                      /\ invitee.here /\ ~invitee.dead
                      /\ invitee.kind = "guest" => limits' # "none"
                      /\ limits' # "none" => link'[invitee.signedIn].role = "viewer"
    BY <1>1 DEF SignInFits
  <2> DEFINE l == invitee.signedIn
  <2>1. l \in Links /\ Used(l) /\ link[l] # Unmade
    BY DEF InvitationsInv, LinksTypeOK, SignInFits, Invitees, Used, There, Unmade
  <2>2. Used(l)' /\ link'[l].role = link[l].role
    BY <1>2, <2>1, AgedLinks, <1>1
  <2>3. /\ invitee.here /\ ~invitee.dead
        /\ limits' # "none" => link[l].role = "viewer"
        /\ invitee.kind = "guest" => limits' # "none"
    BY DEF SetLimits, RemoveLimits, InvitationsInv, SignInFits
  <2> QED
    BY <2>2, <2>3, <1>1
<1> QED
  BY <1>1, <1>2, <1>3, PersonKeeps DEF SetLimits, RemoveLimits

LEMMA TakeSignInAwayKeeps ==
  ASSUME InvitationsInv, TakeSignInAway
  PROVE  InvitationsInv'
<1>1. ~SomeHold /\ link' \in [Links -> LinkRecords] /\ \A l \in Links : Aged(l)
  BY SameLinks DEF TakeSignInAway
<1>2. invitee \in Invitees /\ limits \in Limits
  BY DEF InvitationsInv, LinksTypeOK
<1>3. invitee' \in Invitees /\ invitee'.kind = invitee.kind /\ invitee'.signedIn = NoLink
  BY <1>2 DEF TakeSignInAway, Invitees
<1>4. SignInFits'
  BY <1>3 DEF SignInFits
<1> QED
  BY <1>1, <1>2, <1>3, <1>4, PersonKeeps DEF TakeSignInAway

-----------------------------------------------------------------------------
(* Accepting, up to the hold of the person.                                *)

CallRecord == [at : {"idle", "looked", "right", "held"}, link : Links \union {NoLink}]

\* Steps of one request that does not come to hold the person.
LEMMA CallKeeps ==
  ASSUME InvitationsInv, NEW c \in Calls, NEW r \in CallRecord, call' = [call EXCEPT ![c] = r],
         r.at # "held", r.at # "idle" => r.link \in Links,
         link' \in [Links -> LinkRecords], \A l \in Links : Aged(l),
         UNCHANGED <<invitee, limits, making, locked>>
  PROVE  InvitationsInv'
<1>1. call \in [Calls -> CallRecord] /\ invitee \in Invitees /\ limits \in Limits /\ locked \subseteq Adults
  BY DEF InvitationsInv, LinksTypeOK, CallRecord
<1>2. call' \in [Calls -> CallRecord]
  BY <1>1
<1>3. \A d \in Calls : Held(d)' => call'[d] = call[d]
  BY <1>1 DEF Held
<1>4. CallsNameLinks'
  BY <1>1 DEF InvitationsInv, CallsNameLinks
<1> QED
  BY <1>1, <1>2, <1>3, <1>4, SignInStays, QuietInvitation DEF CallRecord

LEMMA GoTypes ==
  ASSUME InvitationsInv, NEW c \in Calls
  PROVE  /\ NotAccepting \in CallRecord /\ NotAccepting.at = "idle"
         /\ \A stage \in {"looked", "right", "held"} :
              /\ [call[c] EXCEPT !.at = stage] \in CallRecord
              /\ [call[c] EXCEPT !.at = stage].at = stage
              /\ [call[c] EXCEPT !.at = stage].link = call[c].link
              /\ [call EXCEPT ![c].at = stage] = [call EXCEPT ![c] = [call[c] EXCEPT !.at = stage]]
BY DEF InvitationsInv, LinksTypeOK, NotAccepting, CallRecord

LEMMA LookKeeps ==
  ASSUME InvitationsInv, NEW c \in Calls, NEW l \in Links, Look(c, l)
  PROVE  InvitationsInv'
<1> DEFINE r == [at |-> "looked", link |-> l]
<1>1. r \in CallRecord /\ r.at = "looked" /\ r.link = l /\ call' = [call EXCEPT ![c] = r]
  BY DEF Look, CallRecord
<1> HIDE DEF r
<1> QED
  BY <1>1, SameLinks, CallKeeps DEF Look

LEMMA RefusedKeeps ==
  ASSUME InvitationsInv, NEW c \in Calls, Refused(c),
         link' \in [Links -> LinkRecords], \A l \in Links : Aged(l),
         UNCHANGED <<invitee, limits, making, locked>>
  PROVE  InvitationsInv'
<1> DEFINE r == NotAccepting
<1>1. r \in CallRecord /\ r.at = "idle" /\ call' = [call EXCEPT ![c] = r]
  BY GoTypes DEF Refused
<1> HIDE DEF r
<1> QED
  BY <1>1, CallKeeps

LEMMA ReserveKeeps ==
  ASSUME InvitationsInv, NEW c \in Calls, Reserve(c)
  PROVE  InvitationsInv'
<1> DEFINE l == call[c].link
<1>1. l \in Links /\ call[c].at = "looked"
  BY DEF Reserve, InvitationsInv, CallsNameLinks
<1>2. CASE Refused(c) /\ UNCHANGED link
  BY <1>2, SameLinks, RefusedKeeps DEF Reserve
<1>3. CASE Goto(c, "right") /\ UNCHANGED link
  <2> DEFINE r == [call[c] EXCEPT !.at = "right"]
  <2>1. r \in CallRecord /\ r.at = "right" /\ r.link = l /\ call' = [call EXCEPT ![c] = r]
    BY <1>3, GoTypes DEF Goto
  <2> HIDE DEF r
  <2> QED
    BY <1>1, <1>3, <2>1, SameLinks, CallKeeps DEF Reserve
<1>4. CASE Reservable(l) /\ Refused(c) /\ link' = [link EXCEPT ![l].attempts = @ + 1]
  <2> DEFINE r == [link[l] EXCEPT !.attempts = @ + 1]
  <2>1. link[l] \in Made /\ link[l].attempts < MaxAttempts
    BY <1>1, <1>4, ThereIsMade DEF Reservable, Open
  <2>2. /\ r \in Made /\ r.at = link[l].at /\ r.by = link[l].by /\ r.role = link[l].role
        /\ r.given = link[l].given /\ r.accepted = link[l].accepted /\ r.revoked = link[l].revoked
    BY <2>1, InvitationsAssumption DEF Made
  <2>3. link' = [link EXCEPT ![l] = r]
    BY <1>4
  <2> HIDE DEF r
  <2>4. link' \in [Links -> LinkRecords] /\ \A m \in Links : Aged(m)
    BY <1>1, <2>1, <2>2, <2>3, OneAges
  <2> QED
    BY <1>4, <2>4, RefusedKeeps DEF Reserve
<1> QED
  BY <1>2, <1>3, <1>4 DEF Reserve

LEMMA AcceptFailsKeeps ==
  ASSUME InvitationsInv, NEW c \in Calls, AcceptFails(c)
  PROVE  InvitationsInv'
BY SameLinks, RefusedKeeps DEF AcceptFails

\* The person is held by one request alone, which finds that they may sign in.
LEMMA HoldKeeps ==
  ASSUME InvitationsInv, NEW c \in Calls, Hold(c)
  PROVE  InvitationsInv'
<1> DEFINE l == call[c].link
<1>1. CASE Refused(c)
  BY <1>1, SameLinks, RefusedKeeps DEF Hold
<1>2. CASE ~Refused(c)
  <2> DEFINE r == [call[c] EXCEPT !.at = "held"]
  <2>1. r \in CallRecord /\ r.at = "held" /\ r.link = l /\ call' = [call EXCEPT ![c] = r]
    BY <1>2, GoTypes DEF Hold, Goto
  <2> HIDE DEF r
  <2>2. /\ UNCHANGED <<invitee, limits, link, making, locked>>
        /\ Unheld /\ StillLive(l) /\ MaySignIn(link[l].role)
    BY <1>2 DEF Hold
  <2>3. call \in [Calls -> CallRecord] /\ l \in Links
    BY DEF Hold, InvitationsInv, LinksTypeOK, CallRecord, CallsNameLinks
  <2>4. LinksTypeOK' /\ CallsNameLinks'
    BY <2>1, <2>2, <2>3 DEF InvitationsInv, LinksTypeOK, CallsNameLinks, CallRecord
  <2>5. \A d \in Calls : Held(d)' => d = c
    BY <2>1, <2>2, <2>3 DEF Held, Unheld, SomeHold
  <2>6. HeldToAccept'
    BY <2>1, <2>2, <2>3, <2>5 DEF HeldToAccept, Unheld, Shared, MaySignIn, HadSignIn, Used, StillLive, LiveLink,
       Open, There
  <2> QED
    BY <2>2, <2>4, <2>6 DEF InvitationsInv, OneWayIn, SignInFits, AsGiven, MakersHold, Open, Used, There
<1> QED
  BY <1>1, <1>2

-----------------------------------------------------------------------------
(* Making a link.                                                          *)

LEMMA NobodyHoldsToAccept ==
  ASSUME InvitationsInv, ~SomeHold, UNCHANGED call
  PROVE  HeldToAccept' /\ CallsNameLinks'
BY DEF InvitationsInv, SomeHold, Held, HeldToAccept, CallsNameLinks

LEMMA CreateBeginKeeps ==
  ASSUME InvitationsInv, NEW a \in Inviters, NEW l \in Links, CreateBegin(a, l)
  PROVE  InvitationsInv'
<1>1. PICK role \in RolesGiven, given \in Limits :
        /\ MayInvite(a, role, given)
        /\ MaySignIn(role)
        /\ link' = [link EXCEPT ![l] =
             [at |-> "making", by |-> a, role |-> role, given |-> given, after |-> TRUE,
              attempts |-> 0, expired |-> FALSE, accepted |-> FALSE, revoked |-> "no"]]
  BY DEF CreateBegin
<1> DEFINE r == [at |-> "making", by |-> a, role |-> role, given |-> given, after |-> TRUE,
                 attempts |-> 0, expired |-> FALSE, accepted |-> FALSE, revoked |-> "no"]
           mine == [link |-> l, there |-> {m \in Links : LiveLink(m)}]
<1>2. /\ r \in Made /\ r.at = "making" /\ r.by = a /\ r.role = role /\ r.given = given
      /\ ~r.accepted /\ r.revoked = "no"
  BY InvitationsAssumption DEF Made
<1>3. /\ mine \in [link : Links \union {NoLink}, there : SUBSET Links]
      /\ mine.link = l /\ mine.there = {m \in Links : LiveLink(m)}
  OBVIOUS
<1>4. link' = [link EXCEPT ![l] = r] /\ making' = [making EXCEPT ![a] = mine]
  BY <1>1 DEF CreateBegin
<1> HIDE DEF r, mine
<1>5. /\ link[l] = Unmade /\ ~SomeHold /\ MayReplace(a) /\ invitee.signedIn = NoLink
      /\ UNCHANGED <<invitee, limits, call, locked>>
  BY DEF CreateBegin
<1>6. /\ link'[l] = r /\ \A m \in Links \ {l} : link'[m] = link[m]
      /\ making'[a] = mine /\ \A b \in Inviters \ {a} : making'[b] = making[b]
  BY <1>4 DEF InvitationsInv, LinksTypeOK
<1>7. LinksTypeOK'
  BY <1>2, <1>3, <1>4, <1>5 DEF InvitationsInv, LinksTypeOK
<1>8. \A m \in Links : There(m)' = There(m) /\ Open(m)' = Open(m) /\ Used(m)' = Used(m)
  BY <1>2, <1>5, <1>6 DEF There, Open, Used, Unmade
<1>9. OneWayIn' /\ SignInFits'
  BY <1>5, <1>8 DEF InvitationsInv, OneWayIn, SignInFits
<1>10. AsGiven'
  <2>1. /\ role # "viewer" => given = "none"
        /\ a \notin Owners => (role = "viewer" /\ given = "limited") \/ role = "teen"
        /\ invitee.kind = "guest" => given # "none"
    BY <1>1 DEF MayInvite, RolesGiven
  <2> QED
    BY <1>2, <1>5, <1>6, <2>1 DEF InvitationsInv, AsGiven
<1>11. MakersHold'
  <2> SUFFICES ASSUME NEW b \in Inviters, making'[b] # NotMaking
               PROVE  /\ making'[b].link \in Links
                      /\ LET it == link'[making'[b].link]
                         IN it.at = "making" /\ it.by = b /\ ~it.accepted /\ it.revoked = "no"
                      /\ \A m \in making'[b].there : There(m)' /\ (b \notin Owners => link'[m].by = b)
    BY DEF MakersHold
  <2>1. CASE b = a
    <3>1. \A m \in mine.there : There(m)' /\ (a \notin Owners => link'[m].by = a)
      <4> SUFFICES ASSUME NEW m \in mine.there PROVE There(m)' /\ (a \notin Owners => link'[m].by = a)
        OBVIOUS
      <4>1. m \in Links /\ LiveLink(m) /\ There(m)
        BY <1>3 DEF LiveLink, Open
      <4>2. m # l
        BY <1>5, <4>1 DEF There, Unmade
      <4> QED
        BY <1>5, <1>6, <1>8, <4>1, <4>2 DEF MayReplace
    <3> QED
      BY <1>2, <1>3, <1>6, <2>1, <3>1
  <2>2. CASE b # a
    <3>1. making'[b] = making[b] /\ making[b] # NotMaking
      BY <1>6, <2>2
    <3>2. /\ making[b].link \in Links
          /\ LET it == link[making[b].link]
             IN it.at = "making" /\ it.by = b /\ ~it.accepted /\ it.revoked = "no"
          /\ \A m \in making[b].there : There(m) /\ (b \notin Owners => link[m].by = b)
      BY <3>1 DEF InvitationsInv, MakersHold
    <3>3. making[b].link # l
      BY <1>5, <3>2 DEF Unmade
    <3>4. \A m \in making[b].there : m \in Links /\ m # l
      BY <1>5, <3>2 DEF There, Unmade, InvitationsInv, LinksTypeOK
    <3> QED
      BY <1>6, <1>8, <3>1, <3>2, <3>3, <3>4
  <2> QED
    BY <2>1, <2>2
<1> QED
  BY <1>5, <1>7, <1>9, <1>10, <1>11, NobodyHoldsToAccept DEF InvitationsInv

\* The end of a link's making: what the others are, and who else is at it.
LEMMA MakerIsAlone ==
  ASSUME InvitationsInv, NEW a \in Inviters, making[a] # NotMaking
  PROVE  /\ ~SomeHold
         /\ making[a].link \in Links /\ link[making[a].link] \in Made
         /\ link[making[a].link].at = "making" /\ ~link[making[a].link].accepted
         /\ link[making[a].link].revoked = "no"
         /\ \A b \in Inviters \ {a} : making[b] # NotMaking =>
              /\ making[b].link # making[a].link
              /\ \A m \in making[b].there : m # making[a].link
<1>1. Shared
  BY DEF Shared
<1>2. ~SomeHold
  BY <1>1 DEF SomeHold, InvitationsInv, HeldToAccept
<1>3. /\ making[a].link \in Links /\ link[making[a].link].at = "making"
      /\ link[making[a].link].by = a /\ ~link[making[a].link].accepted
      /\ link[making[a].link].revoked = "no"
  BY DEF InvitationsInv, MakersHold
<1>4. link[making[a].link] \in Made
  BY <1>3 DEF InvitationsInv, LinksTypeOK, Unmade
<1>5. ASSUME NEW b \in Inviters \ {a}, making[b] # NotMaking
      PROVE  /\ making[b].link # making[a].link
             /\ \A m \in making[b].there : m # making[a].link
  <2>1. link[making[b].link].by = b /\ \A m \in making[b].there : There(m)
    BY <1>5 DEF InvitationsInv, MakersHold
  <2> QED
    BY <1>3, <2>1 DEF There
<1> QED
  BY <1>2, <1>3, <1>4, <1>5

\* The other makers' part, when one is done and what was made is not unmade.
LEMMA OtherMakersHold ==
  ASSUME InvitationsInv, NEW a \in Inviters, making[a] # NotMaking,
         making' = [making EXCEPT ![a] = NotMaking],
         \A m \in Links \ {making[a].link} : Aged(m)
  PROVE  MakersHold'
<1> SUFFICES ASSUME NEW b \in Inviters, making'[b] # NotMaking
             PROVE  /\ making'[b].link \in Links
                    /\ LET it == link'[making'[b].link]
                       IN it.at = "making" /\ it.by = b /\ ~it.accepted /\ it.revoked = "no"
                    /\ \A m \in making'[b].there : There(m)' /\ (b \notin Owners => link'[m].by = b)
  BY DEF MakersHold
<1>1. b # a /\ making'[b] = making[b] /\ making[b] # NotMaking
  BY DEF InvitationsInv, LinksTypeOK
<1>2. /\ making[b].link \in Links
      /\ LET it == link[making[b].link]
         IN it.at = "making" /\ it.by = b /\ ~it.accepted /\ it.revoked = "no"
      /\ \A m \in making[b].there : There(m) /\ (b \notin Owners => link[m].by = b)
      /\ making[b].there \subseteq Links
  BY <1>1 DEF InvitationsInv, MakersHold, LinksTypeOK
<1>3. making[b].link # making[a].link /\ \A m \in making[b].there : m # making[a].link
  BY <1>1, MakerIsAlone
<1>4. LET it == link'[making[b].link]
      IN it.at = "making" /\ it.by = b /\ ~it.accepted /\ it.revoked = "no"
  <2>1. Aged(making[b].link) /\ ~Open(making[b].link)
    BY <1>2, <1>3 DEF Open, There
  <2> QED
    BY <1>2, <2>1 DEF Aged
<1>5. ASSUME NEW m \in making[b].there PROVE There(m)' /\ (b \notin Owners => link'[m].by = b)
  <2>1. m \in Links /\ Aged(m) /\ There(m) /\ link[m] # Unmade
    BY <1>2, <1>3 DEF There, Unmade
  <2> QED
    BY <1>2, <2>1, AgedLinks
<1> QED
  BY <1>1, <1>2, <1>4, <1>5

\* A link made takes the place of all that were open.
LEMMA WrittenLinks ==
  ASSUME InvitationsInv, NEW a \in Inviters, CreateWrite(a)
  PROVE  /\ link' \in [Links -> LinkRecords]
         /\ link'[making[a].link] = [link[making[a].link] EXCEPT !.at = "made"]
         /\ \A m \in Links \ {making[a].link} :
              Aged(m) /\ ~Open(m)' /\ (Open(m) => link'[m].revoked = "held")
<1> DEFINE l == making[a].link
           taken == TakenBack("held", Replaced)
<1>1. l \in Links /\ link[l] \in Made /\ ~Open(l) /\ ~SomeHold
  BY MakerIsAlone DEF CreateWrite, Open, There
<1>2. ASSUME NEW m \in Links PROVE taken[m] = IF Open(m) THEN [link[m] EXCEPT !.revoked = "held"] ELSE link[m]
  BY DEF TakenBack, Replaced
<1>3. taken = [m \in Links |-> taken[m]]
  BY DEF TakenBack
<1> HIDE DEF taken
<1>4. link' = [taken EXCEPT ![l].at = "made"]
  BY DEF CreateWrite, taken
<1>5. link'[l] = [link[l] EXCEPT !.at = "made"]
  BY <1>1, <1>2, <1>3, <1>4
<1>6. ASSUME NEW m \in Links \ {l}
      PROVE  /\ Aged(m) /\ ~Open(m)' /\ link'[m] \in LinkRecords
             /\ Open(m) => link'[m].revoked = "held"
  <2>1. link'[m] = IF Open(m) THEN [link[m] EXCEPT !.revoked = "held"] ELSE link[m]
    BY <1>1, <1>2, <1>3, <1>4
  <2>2. link[m] \in LinkRecords
    BY DEF InvitationsInv, LinksTypeOK, LinkRecords
  <2>3. CASE Open(m)
    <3>1. link[m] \in Made
      BY <2>3, ThereIsMade DEF Open
    <3> QED
      BY <1>1, <2>1, <2>3, <3>1 DEF Made, Aged, Open, LinkRecords
  <2>4. CASE ~Open(m)
    BY <2>1, <2>2, <2>4 DEF Aged, Open, There
  <2> QED
    BY <2>3, <2>4
<1>7. link'[l] \in LinkRecords
  BY <1>1, <1>5 DEF Made, LinkRecords
<1>8. link' \in [Links -> LinkRecords]
  BY <1>3, <1>4, <1>6, <1>7
<1> QED
  BY <1>5, <1>6, <1>8

\* Unmaking a link that was on its way.
LEMMA UnmadeLinks ==
  ASSUME InvitationsInv, NEW a \in Inviters, CreateFails(a)
  PROVE  /\ link' \in [Links -> LinkRecords]
         /\ link'[making[a].link] = Unmade
         /\ \A m \in Links \ {making[a].link} : link'[m] = link[m] /\ Aged(m)
<1>1. making[a].link \in Links
  BY MakerIsAlone DEF CreateFails
<1> QED
  BY <1>1 DEF CreateFails, InvitationsInv, LinksTypeOK, LinkRecords, Aged

LEMMA CreateEndKeeps ==
  ASSUME InvitationsInv, NEW a \in Inviters, CreateWrite(a) \/ CreateFails(a)
  PROVE  InvitationsInv'
<1>1. /\ making[a] # NotMaking /\ making' = [making EXCEPT ![a] = NotMaking]
      /\ UNCHANGED <<invitee, limits, call, locked>>
  BY DEF CreateWrite, CreateFails
<1>0. PICK l \in Links : l = making[a].link
  BY <1>1, MakerIsAlone
<1>2. /\ ~SomeHold /\ link[l] \in Made /\ link[l].at = "making"
      /\ ~link[l].accepted /\ link[l].revoked = "no"
  BY <1>0, <1>1, MakerIsAlone
<1>3. link' \in [Links -> LinkRecords] /\ \A m \in Links \ {l} : Aged(m)
  BY <1>0, WrittenLinks, UnmadeLinks
<1>4. LinksTypeOK'
  <2>1. NotMaking \in [link : Links \union {NoLink}, there : SUBSET Links]
    BY DEF NotMaking
  <2> QED
    BY <1>1, <1>3, <2>1 DEF InvitationsInv, LinksTypeOK, LinkRecords
<1>5. \A m \in Links : Used(m)' <=> Used(m)
  <2>1. ~Used(l)
    BY <1>2 DEF Used, There
  <2>2. ~Used(l)'
    <3>1. CASE CreateWrite(a)
      <4>1. link'[l] = [link[l] EXCEPT !.at = "made"]
        BY <1>0, <3>1, WrittenLinks
      <4> QED
        BY <1>2, <4>1 DEF Used, Made
    <3>2. CASE CreateFails(a)
      BY <1>0, <3>2, UnmadeLinks DEF Used, There, Unmade
    <3> QED
      BY <3>1, <3>2
  <2>3. \A m \in Links \ {l} : Used(m)' <=> Used(m)
    BY <1>3, AgedLinks
  <2> QED
    BY <2>1, <2>2, <2>3
<1>6. \A m, n \in Links : Open(m)' /\ Open(n)' => m = n
  <2>1. CASE CreateWrite(a)
    BY <1>0, <2>1, WrittenLinks
  <2>2. CASE CreateFails(a)
    <3>1. ~Open(l)' /\ \A m \in Links : Open(m)' => Open(m)
      BY <1>0, <1>3, <2>2, UnmadeLinks, AgedLinks DEF Open, There, Unmade
    <3> QED
      BY <3>1 DEF InvitationsInv, OneWayIn
  <2> QED
    BY <2>1, <2>2
<1>7. OneWayIn'
  BY <1>5, <1>6 DEF InvitationsInv, OneWayIn
<1>8. SignInFits'
  <2> SUFFICES ASSUME invitee.signedIn # NoLink
               PROVE  /\ Used(invitee.signedIn)'
                      /\ invitee.here /\ ~invitee.dead
                      /\ invitee.kind = "guest" => limits # "none"
                      /\ limits # "none" => link'[invitee.signedIn].role = "viewer"
    BY <1>1 DEF SignInFits
  <2> DEFINE m == invitee.signedIn
  <2>1. m \in Links /\ Used(m) /\ link[m] # Unmade /\ m # l
    BY <1>2 DEF InvitationsInv, LinksTypeOK, SignInFits, Invitees, Used, There, Unmade
  <2>2. Used(m)' /\ link'[m].role = link[m].role
    BY <1>1, <1>3, <2>1, AgedLinks
  <2> QED
    BY <2>2 DEF InvitationsInv, SignInFits
<1>9. AsGiven'
  <2>1. \A m \in Links : link'[m] # Unmade =>
          link[m] # Unmade /\ link'[m].role = link[m].role /\ link'[m].given = link[m].given
            /\ link'[m].by = link[m].by
    <3>1. \A m \in Links \ {l} : link'[m] # Unmade =>
            link[m] # Unmade /\ link'[m].role = link[m].role /\ link'[m].given = link[m].given
              /\ link'[m].by = link[m].by
      BY <1>3, AgedLinks
    <3>2. link[l] # Unmade
      BY <1>2 DEF Unmade
    <3>3. link'[l] # Unmade =>
            link'[l].role = link[l].role /\ link'[l].given = link[l].given /\ link'[l].by = link[l].by
      <4>1. CASE CreateWrite(a)
        <5>1. link'[l] = [link[l] EXCEPT !.at = "made"]
          BY <1>0, <4>1, WrittenLinks
        <5> QED
          BY <1>2, <5>1 DEF Made
      <4> QED
        BY <1>0, <4>1, UnmadeLinks
    <3> QED
      BY <3>1, <3>2, <3>3
  <2> QED
    BY <1>1, <2>1 DEF InvitationsInv, AsGiven
<1>10. MakersHold'
  BY <1>0, <1>1, <1>3, OtherMakersHold
<1> QED
  BY <1>1, <1>2, <1>4, <1>7, <1>8, <1>9, <1>10, NobodyHoldsToAccept DEF InvitationsInv

LEMMA RemoveGuestKeeps ==
  ASSUME InvitationsInv, RemoveGuest
  PROVE  InvitationsInv'
<1>1. /\ ~SomeHold /\ \A a \in Inviters : making'[a] = NotMaking
      /\ invitee.signedIn = NoLink /\ UNCHANGED <<making, call, locked>>
  BY DEF RemoveGuest, Unheld, Shared
<1>2. \A l \in Links : link'[l] = Unmade /\ ~There(l)'
  BY DEF RemoveGuest, There, Unmade
<1>3. LinksTypeOK' /\ invitee'.signedIn = NoLink
  BY <1>1 DEF RemoveGuest, InvitationsInv, LinksTypeOK, Invitees, Limits
<1>4. OneWayIn' /\ SignInFits' /\ AsGiven' /\ MakersHold'
  BY <1>1, <1>2, <1>3 DEF OneWayIn, Open, Used, SignInFits, AsGiven, MakersHold
<1> QED
  BY <1>1, <1>3, <1>4, NobodyHoldsToAccept DEF InvitationsInv

-----------------------------------------------------------------------------
(* Coming in.                                                              *)

\* What whoever holds the person knows when they accept.
LEMMA HolderKnows ==
  ASSUME InvitationsInv, NEW c \in Calls, Held(c)
  PROVE  /\ call[c].link \in Links /\ link[call[c].link] \in Made /\ There(call[c].link)
         /\ ~Used(call[c].link) /\ ~HadSignIn /\ ~Shared
         /\ link[call[c].link].revoked # "held"
         /\ invitee.here /\ ~invitee.dead
         /\ \A d \in Calls \ {c} : ~Held(d)
<1>1. call[c].link \in Links
  BY DEF Held, InvitationsInv, CallsNameLinks
<1>2. /\ There(call[c].link) /\ ~HadSignIn /\ ~Shared
      /\ invitee.here /\ ~invitee.dead
  BY DEF InvitationsInv, HeldToAccept, MaySignIn
<1>3. ~Used(call[c].link)
  BY <1>1, <1>2 DEF HadSignIn
<1> QED
  BY <1>1, <1>2, <1>3, ThereIsMade DEF InvitationsInv, HeldToAccept

\* The limits somebody comes in with: an adult's link limits a viewer, makes a
\* teen of nobody limited, and gives way to what an owner set.
LEMMA LimitsApplied ==
  ASSUME InvitationsInv, NEW l \in Links, There(l), Fits(l)
  PROVE  /\ Applied(l) \in Limits
         /\ link[l].given # "none" => Applied(l) # "none"
         /\ link[l].by \notin Owners =>
              \/ link[l].role = "viewer" /\ Applied(l) = "limited"
              \/ link[l].role = "teen" /\ limits = "none" /\ Applied(l) = "none"
         /\ Applied(l) # "none" => link[l].role = "viewer"
         /\ limits # "none" /\ Applied(l) # limits => link[l].by \in Owners /\ link[l].after
<1>1. /\ link[l] \in Made /\ link[l] # Unmade /\ limits \in Limits /\ link[l].given \in Limits
      /\ link[l].role \in RolesGiven
  <2>1. link[l] \in Made
    BY ThereIsMade
  <2> QED
    BY <2>1 DEF InvitationsInv, LinksTypeOK, Made, Unmade
<1>2. /\ link[l].role # "viewer" => link[l].given = "none"
      /\ link[l].by \notin Owners =>
           \/ link[l].role = "viewer" /\ link[l].given = "limited"
           \/ link[l].role = "teen"
  BY <1>1 DEF InvitationsInv, AsGiven
<1> QED
  BY <1>1, <1>2 DEF Applied, Fits, MayReplaceLimits, Limits, RolesGiven

LEMMA AcceptKeeps ==
  ASSUME InvitationsInv, NEW c \in Calls, Accept(c)
  PROVE  InvitationsInv'
<1> DEFINE l == call[c].link
<1>1. CASE ~Fits(l)
  BY <1>1, SameLinks, RefusedKeeps DEF Accept
<1>2. CASE Fits(l)
  <2>1. /\ l \in Links /\ link[l] \in Made /\ There(l) /\ ~Used(l) /\ ~HadSignIn /\ ~Shared
        /\ invitee.here /\ ~invitee.dead /\ \A d \in Calls \ {c} : ~Held(d)
    BY HolderKnows DEF Accept
  <2>2. /\ invitee' = [invitee EXCEPT !.signedIn = l] /\ limits' = Applied(l)
        /\ link' = [link EXCEPT ![l].accepted = TRUE]
        /\ call' = [call EXCEPT ![c] = NotAccepting] /\ UNCHANGED <<making, locked>>
    BY <1>2 DEF Accept, Refused
  <2>3. /\ invitee' \in Invitees /\ invitee'.kind = invitee.kind /\ invitee'.signedIn = l
        /\ invitee'.here /\ ~invitee'.dead
    BY <2>1, <2>2 DEF InvitationsInv, LinksTypeOK, Invitees
  <2> DEFINE r == [link[l] EXCEPT !.accepted = TRUE]
  <2>4. /\ r \in Made /\ r.at = "made" /\ r.accepted /\ r.by = link[l].by /\ r.role = link[l].role
        /\ r.given = link[l].given
    BY <2>1 DEF Made, There
  <2>5. link' = [link EXCEPT ![l] = r]
    BY <2>2
  <2> HIDE DEF r
  <2>6. link'[l] = r /\ \A m \in Links \ {l} : link'[m] = link[m]
    BY <2>1, <2>5 DEF InvitationsInv, LinksTypeOK
  <2>7. LinksTypeOK'
    <3>1. NotAccepting \in CallRecord
      BY GoTypes
    <3> QED
      BY <1>2, <2>1, <2>2, <2>3, <2>4, <2>5, <3>1, LimitsApplied
      DEF InvitationsInv, LinksTypeOK, CallRecord
  <2>8. /\ \A m \in Links : Open(m)' => Open(m)
        /\ \A m \in Links : Used(m)' <=> m = l
    BY <2>1, <2>4, <2>6 DEF Open, Used, There, HadSignIn
  <2>9. OneWayIn'
    BY <2>8 DEF InvitationsInv, OneWayIn
  <2>10. link[l] # Unmade /\ link'[l] # Unmade
    BY <2>1, <2>4, <2>6 DEF Made, Unmade
  <2>11. AsGiven'
    BY <2>3, <2>4, <2>6, <2>10 DEF InvitationsInv, AsGiven
  <2>12. SignInFits'
    <3>1. invitee.kind = "guest" => Applied(l) # "none"
      BY <1>2, <2>1, <2>10, LimitsApplied DEF InvitationsInv, AsGiven
    <3>2. Applied(l) # "none" => link'[l].role = "viewer"
      BY <1>2, <2>1, <2>4, <2>6, LimitsApplied
    <3> QED
      BY <2>1, <2>2, <2>3, <2>8, <3>1, <3>2 DEF SignInFits
  <2>13. MakersHold'
    BY <2>1, <2>2 DEF MakersHold, Shared
  <2>14. HeldToAccept' /\ CallsNameLinks'
    <3>1. /\ call'[c] = NotAccepting /\ \A d \in Calls \ {c} : call'[d] = call[d]
      BY <2>2 DEF InvitationsInv, LinksTypeOK
    <3> QED
      BY <2>1, <3>1 DEF HeldToAccept, Held, NotAccepting, InvitationsInv, CallsNameLinks
  <2> QED
    BY <2>7, <2>9, <2>11, <2>12, <2>13, <2>14 DEF InvitationsInv
<1> QED
  BY <1>1, <1>2

LEMMA InvitationsKeep == InvitationsInv /\ [InvitationsNext]_invitationsVars => InvitationsInv'
<1> SUFFICES ASSUME InvitationsInv, [InvitationsNext]_invitationsVars PROVE InvitationsInv'
  OBVIOUS
<1>1. CASE UNCHANGED invitationsVars
  BY <1>1, SameLinks, LinkAgesKeeps DEF invitationsVars, InvitationsInv, LinksTypeOK
<1>2. ASSUME NEW c \in Calls, Reserve(c) \/ Hold(c) \/ Accept(c) \/ AcceptFails(c) PROVE InvitationsInv'
  BY <1>2, ReserveKeeps, HoldKeeps, AcceptKeeps, AcceptFailsKeeps
<1> QED
  BY <1>1, <1>2, CreateBeginKeeps, CreateEndKeeps, OpenAgesKeeps, PassKeeps, ChangeBirthdayKeeps,
     LimitsKeeps, RemoveGuestKeeps, TakeSignInAwayKeeps, LookKeeps DEF InvitationsNext

\* However links are made, replaced, taken back and accepted at once, one person
\* has one open link at most and comes in by one at most, as a sign-in that fits
\* them; with what that follows from.
THEOREM InvitationsInvariant == InvitationsSpec => []InvitationsInv
BY InvitationsInitInv, InvitationsKeep, PTL DEF InvitationsSpec

\* A link becomes accepted by whoever holds the person to accept it, when it fits.
LEMMA AcceptedByAccept ==
  ASSUME InvitationsInv, [InvitationsNext]_invitationsVars, NEW l \in Links, Accepted(l)
  PROVE  \E c \in Calls : /\ Held(c) /\ call[c].link = l /\ Fits(l)
                          /\ There(l) /\ limits' = Applied(l)
<1>1. There(l) /\ ~Used(l) /\ Used(l)'
  BY DEF Accepted, Used
<1>2. ~Aged(l)
  BY <1>1, AgedLinks
<1>3. ASSUME NEW c \in Calls, Accept(c)
      PROVE  \E d \in Calls : /\ Held(d) /\ call[d].link = l /\ Fits(l)
                              /\ There(l) /\ limits' = Applied(l)
  <2>1. Held(c) /\ call[c].link \in Links
    BY <1>3, HolderKnows DEF Accept
  <2>2. CASE call[c].link # l
    <3>1. link'[l] = link[l]
      BY <1>3, <2>1, <2>2 DEF Accept, InvitationsInv, LinksTypeOK
    <3> QED
      BY <1>2, <3>1 DEF Aged
  <2>3. CASE call[c].link = l
    BY <1>1, <1>2, <1>3, <2>1, <2>3 DEF Accept, Aged
  <2> QED
    BY <2>2, <2>3
<1>4. ASSUME NEW a \in Inviters, CreateWrite(a) \/ CreateFails(a) PROVE FALSE
  <2>1. making[a] # NotMaking
    BY <1>4 DEF CreateWrite, CreateFails
  <2>2. l # making[a].link
    BY <1>1, <2>1, MakerIsAlone DEF There
  <2> QED
    BY <1>2, <1>4, <2>2, WrittenLinks, UnmadeLinks
<1>5. ASSUME NEW a \in Inviters, NEW m \in Links, CreateBegin(a, m) PROVE FALSE
  <2>1. l # m /\ link' = [link EXCEPT ![m] = link'[m]]
    BY <1>1, <1>5 DEF CreateBegin, There, Unmade, InvitationsInv, LinksTypeOK
  <2>2. link'[l] = link[l]
    BY <2>1 DEF InvitationsInv, LinksTypeOK
  <2> QED
    BY <1>2, <2>2 DEF Aged
<1>6. ~RemoveGuest
  BY <1>1 DEF RemoveGuest, Used, There, Unmade
<1>7. ~Pass /\ ~ChangeBirthday /\ ~TakeSignInAway /\ ~RemoveLimits
  BY <1>2, TakenBackAges, SameLinks DEF Pass, Unheld, ChangeBirthday, TakeSignInAway, RemoveLimits
<1>8. ASSUME SetLimits PROVE FALSE
  BY <1>1, <1>8 DEF SetLimits, Used, There
<1>9. ASSUME NEW m \in Links, NEW r, link' = [link EXCEPT ![m] = r],
             r.accepted = link[m].accepted, r.at = link[m].at
      PROVE  FALSE
  BY <1>1, <1>9 DEF Used, There, InvitationsInv, LinksTypeOK
<1>10. ~(\E m \in Links : Revoke(m)) /\ ~(\E a \in Adults : Lock(a))
  BY <1>2, TakenBackAges DEF Revoke, Lock
<1>11. ASSUME NEW m \in Links, Expire(m) PROVE FALSE
  <2> DEFINE r == [link[m] EXCEPT !.expired = TRUE]
  <2>1. link[m] \in Made /\ link' = [link EXCEPT ![m] = r]
    BY <1>11, ThereIsMade DEF Expire, Open
  <2>2. r.accepted = link[m].accepted /\ r.at = link[m].at
    BY <2>1 DEF Made
  <2> QED
    BY <1>9, <2>1, <2>2
<1>12. link' # link
  BY <1>2 DEF Aged
<1>13. ASSUME NEW c \in Calls, Reserve(c) PROVE FALSE
  <2>1. PICK m \in Links : m = call[c].link
    BY <1>13 DEF Reserve, InvitationsInv, CallsNameLinks
  <2> DEFINE r == [link[m] EXCEPT !.attempts = @ + 1]
  <2>2. Reservable(m) /\ link' = [link EXCEPT ![m] = r]
    BY <1>12, <1>13, <2>1 DEF Reserve
  <2>3. link[m] \in Made
    BY <2>2, ThereIsMade DEF Reservable, Open
  <2>4. r.accepted = link[m].accepted /\ r.at = link[m].at
    BY <2>3 DEF Made
  <2> QED
    BY <1>9, <2>2, <2>4
<1>14. ASSUME NEW c \in Calls, Hold(c) \/ AcceptFails(c) \/ \E m \in Links : Look(c, m) PROVE FALSE
  BY <1>12, <1>14 DEF Hold, AcceptFails, Look
<1>15. ~UNCHANGED invitationsVars
  BY <1>12 DEF invitationsVars
<1> QED
  BY <1>3, <1>4, <1>5, <1>6, <1>7, <1>8, <1>10, <1>11, <1>13, <1>14, <1>15 DEF InvitationsNext

\* An adult's link takes the place of their own alone, of those they found.
LEMMA ReplacesTheirOwn ==
  ASSUME InvitationsInv, [InvitationsNext]_invitationsVars, InvitationsInv',
         NEW a \in Adults, NEW l \in Links,
         making[a] # NotMaking, making'[a] = NotMaking, LiveLink(l),
         link'[l].at = "made", link'[l].revoked = "held"
  PROVE  link[l].by = a \/ l \notin making[a].there
<1>1. a \in Inviters /\ a \notin Owners
  BY InvitationsAssumption DEF Inviters
<1>2. \A m \in making[a].there : link[m].by = a
  BY <1>1 DEF InvitationsInv, MakersHold
<1> QED
  BY <1>2

\* What an owner decided stands whatever an adult does meanwhile: no adult's link
\* takes the place of another's that was there, nobody comes in by one but as a
\* limited viewer or a teen without limits, and limits give way to an owner's
\* newer link alone.
THEOREM OwnersChoiceStandsHolds == InvitationsSpec => OwnersChoiceStands
<1> DEFINE Choice ==
      /\ \A a \in Adults, l \in Links :
           making[a] # NotMaking /\ LiveLink(l) /\ link'[l].at = "made" /\ link'[l].revoked = "held"
           /\ making'[a] = NotMaking =>
             link[l].by = a \/ l \notin making[a].there
      /\ \A l \in Links : Accepted(l) =>
           /\ link[l].by \in Adults =>
                \/ link[l].role = "viewer" /\ limits' = "limited"
                \/ link[l].role = "teen" /\ limits = "none" /\ limits' = "none"
           /\ link[l].given # "none" => limits' # "none"
           /\ limits # "none" /\ limits' # limits => link[l].by \in Owners /\ link[l].after
<1>1. InvitationsInv /\ InvitationsInv' /\ [InvitationsNext]_invitationsVars => [Choice]_invitationsVars
  <2> SUFFICES ASSUME InvitationsInv, InvitationsInv', [InvitationsNext]_invitationsVars PROVE Choice
    OBVIOUS
  <2>1. ASSUME NEW l \in Links, Accepted(l)
        PROVE  /\ link[l].by \in Adults =>
                    \/ link[l].role = "viewer" /\ limits' = "limited"
                    \/ link[l].role = "teen" /\ limits = "none" /\ limits' = "none"
               /\ link[l].given # "none" => limits' # "none"
               /\ limits # "none" /\ limits' # limits => link[l].by \in Owners /\ link[l].after
    <3>1. Fits(l) /\ There(l) /\ limits' = Applied(l)
      BY <2>1, AcceptedByAccept
    <3> QED
      BY <3>1, LimitsApplied, InvitationsAssumption
  <2> QED
    BY <2>1, ReplacesTheirOwn
<1> QED
  BY <1>1, InvitationsInvariant, PTL DEF InvitationsSpec, OwnersChoiceStands

\* Nobody comes in by a link that was taken back by whatever holds the person, nor
\* by one revoked, unless its acceptance already held them.
THEOREM TakenBackStaysOutHolds == InvitationsSpec => TakenBackStaysOut
<1>1. InvitationsInv /\ [InvitationsNext]_invitationsVars =>
        [\A l \in Links :
           Accepted(l) /\ link[l].revoked # "no" =>
             /\ link[l].revoked = "loose"
             /\ \E c \in Calls : Held(c) /\ call[c].link = l]_invitationsVars
  <2> SUFFICES ASSUME InvitationsInv, [InvitationsNext]_invitationsVars,
                      NEW l \in Links, Accepted(l), link[l].revoked # "no"
               PROVE  link[l].revoked = "loose" /\ \E c \in Calls : Held(c) /\ call[c].link = l
    OBVIOUS
  <2>1. PICK c \in Calls : Held(c) /\ call[c].link = l
    BY AcceptedByAccept
  <2>2. link[l].revoked # "held" /\ link[l] \in Made
    BY <2>1, HolderKnows
  <2> QED
    BY <2>1, <2>2 DEF Made
<1> QED
  BY <1>1, InvitationsInvariant, PTL DEF InvitationsSpec, TakenBackStaysOut
=============================================================================
