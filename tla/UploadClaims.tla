---------------------------- MODULE UploadClaims ----------------------------
(***************************************************************************)
(* One file on its way into the vault under one Idempotency-Key            *)
(* (apps/api/src/documents/service.ts: accept, claim, commitFiling,        *)
(* release), and the nightly sweep of keys (apps/worker/src/jobs/          *)
(* uploads.ts).                                                            *)
(*                                                                         *)
(* A try claims the key in one transaction, streams the file to a          *)
(* temporary object in none, and commits in another, which moves the       *)
(* object to where versions are kept.  The sender may send again at any    *)
(* moment, and whichever process runs a try may die at any moment; a try   *)
(* taken for dead may still be running.  Claim, commit and release take an *)
(* advisory lock on the key; the sweep does not.                           *)
(***************************************************************************)
EXTENDS Integers, FiniteSets

CONSTANTS
  Tries,      \* the times the file is sent, one nonce each
  NoTry,
  Scopes,     \* whom a document may be for, each with its own key
  Capture,    \* TRUE: the file makes a new document; FALSE: a version of one
  MaxFaults,  \* bound: failures of storage, connections and processes
  MaxMoves    \* bound: changes of who the document is for

ASSUME TriesAssumption ==
  /\ NoTry \notin Tries
  /\ Scopes # {}
  /\ Capture \in BOOLEAN
  /\ MaxFaults \in Nat
  /\ MaxMoves \in Nat

VARIABLES
  claim,      \* the key's row in upload_idempotency
  try,        \* accept(), one per try
  lock,       \* whose transaction holds lockKey, and with it the document's row
  sent,       \* that transaction has sent its COMMIT
  objects,    \* what is on storage
  wrapped,    \* document_version: for whom each try's version is wrapped
  doc,        \* whom the document is for
  sweep,      \* pruneUploads
  faults, moves,
  forgotten   \* history: the key went after its 180 days, or was not there to be done

vars == <<claim, try, lock, sent, objects, wrapped, doc, sweep, faults, moves, forgotten>>

\* How long ago a key was claimed: less than CLAIM_FRESH_MS, less than a day,
\* less than DONE_KEPT_DAYS, or more.
Fresh == 0
Stale == 1
DayOld == 2
Expired == 3

Temp(t) == <<"incoming", t>>
Kept(t) == <<"kept", t>>
Objects == {Temp(t) : t \in Tries} \union {Kept(t) : t \in Tries}

NoOne  == "none"
NoClaim == [state |-> "none", nonce |-> NoTry, age |-> Fresh]
Claims == [state : {"none", "pending", "done"}, nonce : Tries \union {NoTry}, age : Fresh..Expired]
Stages == {"new", "taking", "streaming", "stored", "committing", "placed", "waiting",
           "cleaning", "releasing", "answered", "failed", "dead"}
TryRecords == [at : Stages, scope : Scopes, leftover : Tries \union {NoTry}, moved : BOOLEAN]

\* The claim it read and, a history, whether that try was running after all.
NoSweep == [at |-> "idle", saw |-> NoTry, alive |-> FALSE]
Sweeps  == [at : {"idle", "read", "dropped"}, saw : Tries \union {NoTry}, alive : BOOLEAN]

Running(t) == try[t].at \notin {"new", "answered", "failed", "dead"}
Versions   == {t \in Tries : wrapped[t] # NoOne}
Mine(t)    == claim.state = "pending" /\ claim.nonce = t

Init ==
  /\ claim = NoClaim
  /\ doc \in Scopes
  /\ try = [t \in Tries |-> [at |-> "new", scope |-> doc, leftover |-> NoTry, moved |-> FALSE]]
  /\ lock = NoTry
  /\ sent = FALSE
  /\ objects = {}
  /\ wrapped = [t \in Tries |-> NoOne]
  /\ sweep = NoSweep
  /\ faults = 0
  /\ moves = 0
  /\ forgotten = FALSE

Goto(t, stage) == try' = [try EXCEPT ![t].at = stage]
Fault == faults < MaxFaults /\ faults' = faults + 1

-----------------------------------------------------------------------------
(* claim: the key is this try's, or it is answered, or it is on its way.   *)

\* A claim 15 minutes old is taken for one whose try died.
TakenOver == claim.state = "pending" /\ claim.age >= Stale

ClaimKey(t) ==
  /\ try[t].at = "new"
  /\ lock = NoTry
  /\ claim.state = "none" \/ TakenOver
  /\ claim' = [state |-> "pending", nonce |-> t, age |-> Fresh]
  /\ try' = [try EXCEPT ![t] =
               [at |-> IF TakenOver THEN "taking" ELSE "streaming", scope |-> doc,
                leftover |-> IF TakenOver THEN claim.nonce ELSE NoTry, moved |-> FALSE]]
  /\ UNCHANGED <<lock, sent, objects, wrapped, doc, sweep, faults, moves, forgotten>>

\* A key that is done is answered with what it made.
ReplayKey(t) ==
  /\ try[t].at = "new"
  /\ lock = NoTry
  /\ claim.state = "done"
  /\ Goto(t, "answered")
  /\ UNCHANGED <<claim, lock, sent, objects, wrapped, doc, sweep, faults, moves, forgotten>>

\* What the try taken over had on storage goes, if storage answers.
DropLeftover(t) ==
  /\ try[t].at = "taking"
  /\ \/ objects' = objects \ {Temp(try[t].leftover)} /\ UNCHANGED faults
     \/ Fault /\ UNCHANGED objects
  /\ Goto(t, "streaming")
  /\ UNCHANGED <<claim, lock, sent, wrapped, doc, sweep, moves, forgotten>>

-----------------------------------------------------------------------------
(* The bytes, encrypted for whom the document was for, to a temporary      *)
(* object.                                                                 *)

Stream(t) ==
  /\ try[t].at = "streaming"
  /\ \/ /\ objects' = objects \union {Temp(t)}
        /\ Goto(t, "stored")
        /\ UNCHANGED faults
     \/ /\ Fault
        /\ objects' \in {objects, objects \union {Temp(t)}}
        /\ Goto(t, "cleaning")
  /\ UNCHANGED <<claim, lock, sent, wrapped, doc, sweep, moves, forgotten>>

-----------------------------------------------------------------------------
(* The commit.                                                             *)

\* Fault: the claim is taken for this try's as it was.
StillMine_Believed(t) == claim.state # "done"
StillMine(t) == Mine(t)

\* The key the file was wrapped with is still the document's.
SameScope(t) == Capture \/ try[t].scope = doc

Check(t) ==
  /\ try[t].at = "stored"
  /\ lock = NoTry
  /\ IF StillMine(t) /\ SameScope(t)
     THEN lock' = t /\ Goto(t, "committing")
     ELSE Goto(t, "cleaning") /\ UNCHANGED lock
  /\ UNCHANGED <<claim, sent, objects, wrapped, doc, sweep, faults, moves, forgotten>>

\* moveObject: copied to where versions are kept, and the temporary one deleted.
Place(t) ==
  /\ try[t].at = "committing"
  /\ Temp(t) \in objects
  /\ objects' = (objects \ {Temp(t)}) \union {Kept(t)}
  /\ try' = [try EXCEPT ![t].at = "placed", ![t].moved = TRUE]
  /\ UNCHANGED <<claim, lock, sent, wrapped, doc, sweep, faults, moves, forgotten>>

\* The temporary object is gone, or storage fails before or after the copy.
PlaceFails(t) ==
  /\ try[t].at = "committing"
  /\ \/ Temp(t) \notin objects /\ UNCHANGED <<objects, faults>>
     \/ Fault /\ objects' \in {objects, objects \union {Kept(t)}}
  /\ try' = [try EXCEPT ![t].at = "cleaning", ![t].moved = TRUE]
  /\ lock' = NoTry
  /\ UNCHANGED <<claim, sent, wrapped, doc, sweep, moves, forgotten>>

\* The version and the key's row are written, the latter if it is there, and
\* COMMIT is on its way to the database.
SendCommit(t) ==
  /\ try[t].at = "placed"
  /\ sent' = TRUE
  /\ Goto(t, "waiting")
  /\ forgotten' = (forgotten \/ claim.state = "none")
  /\ UNCHANGED <<claim, lock, objects, wrapped, doc, sweep, faults, moves>>

\* It commits, or does not, whether or not anybody still waits for it.
DatabaseEnds ==
  /\ sent
  /\ \/ /\ wrapped' = [wrapped EXCEPT ![lock] = try[lock].scope]
        /\ claim' = IF claim.state = "none" THEN claim ELSE [claim EXCEPT !.state = "done"]
        /\ UNCHANGED faults
     \/ Fault /\ UNCHANGED <<wrapped, claim>>
  /\ lock' = NoTry
  /\ sent' = FALSE
  /\ UNCHANGED <<try, objects, doc, sweep, moves, forgotten>>

Learn(t) ==
  /\ try[t].at = "waiting"
  /\ \/ lock # t /\ Goto(t, IF wrapped[t] # NoOne THEN "answered" ELSE "cleaning")
        /\ UNCHANGED faults
     \/ Fault /\ Goto(t, "cleaning")
  /\ UNCHANGED <<claim, lock, sent, objects, wrapped, doc, sweep, moves, forgotten>>

-----------------------------------------------------------------------------
(* release: a failed try's temporary object, the object it may have moved, *)
(* and its claim.                                                          *)

CleanUp(t) ==
  /\ try[t].at = "cleaning"
  /\ \/ objects' = objects \ {Temp(t)} /\ UNCHANGED faults
     \/ Fault /\ UNCHANGED objects
  /\ Goto(t, "releasing")
  /\ UNCHANGED <<claim, lock, sent, wrapped, doc, sweep, moves, forgotten>>

\* Only if no version points at it.
Unused(t) == try[t].moved /\ wrapped[t] = NoOne
MovedInVain(t) == {o \in {Kept(t)} : Unused(t)}

Release(t) ==
  /\ try[t].at = "releasing"
  /\ lock = NoTry
  /\ \/ objects' = objects \ MovedInVain(t) /\ UNCHANGED faults
     \/ Fault /\ UNCHANGED objects
  /\ claim' = IF Mine(t) THEN NoClaim ELSE claim
  /\ Goto(t, "failed")
  /\ UNCHANGED <<lock, sent, wrapped, doc, sweep, moves, forgotten>>

\* The database does not answer, at first or for its commit: the claim stays.
ReleaseFails(t) ==
  /\ try[t].at = "releasing"
  /\ Fault
  /\ \/ UNCHANGED objects
     \/ lock = NoTry /\ objects' = objects \ MovedInVain(t)
  /\ Goto(t, "failed")
  /\ UNCHANGED <<claim, lock, sent, wrapped, doc, sweep, moves, forgotten>>

\* The process dies, or its host.  Its transaction goes with it, unless COMMIT
\* was on its way.
Crash(t) ==
  /\ Running(t)
  /\ Fault
  /\ Goto(t, "dead")
  /\ lock' = IF lock = t /\ ~sent THEN NoTry ELSE lock
  /\ UNCHANGED <<claim, sent, objects, wrapped, doc, sweep, moves, forgotten>>

-----------------------------------------------------------------------------
(* pruneUploads, nightly, without the lock on the key.                     *)

\* The row is written by the commit under way.
RowFree == ~(sent /\ claim.state # "none")

PruneDone ==
  /\ claim.state = "done"
  /\ claim.age = Expired
  /\ claim' = NoClaim
  /\ forgotten' = TRUE
  /\ UNCHANGED <<try, lock, sent, objects, wrapped, doc, sweep, faults, moves>>

SweepRead ==
  /\ sweep.at = "idle"
  /\ claim.state = "pending"
  /\ claim.age >= DayOld
  /\ sweep' = [at |-> "read", saw |-> claim.nonce, alive |-> FALSE]
  /\ UNCHANGED <<claim, try, lock, sent, objects, wrapped, doc, faults, moves, forgotten>>

\* Fault: the claim goes though its object could not be deleted.
AfterDrop_Anyway(dropped) == "dropped"
\* Fault: the answer of deleteObject is read the wrong way round.
AfterDrop_Inverted(dropped) == IF dropped THEN "idle" ELSE "dropped"
\* A storage that cannot be reached keeps the claim with the object.
AfterDrop(dropped) == IF dropped THEN "dropped" ELSE "idle"

SweepDrop ==
  /\ sweep.at = "read"
  /\ \/ /\ objects' = objects \ {Temp(sweep.saw)}
        /\ sweep' = [sweep EXCEPT !.at = AfterDrop(TRUE), !.alive = Running(sweep.saw)]
        /\ UNCHANGED faults
     \/ /\ Fault
        /\ sweep' = [sweep EXCEPT !.at = AfterDrop(FALSE)]
        /\ UNCHANGED objects
  /\ UNCHANGED <<claim, try, lock, sent, wrapped, doc, moves, forgotten>>

\* Fault: the key alone is named, not what was read of it.
Prunable_ByKey == claim.state # "none"
\* Still pending, and claimed a day before the sweep began: nobody has claimed
\* the key since it was read.
Prunable == Mine(sweep.saw)

SweepDelete ==
  /\ sweep.at = "dropped"
  /\ RowFree
  /\ claim' = IF Prunable THEN NoClaim ELSE claim
  /\ sweep' = NoSweep
  /\ UNCHANGED <<try, lock, sent, objects, wrapped, doc, faults, moves, forgotten>>

-----------------------------------------------------------------------------

\* VisibilityService.change, under the document's row, which the commit of a
\* new version holds too: every version's key is wrapped anew.
ChangeVisibility ==
  /\ ~Capture
  /\ moves < MaxMoves
  /\ lock = NoTry
  /\ \E s \in Scopes \ {doc} :
       /\ doc' = s
       /\ wrapped' = [t \in Tries |-> IF wrapped[t] = NoOne THEN NoOne ELSE s]
  /\ moves' = moves + 1
  /\ UNCHANGED <<claim, try, lock, sent, objects, sweep, faults, forgotten>>

Tick ==
  /\ claim.state # "none"
  /\ claim.age < Expired
  /\ claim' = [claim EXCEPT !.age = @ + 1]
  /\ UNCHANGED <<try, lock, sent, objects, wrapped, doc, sweep, faults, moves, forgotten>>

TryStep(t) ==
  \/ ClaimKey(t)
  \/ ReplayKey(t)
  \/ DropLeftover(t)
  \/ Stream(t)
  \/ Check(t)
  \/ Place(t)
  \/ PlaceFails(t)
  \/ SendCommit(t)
  \/ Learn(t)
  \/ CleanUp(t)
  \/ Release(t)
  \/ ReleaseFails(t)
  \/ Crash(t)

Sweep == SweepRead \/ SweepDrop \/ SweepDelete

Next ==
  \/ \E t \in Tries : TryStep(t)
  \/ DatabaseEnds
  \/ PruneDone
  \/ Sweep
  \/ ChangeVisibility
  \/ Tick

Spec == Init /\ [][Next]_vars

\* Time passes, the database ends what it was sent, and the sweep runs nightly.
Nightly == WF_vars(Tick) /\ WF_vars(DatabaseEnds) /\ WF_vars(Sweep)
FairSpec == Spec /\ Nightly

-----------------------------------------------------------------------------
(* Properties.                                                             *)

\* Every variable has its type.
TypeOK ==
  /\ claim \in Claims
  /\ try \in [Tries -> TryRecords]
  /\ lock \in Tries \union {NoTry}
  /\ sent \in BOOLEAN
  /\ objects \subseteq Objects
  /\ wrapped \in [Tries -> Scopes \union {NoOne}]
  /\ doc \in Scopes
  /\ sweep \in Sweeps
  /\ faults \in 0..MaxFaults
  /\ moves \in 0..MaxMoves
  /\ forgotten \in BOOLEAN

\* A version's object is on storage, whoever thought its try had failed: the
\* try itself when the commit's answer was lost, a try that took the key over,
\* the sweep (release, "only if no version points at it").
VersionHasObject == \A t \in Versions : Kept(t) \in objects

\* However often the file is sent, and whichever tries were taken for dead and
\* were not, it is filed once, as long as the key is remembered (accept).
OneFileOneVersion == ~forgotten => Cardinality(Versions) <= 1

\* Every version is wrapped for the people the document is for, though it was
\* made Only me, or shown to others, while the file came (commitFiling).
WrappedForItsReaders == ~Capture => \A t \in Versions : wrapped[t] = doc

\* The sweep lets a claim go only when its object is gone, so that it is never
\* forgotten, unless the try it took for dead was still running (pruneUploads).
SweepForgetsNothing ==
  [][SweepDelete /\ claim.state = "pending" /\ claim'.state = "none" =>
       Temp(claim.nonce) \notin objects \/ sweep.alive]_vars

\* The inductive invariant behind the three.  Whoever holds the lock is about
\* to place its object or to commit, or has sent its COMMIT, with the object in
\* place and wrapped for the document's readers.  The claim is the lock holder's
\* or was swept; and while the key is remembered, a version is the one the key
\* names as done, and a commit under way finds its claim.
LockHeld ==
  /\ \A t \in Tries : try[t].at \in {"committing", "placed"} => lock = t /\ ~sent
  /\ lock # NoTry /\ ~sent => try[lock].at \in {"committing", "placed"}
  /\ sent => lock # NoTry
CommitSound ==
  /\ \A t \in Tries : try[t].at = "placed" => Kept(t) \in objects
  /\ sent => Kept(lock) \in objects /\ try[lock].at # "new"
  /\ lock # NoTry => SameScope(lock)
KeyRemembers ==
  /\ lock # NoTry => claim.state = "none" \/ Mine(lock)
  /\ ~forgotten => /\ \A t \in Versions : claim.state = "done" /\ claim.nonce = t
                   /\ sent => claim.state # "none"
UploadsInv ==
  /\ TypeOK
  /\ LockHeld
  /\ CommitSound
  /\ KeyRemembers
  /\ VersionHasObject
  /\ WrappedForItsReaders

\* The claim of a try that died does not keep the key for ever: it is taken
\* over or swept (pruneUploads).
DeadClaim == claim.state = "pending" /\ try[claim.nonce].at \in {"dead", "failed"}
DeadClaimEnds == DeadClaim ~> ~DeadClaim
=============================================================================
