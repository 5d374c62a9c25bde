------------------------------ MODULE Arrivals ------------------------------
(***************************************************************************)
(* Files on their way into one batch: sent by a browser                    *)
(* (apps/api/src/uploads/batches.ts, addItem) and found in the scanner     *)
(* folder by a worker (apps/worker/src/jobs/watch-folder.ts and            *)
(* intake-ingest.ts), while the person decides about what has arrived,     *)
(* removes the batch, or lets it end.                                      *)
(*                                                                         *)
(* A file in is two transactions with its bytes in between: its row, on    *)
(* its way, holds its place in the batch; then its object is written; then *)
(* the row says it has arrived.  The second commit's answer may be lost.   *)
(***************************************************************************)
EXTENDS Integers, FiniteSets

CONSTANTS
  Sends,       \* a browser's tries, each with its item's row and object
  Rounds,      \* the scanner folder's tries, likewise
  Keys,        \* the browser's files, by Idempotency-Key
  Scan,        \* the file in the scanner folder
  Room,        \* BATCH_MAX_FILES
  MaxFaults    \* bound: failures of storage or the database, processes that stop

Tries == Sends \union Rounds

ASSUME ArrivalsAssumption ==
  /\ IsFiniteSet(Sends) /\ IsFiniteSet(Rounds)
  /\ Sends \intersect Rounds = {}
  /\ Scan \notin Keys
  /\ Room \in Nat \ {0}
  /\ MaxFaults \in Nat

VARIABLES
  of,        \* the file each try is for
  at,        \* where each try is
  row,       \* incoming_file: each try's item
  batch,     \* intake_batch; "removing" between remove's two transactions
  objects,   \* the items' bytes on storage
  owed,      \* purge_leftover
  folder,    \* whether the scanned file is in the folder
  pending,   \* arrivals whose COMMIT was sent and not answered
  faults,
  unsure,    \* history: items whose arrival's answer, or whose clearing's, was lost
  decided,   \* history: whether the person decided about the scan, or let it end
  astray     \* history: objects storage did not delete, or whose writer stopped
             \* when nothing named them any longer

vars == <<of, at, row, batch, objects, owed, folder, pending, faults,
          unsure, decided, astray>>

States == {"none", "uploading", "received", "accepted", "rejected"}
Stages == {"idle", "hashed", "cleared", "placed", "stored", "arrived",
           "discarding", "unplacing", "over"}
Rows ==
  [state : States,
   stale : BOOLEAN,     \* created_at more than UPLOAD_FRESH_MS ago
   keyed : BOOLEAN,     \* idempotency_key
   emptied : BOOLEAN]   \* object_removed_at
NoRow == [state |-> "none", stale |-> FALSE, keyed |-> FALSE, emptied |-> FALSE]
OnItsWay == [NoRow EXCEPT !.state = "uploading", !.keyed = TRUE]
BatchStates == {"open", "ended", "removing", "gone"}

Init ==
  /\ of \in [Tries -> Keys \union {Scan}]
  /\ \A t \in Tries : of[t] = Scan <=> t \in Rounds
  /\ at = [t \in Tries |-> "idle"]
  /\ row = [t \in Tries |-> NoRow]
  /\ batch = "open"
  /\ objects = {}
  /\ owed = {}
  /\ folder = TRUE
  /\ pending = {}
  /\ faults = 0
  /\ unsure = {}
  /\ decided = FALSE
  /\ astray = {}

Fault == faults < MaxFaults /\ faults' = faults + 1
Goto(t, stage) == at' = [at EXCEPT ![t] = stage]

In(states) == {t \in Tries : row[t].state \in states}
Undecided  == In({"uploading", "received"})
\* The rows a statement deletes or changes; one an arrival holds is waited for.
Free(rows) == rows \intersect pending = {}
Without(rows) == [t \in Tries |-> IF t \in rows THEN NoRow ELSE row[t]]

\* What a row or a leftover names.
Named(t) ==
  \/ row[t].state \in {"uploading", "received"}
  \/ row[t].state \in {"accepted", "rejected"} /\ ~row[t].emptied
  \/ t \in owed

\* Rows an account deletes, or that go with their batch, leave the objects
\* that may still be there (incoming_file_leaves_bytes).
\* Fault: only a decided item's.
Leaves_Decided(rows) ==
  rows \intersect {t \in Tries : row[t].state \in {"accepted", "rejected"} /\ ~row[t].emptied}
Leaves(rows) == rows \intersect {t \in Tries : row[t].state # "none" /\ ~row[t].emptied}

\* The items that hold a place in the batch.
Fresh(t) == row[t].state = "uploading" /\ ~row[t].stale
Taken == In({"received", "accepted"}) \union {t \in Tries : Fresh(t)}
\* Fault: only what has arrived is counted.
Full_Arrived == Cardinality(In({"received", "accepted"})) >= Room
Full == Cardinality(Taken) >= Room

\* The item of the batch the file's key finds: one at most (incoming_file_batch_key_idx).
\* Fault: only one still on its way is found.
Prior_Uploading(t) == {q \in Tries : of[q] = of[t] /\ row[q].state = "uploading" /\ row[q].keyed}
Prior(t) == {q \in Tries : of[q] = of[t] /\ row[q].state # "none" /\ row[q].keyed}

-----------------------------------------------------------------------------
(* A browser sends a file, once or again.                                  *)

Dead(q) == row[q].state = "uploading" /\ row[q].stale

\* Its row made, the batch held; a try that died under its key goes, and its
\* object after, or with the leftovers.
Place(t) ==
  /\ t \in Sends /\ at[t] = "idle"
  /\ batch = "open"
  /\ \A q \in Prior(t) : Dead(q)
  /\ Free(Prior(t))
  /\ ~Full
  /\ row' = [Without(Prior(t)) EXCEPT ![t] = OnItsWay]
  /\ owed' = owed \union Leaves(Prior(t))
  /\ objects' \in {objects, objects \ Prior(t)}
  /\ Goto(t, "placed")
  /\ UNCHANGED <<of, batch, folder, pending, faults, unsure, decided, astray>>

\* Answered with the item it made, told it is decided or on its way, or that
\* the batch is full, over or gone.
Refuse(t) ==
  /\ t \in Sends /\ at[t] = "idle"
  /\ \/ batch # "open"
     \/ \E q \in Prior(t) : ~Dead(q)
     \/ Full
  /\ Goto(t, "over")
  /\ UNCHANGED <<of, row, batch, objects, owed, folder, pending, faults, unsure,
                 decided, astray>>

-----------------------------------------------------------------------------
(* A worker's round comes to the scanned file.                             *)

Busy == {t \in Rounds : at[t] \notin {"idle", "over"}}
\* Fault: one still on its way counts as stored.
StoredBefore_OnItsWay == \E q \in In({"uploading", "received", "accepted"}) : of[q] = Scan
\* Stored before, by its hash, waiting or accepted: the file only has to go.
StoredBefore == \E q \in In({"received", "accepted"}) : of[q] = Scan

\* One worker at a time, unless the connection its advisory lock is on goes.
Look(t) ==
  /\ t \in Rounds /\ at[t] = "idle"
  /\ folder
  /\ \/ Busy = {} /\ UNCHANGED faults
     \/ Busy # {} /\ Fault
  /\ Goto(t, IF StoredBefore THEN "arrived" ELSE "hashed")
  /\ UNCHANGED <<of, row, batch, objects, owed, folder, pending, unsure, decided, astray>>

\* clearStaleItem: one a worker left on its way, row and object; and one
\* removed since lets go of its key.  Its commit may fail once the object is gone.
Left == {q \in Rounds : row[q].state = "uploading" /\ row[q].keyed}
LetGo == [q \in Tries |->
            IF q \in Left THEN NoRow
            ELSE IF q \in Rounds /\ row[q].state = "rejected" THEN [row[q] EXCEPT !.keyed = FALSE]
            ELSE row[q]]

ClearStale(t) ==
  /\ at[t] = "hashed"
  /\ Free(Left)
  /\ \/ /\ row' = LetGo
        /\ Goto(t, "cleared")
        /\ \/ objects' = objects \ Left /\ UNCHANGED <<faults, astray>>
           \/ Fault /\ UNCHANGED objects /\ astray' = astray \union Left
        /\ UNCHANGED unsure
     \/ /\ Fault
        /\ Goto(t, "idle")
        /\ objects' = objects \ Left
        /\ unsure' = unsure \union Left
        /\ UNCHANGED <<row, astray>>
  /\ UNCHANGED <<of, batch, owed, folder, pending, decided>>

\* placeItem, in the day's batch.
PlaceScan(t) ==
  /\ at[t] = "cleared"
  /\ batch = "open"
  /\ Prior(t) = {}
  /\ ~Full
  /\ row' = [row EXCEPT ![t] = OnItsWay]
  /\ Goto(t, "placed")
  /\ UNCHANGED <<of, batch, objects, owed, folder, pending, faults, unsure, decided, astray>>

\* Paused, or tried again later: full, being removed, or added meanwhile.
Later(t) ==
  /\ at[t] = "cleared"
  /\ batch # "open" \/ Prior(t) # {} \/ Full
  /\ Goto(t, "idle")
  /\ UNCHANGED <<of, row, batch, objects, owed, folder, pending, faults, unsure,
                 decided, astray>>

\* Kept in processed/ or deleted; or it cannot be, and another round will.
RemoveFile(t) ==
  /\ at[t] = "arrived"
  /\ \/ folder' = FALSE /\ UNCHANGED faults
     \/ Fault /\ UNCHANGED folder
  /\ Goto(t, "over")
  /\ UNCHANGED <<of, row, batch, objects, owed, pending, unsure, decided, astray>>

-----------------------------------------------------------------------------
(* The bytes, and the arrival.                                             *)

\* Stored; or cut short, refused, changed as it was read, or not taken.
Put(t) ==
  /\ at[t] = "placed"
  /\ \/ objects' = objects \union {t} /\ Goto(t, "stored")
     \/ objects' \in {objects, objects \union {t}} /\ Goto(t, "discarding")
  /\ UNCHANGED <<of, row, batch, owed, folder, pending, faults, unsure, decided, astray>>

\* Its row may be gone: swept, taken for dead, or its batch removed.
Arrive(t) ==
  /\ at[t] = "stored"
  /\ \/ /\ row[t].state = "uploading"
        /\ row' = [row EXCEPT ![t].state = "received"]
        /\ Goto(t, IF t \in Rounds THEN "arrived" ELSE "over")
        /\ UNCHANGED <<pending, unsure, faults>>
     \/ /\ row[t].state = "uploading"
        /\ Fault
        /\ pending' = pending \union {t}
        /\ unsure' = unsure \union {t}
        /\ Goto(t, "discarding")
        /\ UNCHANGED row
     \/ /\ row[t].state # "uploading"
        /\ Goto(t, "discarding")
        /\ UNCHANGED <<row, pending, unsure, faults>>
  /\ UNCHANGED <<of, batch, objects, owed, folder, decided, astray>>

\* The database commits what it was sent, or does not.
DatabaseEnds(t) ==
  /\ t \in pending
  /\ pending' = pending \ {t}
  /\ row' \in {row, [row EXCEPT ![t].state = "received"]}
  /\ UNCHANGED <<of, at, batch, objects, owed, folder, faults, unsure, decided, astray>>

\* discard and discardItem: the object first, whatever storage says, and then
\* the row, if it is still on its way.  A browser's row leaves its object to
\* the leftovers; the vault's own does not (incoming_file_leaves_bytes).
Discard(t) ==
  /\ at[t] = "discarding"
  /\ \/ objects' = objects \ {t} /\ UNCHANGED <<faults, astray>>
     \/ Fault /\ UNCHANGED objects /\ astray' = astray \union {t}
  /\ Goto(t, "unplacing")
  /\ UNCHANGED <<of, row, batch, owed, folder, pending, unsure, decided>>

Unplace(t) ==
  /\ at[t] = "unplacing"
  /\ Free({t})
  /\ LET mine == {t} \intersect In({"uploading"})
     IN row' = Without(mine) /\ owed' = owed \union Leaves(mine \intersect Sends)
  /\ Goto(t, "over")
  /\ UNCHANGED <<of, batch, objects, folder, pending, faults, unsure, decided, astray>>

\* The process stops.
Stop(t) ==
  /\ at[t] \notin {"idle", "over"}
  /\ Fault
  /\ objects' \in IF at[t] = "placed" THEN {objects, objects \union {t}} ELSE {objects}
  /\ astray' = IF Named(t) THEN astray ELSE astray \union {t}
  /\ Goto(t, "over")
  /\ UNCHANGED <<of, row, batch, owed, folder, pending, unsure, decided>>

\* UPLOAD_FRESH_MS pass.
Age(t) ==
  /\ Fresh(t)
  /\ row' = [row EXCEPT ![t].stale = TRUE]
  /\ UNCHANGED <<of, at, batch, objects, owed, folder, pending, faults, unsure,
                 decided, astray>>

-----------------------------------------------------------------------------
(* What has arrived is decided; the batch is removed, or ends.             *)

Decide(t, as) ==
  /\ row[t].state = "received"
  /\ as = "accepted" => t \in objects
  /\ row' = [row EXCEPT ![t].state = as]
  /\ decided' = (decided \/ t \in Rounds)
  /\ UNCHANGED <<of, at, batch, objects, owed, folder, pending, faults, unsure, astray>>

\* Fault: what waits is emptied too.
Empty_Waiting(t) ==
  /\ row[t].state # "uploading" /\ row[t].state # "none" /\ ~row[t].emptied
  /\ objects' = objects \ {t}
  /\ row' = [row EXCEPT ![t].emptied = TRUE]
  /\ UNCHANGED <<of, at, batch, owed, folder, pending, faults, unsure, decided, astray>>
\* A decided item's object, by the call or by the daily sweep.
Empty(t) ==
  /\ row[t].state \in {"accepted", "rejected"} /\ ~row[t].emptied
  /\ objects' = objects \ {t}
  /\ row' = [row EXCEPT ![t].emptied = TRUE]
  /\ UNCHANGED <<of, at, batch, owed, folder, pending, faults, unsure, decided, astray>>

ScanWaits == \E t \in Rounds : row[t].state = "received"

\* undecidedOut: what is on its way stopped, what waits refused.
Out == [t \in Tries |->
          IF row[t].state = "uploading" THEN NoRow
          ELSE IF row[t].state = "received" THEN [row[t] EXCEPT !.state = "rejected"]
          ELSE row[t]]

\* remove, first: fenced, and what is undecided taken out.
RemoveFirst ==
  /\ batch \in {"open", "ended"}
  /\ Free(Undecided)
  /\ batch' = "removing"
  /\ row' = Out
  /\ owed' = owed \union Leaves(In({"uploading"}))
  /\ decided' = (decided \/ ScanWaits)
  /\ UNCHANGED <<of, at, objects, folder, pending, faults, unsure, astray>>

\* ... and last: whatever got in after all, and the batch.  What was decided
\* and is not emptied goes to the leftovers.
RemoveLast ==
  /\ batch = "removing"
  /\ Free(Undecided)
  /\ row' = Without(Tries)
  /\ batch' = "gone"
  /\ owed' = owed \union Leaves(Tries)
  /\ decided' = (decided \/ ScanWaits)
  /\ UNCHANGED <<of, at, objects, folder, pending, faults, unsure, astray>>

\* INCOMING_KEEP_DAYS pass.
Ends ==
  /\ batch = "open"
  /\ batch' = "ended"
  /\ UNCHANGED <<of, at, row, objects, owed, folder, pending, faults, unsure, decided, astray>>

\* sweepBatches: bytes first, then rows, then the batch, one whose removal
\* stopped half way too; or storage keeps some, or the commit fails.
SweepBatch ==
  /\ batch \in {"ended", "removing"}
  /\ Free(Undecided)
  /\ \E out \in SUBSET Undecided :
       /\ objects' = objects \ out
       /\ decided' = (decided \/ out \intersect Rounds # {})
       /\ \/ /\ out = Undecided
             /\ row' = Without(Tries)
             /\ owed' = owed \union Leaves(In({"accepted", "rejected"}))
             /\ batch' = "gone"
             /\ UNCHANGED faults
          \/ /\ Fault
             /\ row' \in {row, Without(out)}
             /\ UNCHANGED <<owed, batch>>
  /\ UNCHANGED <<of, at, folder, pending, unsure, astray>>

\* removeLeftovers (DocumentPurge has its steps).
SweepLeftover(t) ==
  /\ t \in owed
  /\ objects' = objects \ {t}
  /\ owed' = owed \ {t}
  /\ UNCHANGED <<of, at, row, batch, folder, pending, faults, unsure, decided, astray>>

-----------------------------------------------------------------------------

Next ==
  \/ \E t \in Tries :
       \/ Place(t) \/ Refuse(t)
       \/ Look(t) \/ ClearStale(t) \/ PlaceScan(t) \/ Later(t) \/ RemoveFile(t)
       \/ Put(t) \/ Arrive(t) \/ DatabaseEnds(t) \/ Discard(t) \/ Unplace(t) \/ Stop(t) \/ Age(t)
       \/ Decide(t, "accepted") \/ Decide(t, "rejected") \/ Empty(t)
       \/ SweepLeftover(t)
  \/ RemoveFirst \/ RemoveLast \/ Ends \/ SweepBatch

Spec == Init /\ [][Next]_vars

-----------------------------------------------------------------------------

ArrivalsTypeOK ==
  /\ of \in [Tries -> Keys \union {Scan}]
  /\ at \in [Tries -> Stages]
  /\ row \in [Tries -> Rows]
  /\ batch \in BatchStates
  /\ objects \subseteq Tries
  /\ owed \subseteq Tries
  /\ folder \in BOOLEAN
  /\ pending \subseteq Tries
  /\ faults \in 0..MaxFaults
  /\ unsure \subseteq Tries
  /\ decided \in BOOLEAN
  /\ astray \subseteq Tries

\* However many files come at once, from a browser and from the scanner, those
\* in the batch and on their way are never more than it holds; only one that
\* took longer than its place is kept for may be one too many (addItem, taken).
PlacesKept == Cardinality({t \in Taken : ~row[t].stale}) <= Room

\* A file is in the batch once, however often it is sent and whichever tries
\* were taken for dead and were not; one removed does not come back.
SentOnce ==
  \A t, q \in In({"received", "accepted", "rejected"}) :
    of[t] = of[q] /\ t # q => of[t] = Scan /\ "rejected" \in {row[t].state, row[q].state}

\* A scanned file leaves its folder only for the Inbox: some item of it has
\* its bytes, or was decided about.
ScanKept ==
  folder \/ decided \/ \E t \in Rounds : row[t].state = "received" /\ t \in objects
ScanKeptIfSure ==
  ScanKept \/ \E t \in Rounds : t \in unsure

\* Whoever wrote the object has yet to ask whether it is wanted.
Writing(t) == at[t] \in {"stored", "discarding"}

\* No file's bytes stay behind where nothing will remove them: every object is
\* named by a row or a leftover, or its writer is about to ask whether it is
\* wanted, unless storage refused or that writer stopped.
NothingLeft == \A t \in objects : Named(t) \/ Writing(t) \/ t \in astray

-----------------------------------------------------------------------------
(* What every step keeps.                                                  *)

\* A try has no item before it is placed, and one at most.
NotYetPlaced ==
  \A t \in Tries : at[t] \in {"idle", "hashed", "cleared"} => row[t] = NoRow /\ t \notin owed
OwedAreGone == \A t \in Tries : t \in owed => row[t].state = "none"

\* A try deletes its object only where its item did not arrive, but for what
\* the database did not say.
TriesKnow ==
  \A t \in Tries :
    /\ at[t] \in {"placed", "stored"} => row[t].state \in {"none", "uploading"}
    /\ at[t] = "discarding" => row[t].state \in {"none", "uploading"} \/ t \in unsure
    /\ at[t] = "unplacing" /\ t \in objects => t \in astray
    /\ t \in pending =>
         row[t].state = "uploading" /\ t \in unsure /\ at[t] \in {"discarding", "unplacing", "over"}

\* What waits can be opened, until its batch is over: nothing that clears up
\* after a try takes the bytes of one that arrives, unless an answer was lost.
HasBytes(t) ==
  t \in objects \/ t \in unsure \/ (batch # "open" /\ (t \in Rounds => decided))
ArrivesWithBytes ==
  \A t \in Tries :
    row[t].state = "received" \/ (at[t] = "stored" /\ row[t].state = "uploading") => HasBytes(t)

\* A key is one item's; only what was removed lets go of it.
KeysHeld ==
  /\ \A t, q \in Tries :
       row[t].state # "none" /\ row[q].state # "none" /\ row[t].keyed /\ row[q].keyed /\ of[t] = of[q]
         => t = q
  /\ \A t \in Tries :
       row[t].state # "none" /\ ~row[t].keyed => t \in Rounds /\ row[t].state = "rejected"
  /\ \A t \in Tries : of[t] = Scan <=> t \in Rounds

DecidedRows ==
  \A t \in Tries :
    /\ row[t].state \in {"accepted", "rejected"} /\ t \in Rounds => decided
    /\ row[t].emptied => row[t].state \in {"accepted", "rejected"}

ScanIsIn ==
  decided \/ \E t \in Rounds : t \in unsure \/ (row[t].state = "received" /\ t \in objects)
FolderFollows == ~folder \/ (\E t \in Tries : at[t] = "arrived") => ScanIsIn

ArrivalsInv ==
  /\ ArrivalsTypeOK
  /\ NotYetPlaced /\ OwedAreGone /\ TriesKnow /\ ArrivesWithBytes
  /\ KeysHeld /\ DecidedRows /\ FolderFollows

=============================================================================
