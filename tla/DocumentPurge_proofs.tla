------------------------- MODULE DocumentPurge_proofs -------------------------
(***************************************************************************)
(* Proofs about DocumentPurge.  PurgeInv is inductive: each of its parts   *)
(* is shown kept by the steps that touch what it speaks of.  The notice,   *)
(* the files of the versions that are there and the objects of those that  *)
(* are not follow from it.                                                 *)
(***************************************************************************)
EXTENDS DocumentPurge, TLAPS

Sweepers == {"api", "worker"}

LEMMA DrawingsAreObjects == \A d \in Drawings : d \in Objects /\ d # Temp /\ \A v \in Versions : d # File(v)
BY PurgeAssumption DEF Objects, Kinds, Versions, Temp, File

LEMMA StageNames ==
  /\ {"none", "streaming", "stored", "failing", "done", "failed", "stopped"} \subseteq Uploads
  /\ {"never", "idle", "drawing", "drawn", "failing"} \subseteq Stages
BY DEF Uploads, Stages

\* Every row, sweep, call and job stays of its kind.
LEMMA TypeInit == Init => PurgeTypeOK
<1> SUFFICES ASSUME Init PROVE PurgeTypeOK
  OBVIOUS
<1>1. db \in Rows
  BY DEF Init, Rows, Notice, Versions
<1>2. File(First) \in Objects
  BY DEF File, Objects, Versions
<1>3. NoSweep \in Sweeps
  BY DEF NoSweep, Sweeps
<1>4. faults \in Nat /\ restores \in Nat /\ drawing \in [Drawings -> Stages]
  <2> PICK b \in Bounds : /\ faults = b.faults /\ restores = b.restores
                          /\ drawing = [d \in Drawings |-> IF d \in b.drawings THEN "idle" ELSE "never"]
    BY DEF Init
  <2> QED
    BY StageNames, PurgeAssumption
<1> QED
  BY <1>1, <1>2, <1>3, <1>4, StageNames DEF Init, PurgeTypeOK, Notice

LEMMA TypeRows ==
  ASSUME PurgeTypeOK,
         SoftDelete \/ Restore \/ FilerLeaves \/ DayPasses \/ Claim \/ RecheckFiles \/ PruneClaim
           \/ (\E o \in Owners : HandOver(o) \/ LookAgain(o) \/ Ask(o) \/ Refuse(o))
  PROVE  PurgeTypeOK'
<1> USE PurgeAssumption
<1>1. CASE SoftDelete
  <2>1. db' \in Rows  BY <1>1 DEF PurgeTypeOK, Rows, SoftDelete
  <2> QED  BY <1>1, <2>1 DEF PurgeTypeOK, SoftDelete
<1>2. CASE Restore
  <2>1. db' \in Rows  BY <1>2 DEF PurgeTypeOK, Rows, Notice, Restore, BroughtBack
  <2> QED  BY <1>2, <2>1 DEF PurgeTypeOK, Notice, Restore
<1>3. CASE FilerLeaves
  <2>1. db' \in Rows  BY <1>3 DEF PurgeTypeOK, Rows, FilerLeaves
  <2> QED  BY <1>3, <2>1 DEF PurgeTypeOK, FilerLeaves
<1>4. CASE DayPasses
  <2>1. db' \in Rows  BY <1>4 DEF PurgeTypeOK, Rows, Notice, DayPasses
  <2> QED  BY <1>4, <2>1 DEF PurgeTypeOK, Notice, DayPasses
<1>5. CASE Claim
  <2>1. db' \in Rows  BY <1>5 DEF PurgeTypeOK, Rows, Claim
  <2> QED  BY <1>5, <2>1, StageNames DEF PurgeTypeOK, Claim
<1>6. CASE RecheckFiles
  <2>1. db' \in Rows  BY <1>6 DEF PurgeTypeOK, Rows, RecheckFiles
  <2> QED  BY <1>6, <2>1 DEF PurgeTypeOK, RecheckFiles
<1>7. CASE PruneClaim
  <2>1. db' \in Rows  BY <1>7 DEF PurgeTypeOK, Rows, PruneClaim
  <2> QED  BY <1>7, <2>1 DEF PurgeTypeOK, PruneClaim
<1>8. ASSUME NEW o \in Owners, HandOver(o) PROVE PurgeTypeOK'
  <2>1. db' \in Rows  BY <1>8 DEF PurgeTypeOK, Rows, HandOver
  <2> QED  BY <1>8, <2>1 DEF PurgeTypeOK, HandOver
<1>9. ASSUME NEW o \in Owners, LookAgain(o) PROVE PurgeTypeOK'
  <2>1. db' \in Rows  BY <1>9 DEF PurgeTypeOK, Rows, LookAgain
  <2>2. faults' \in Nat  BY <1>9 DEF PurgeTypeOK, LookAgain, Fault
  <2> QED  BY <1>9, <2>1, <2>2 DEF PurgeTypeOK, LookAgain
<1>10. ASSUME NEW o \in Owners, Ask(o) PROVE PurgeTypeOK'
  <2>1. db' \in Rows  BY <1>10 DEF PurgeTypeOK, Rows, Notice, Ask
  <2> QED  BY <1>10, <2>1 DEF PurgeTypeOK, Notice, Ask
<1>11. ASSUME NEW o \in Owners, Refuse(o) PROVE PurgeTypeOK'
  BY <1>11 DEF PurgeTypeOK, Refuse
<1> QED
  BY <1>1, <1>2, <1>3, <1>4, <1>5, <1>6, <1>7, <1>8, <1>9, <1>10, <1>11

LEMMA TypeRemoval ==
  ASSUME PurgeTypeOK, \E o \in Owners : Remove(o)
  PROVE  PurgeTypeOK'
<1> PICK o \in Owners : Remove(o)
  OBVIOUS
<1>1. OwnedObjects \subseteq Objects
  BY DEF OwnedObjects
<1>2. db' \in Rows
  BY <1>1 DEF PurgeTypeOK, Remove, Rows, Notice
<1>3. sweep' \in [{"api", "worker"} -> Sweeps]
  BY DEF PurgeTypeOK, Remove, Sweeps, NoSweep
<1> QED
  BY <1>2, <1>3 DEF PurgeTypeOK, Remove

LEMMA TypeSweeps ==
  ASSUME PurgeTypeOK,
         SweepNothing \/ \E s \in Sweepers : SweepRead(s) \/ SweepDelete(s) \/ SweepForget(s) \/ SweepStops(s)
  PROVE  PurgeTypeOK'
<1> USE PurgeAssumption
<1>1. NoSweep \in Sweeps
  BY DEF NoSweep, Sweeps
<1>2. CASE SweepNothing
  BY <1>1, <1>2 DEF PurgeTypeOK, SweepNothing
<1>3. ASSUME NEW s \in Sweepers, SweepRead(s) PROVE PurgeTypeOK'
  <2>1. [at |-> "deleting", todo |-> db.leftovers, done |-> {}] \in Sweeps
    BY DEF PurgeTypeOK, Rows, Sweeps
  <2> QED
    BY <1>3, <2>1 DEF PurgeTypeOK, SweepRead, Sweepers
<1>4. ASSUME NEW s \in Sweepers, SweepDelete(s) PROVE PurgeTypeOK'
  <2>1. PICK k \in sweep[s].todo :
          \/ objects' = objects \ {k} /\ sweep' = [sweep EXCEPT ![s] = Deleted(s, k)] /\ UNCHANGED faults
          \/ Fault /\ sweep' = [sweep EXCEPT ![s].todo = {}] /\ UNCHANGED objects
    BY <1>4 DEF SweepDelete
  <2>2. sweep[s] \in Sweeps /\ k \in Objects
    BY DEF PurgeTypeOK, Sweeps, Sweepers
  <2>3. Deleted(s, k) \in Sweeps /\ [sweep[s] EXCEPT !.todo = {}] \in Sweeps
    BY <2>2 DEF Sweeps, Deleted
  <2>4. faults' \in Nat
    BY <2>1 DEF PurgeTypeOK, Fault
  <2>5. sweep' \in [{"api", "worker"} -> Sweeps]
    BY <2>1, <2>3 DEF PurgeTypeOK, Sweepers
  <2> QED
    BY <1>4, <2>1, <2>4, <2>5 DEF PurgeTypeOK, SweepDelete
<1>5. ASSUME NEW s \in Sweepers, SweepForget(s) PROVE PurgeTypeOK'
  <2>1. db' \in Rows
    BY <1>5 DEF PurgeTypeOK, SweepForget, Rows
  <2> QED
    BY <1>1, <1>5, <2>1 DEF PurgeTypeOK, SweepForget, Sweepers
<1>6. ASSUME NEW s \in Sweepers, SweepStops(s) PROVE PurgeTypeOK'
  <2>1. faults' \in Nat  BY <1>6 DEF PurgeTypeOK, SweepStops, Fault
  <2> QED  BY <1>1, <1>6, <2>1 DEF PurgeTypeOK, SweepStops, Sweepers
<1> QED
  BY <1>2, <1>3, <1>4, <1>5, <1>6

LEMMA TypeWriters ==
  ASSUME PurgeTypeOK,
         Stream \/ Commit \/ Release \/ UploadStops
           \/ \E d \in Drawings : StartDrawing(d) \/ Draw(d) \/ FinishDrawing(d) \/ DrawingStops(d)
  PROVE  PurgeTypeOK'
<1> USE PurgeAssumption
<1>1. Temp \in Objects /\ File(Second) \in Objects
  BY DEF Temp, File, Objects, Versions
<1>2. CASE Stream
  <2>1. faults' \in Nat  BY <1>2 DEF PurgeTypeOK, Stream, Fault
  <2> QED  BY <1>1, <1>2, <2>1, StageNames DEF PurgeTypeOK, Stream
<1>3. CASE Commit
  <2>1. db' \in Rows
    <3>1. CASE db' = [db EXCEPT !.versions = @ \union {Second}, !.claim = FALSE]
      BY <3>1 DEF PurgeTypeOK, Rows, Versions
    <3> QED
      BY <1>3, <3>1 DEF PurgeTypeOK, Commit
  <2> QED
    BY <1>1, <1>3, <2>1, StageNames DEF PurgeTypeOK, Commit
<1>4. CASE Release
  <2>1. db' \in Rows  BY <1>4 DEF PurgeTypeOK, Release, Rows
  <2>2. faults' \in Nat  BY <1>4 DEF PurgeTypeOK, Release, Fault
  <2> QED  BY <1>1, <1>4, <2>1, <2>2, StageNames DEF PurgeTypeOK, Release
<1>5. CASE UploadStops
  <2>1. faults' \in Nat  BY <1>5 DEF PurgeTypeOK, UploadStops, Fault
  <2> QED  BY <1>1, <1>5, <2>1, StageNames DEF PurgeTypeOK, UploadStops
<1>6. ASSUME NEW d \in Drawings, StartDrawing(d) \/ Draw(d) \/ FinishDrawing(d) \/ DrawingStops(d)
      PROVE  PurgeTypeOK'
  <2>1. faults' \in Nat
    BY <1>6 DEF PurgeTypeOK, StartDrawing, Draw, FinishDrawing, DrawingStops, Fault
  <2>2. drawing' \in [Drawings -> Stages]
    BY <1>6, StageNames DEF PurgeTypeOK, StartDrawing, Draw, FinishDrawing, DrawingStops, Goto
  <2>3. objects' \subseteq Objects /\ astray' \subseteq Objects
    BY <1>6, DrawingsAreObjects DEF PurgeTypeOK, StartDrawing, Draw, FinishDrawing, DrawingStops
  <2> QED
    BY <1>6, <2>1, <2>2, <2>3 DEF PurgeTypeOK, StartDrawing, Draw, FinishDrawing, DrawingStops
<1> QED
  BY <1>2, <1>3, <1>4, <1>5, <1>6

\* A restore: each version that was not marked is there, or marked now, or
\* could not be looked for.
LEMMA RestoreFacts ==
  ASSUME PurgeTypeOK, RestoreBackup
  PROVE  /\ backup.made /\ backup.rows \in Rows
         /\ restores' \in Nat /\ restores' # restores
         /\ overlooked' \subseteq backup.rows.versions
         /\ objects' = objects
         /\ \E gone \in SUBSET backup.rows.versions :
              /\ db' = [backup.rows EXCEPT !.asked = "no", !.marked = @ \union gone]
              /\ \A v \in backup.rows.versions \ backup.rows.marked :
                   File(v) \in objects \/ v \in gone \/ v \in overlooked'
<1> DEFINE old == backup.rows
           held == old.versions \ old.marked
<1>1. backup.made
  BY DEF RestoreBackup
<1>2. backup # NoBackup
  BY <1>1 DEF NoBackup
<1>3. backup.rows \in Rows
  BY <1>2 DEF PurgeTypeOK
<1>4. restores > 0 /\ restores' = restores - 1
  BY DEF RestoreBackup
<1>5. restores' \in Nat /\ restores' # restores
  BY <1>4 DEF PurgeTypeOK
<1>6. PICK reached \in SUBSET held, others \in BOOLEAN :
        /\ db' = [old EXCEPT !.asked = "no",
                             !.marked = @ \union ClearlyGone(held, Unchecked(held, reached, others))]
        /\ overlooked' = Missing(Unchecked(held, reached, others))
  BY DEF RestoreBackup
<1> DEFINE unchecked == Unchecked(held, reached, others)
           gone == ClearlyGone(held, unchecked)
<1>7. unchecked \subseteq held
  BY DEF Unchecked
<1>8. gone \subseteq old.versions
  BY DEF ClearlyGone, Missing
<1>9. overlooked' \subseteq old.versions
  BY <1>6, <1>7 DEF Missing
<1>10. \A v \in held : File(v) \in objects \/ v \in gone \/ v \in Missing(unchecked)
  BY DEF ClearlyGone, Missing, Present
<1>11. objects' = objects
  BY DEF RestoreBackup
<1> HIDE DEF unchecked, gone
<1> QED
  BY <1>1, <1>3, <1>5, <1>6, <1>8, <1>9, <1>10, <1>11 DEF unchecked, gone

LEMMA TypeBackups ==
  ASSUME PurgeTypeOK, TakeBackup \/ RestoreBackup \/ \E v \in Versions : PutBack(v)
  PROVE  PurgeTypeOK'
<1>1. CASE TakeBackup
  BY <1>1 DEF PurgeTypeOK, TakeBackup
<1>2. CASE RestoreBackup
  <2>1. backup.rows \in Rows /\ restores' \in Nat
    BY <1>2, RestoreFacts
  <2>2. db' \in Rows /\ overlooked' \subseteq Versions
    BY <1>2, <2>1, RestoreFacts DEF Rows, Notice
  <2>3. sweep' \in [{"api", "worker"} -> Sweeps]
    BY <1>2 DEF RestoreBackup, Sweeps, NoSweep
  <2>4. backup' = NoBackup \/ backup' = backup
    BY <1>2 DEF RestoreBackup
  <2>5. drawing' \in [Drawings -> Stages] /\ upload' \in Uploads /\ told' \in Notice
    BY <1>2, StageNames DEF PurgeTypeOK, RestoreBackup, Notice
  <2>6. call' \in [Owners -> {"idle", "looked"}] /\ astray' \subseteq Objects
    BY <1>2 DEF PurgeTypeOK, RestoreBackup
  <2> QED
    BY <1>2, <2>1, <2>2, <2>3, <2>4, <2>5, <2>6 DEF PurgeTypeOK, RestoreBackup
<1>3. ASSUME NEW v \in Versions, PutBack(v) PROVE PurgeTypeOK'
  <2>1. File(v) \in Objects
    BY DEF File, Objects
  <2> QED
    BY <1>3, <2>1 DEF PurgeTypeOK, PutBack
<1> QED
  BY <1>1, <1>2, <1>3
LEMMA TypeStep == PurgeTypeOK /\ [Next]_vars => PurgeTypeOK'
<1> SUFFICES ASSUME PurgeTypeOK, [Next]_vars PROVE PurgeTypeOK'
  OBVIOUS
<1>1. CASE UNCHANGED vars
  BY <1>1 DEF vars, PurgeTypeOK
<1> QED
  BY <1>1, TypeRows, TypeRemoval, TypeSweeps, TypeWriters, TypeBackups DEF Next, Sweepers

-----------------------------------------------------------------------------
(* The parts of PurgeInv, kept by each step.                               *)

SweepsFit ==
  \A s \in Sweepers : (sweep[s].at # "idle" => db.at = "gone") /\ (sweep[s].at = "idle" => sweep[s].done = {})
DoneFit ==
  \A s \in Sweepers, k \in objects : k \in sweep[s].done => k \in astray \/ Writing(k)
NoticeFits == db.at # "gone" => told = db.asked

LEMMA PurgeInvParts ==
  PurgeInv <=> /\ PurgeTypeOK /\ Fit(db) /\ (backup.made => Fit(backup.rows))
               /\ SweepsFit /\ DoneFit /\ NoticeFits /\ NoHalfDocument
BY DEF PurgeInv, SweepsFit, DoneFit, NoticeFits, Sweepers

LEMMA FitStep ==
  ASSUME PurgeInv, Next
  PROVE  Fit(db)' /\ (backup.made => Fit(backup.rows))'
<1>1. CASE SoftDelete
  BY <1>1 DEF PurgeInv, Fit, SoftDelete
<1>2. CASE Restore
  BY <1>2 DEF PurgeInv, Fit, Restore, BroughtBack
<1>3. CASE FilerLeaves
  BY <1>3 DEF PurgeInv, Fit, FilerLeaves
<1>4. CASE DayPasses
  BY <1>4 DEF PurgeInv, Fit, DayPasses
<1>5. CASE SweepNothing
  BY <1>5 DEF PurgeInv, Fit, SweepNothing
<1>6. CASE Claim
  BY <1>6 DEF PurgeInv, Fit, Claim
<1>7. CASE Stream
  BY <1>7 DEF PurgeInv, Fit, Stream
<1>8. CASE Commit
  <2>1. CASE db.at = "live" /\ db' = [db EXCEPT !.versions = @ \union {Second}, !.claim = FALSE]
    BY <1>8, <2>1 DEF PurgeInv, PurgeTypeOK, Rows, Fit, Commit
  <2> QED
    BY <1>8, <2>1 DEF PurgeInv, Fit, Commit, StillFilable
<1>9. CASE Release
  BY <1>9 DEF PurgeInv, Fit, Release
<1>10. CASE UploadStops
  BY <1>10 DEF PurgeInv, Fit, UploadStops
<1>11. CASE PruneClaim
  BY <1>11 DEF PurgeInv, Fit, PruneClaim
<1>12. CASE TakeBackup
  BY <1>12 DEF PurgeInv, Fit, TakeBackup
<1>13. CASE RestoreBackup
  <2>1. backup.made /\ backup.rows \in Rows /\ Fit(backup.rows)
    BY <1>13, RestoreFacts DEF PurgeInv
  <2>2. backup' = NoBackup \/ backup' = backup
    BY <1>13 DEF RestoreBackup
  <2>3. (backup.made => Fit(backup.rows))'
    BY <2>1, <2>2 DEF NoBackup, Fit
  <2>4. PICK gone \in SUBSET backup.rows.versions :
          db' = [backup.rows EXCEPT !.asked = "no", !.marked = @ \union gone]
    BY <1>13, RestoreFacts DEF PurgeInv
  <2>5. Fit(db)'
    BY <2>1, <2>4 DEF Rows, Fit
  <2> QED
    BY <2>3, <2>5
<1>14. CASE RecheckFiles
  BY <1>14 DEF PurgeInv, Fit, RecheckFiles
<1>15. ASSUME NEW o \in Owners, HandOver(o) PROVE Fit(db)' /\ (backup.made => Fit(backup.rows))'
  BY <1>15 DEF PurgeInv, Fit, HandOver
<1>16. ASSUME NEW o \in Owners, LookAgain(o) PROVE Fit(db)' /\ (backup.made => Fit(backup.rows))'
  BY <1>16 DEF PurgeInv, PurgeTypeOK, Rows, Fit, LookAgain
<1>17. ASSUME NEW o \in Owners, Ask(o) PROVE Fit(db)' /\ (backup.made => Fit(backup.rows))'
  BY <1>17 DEF PurgeInv, Fit, Ask
<1>18. ASSUME NEW o \in Owners, Refuse(o) PROVE Fit(db)' /\ (backup.made => Fit(backup.rows))'
  BY <1>18 DEF PurgeInv, Fit, Refuse
<1>19. ASSUME NEW o \in Owners, Remove(o) PROVE Fit(db)' /\ (backup.made => Fit(backup.rows))'
  BY <1>19 DEF PurgeInv, Fit, Remove
<1>20. ASSUME NEW s \in Sweepers, SweepRead(s) PROVE Fit(db)' /\ (backup.made => Fit(backup.rows))'
  BY <1>20 DEF PurgeInv, Fit, SweepRead
<1>21. ASSUME NEW s \in Sweepers, SweepDelete(s) PROVE Fit(db)' /\ (backup.made => Fit(backup.rows))'
  BY <1>21 DEF PurgeInv, Fit, SweepDelete
<1>22. ASSUME NEW s \in Sweepers, SweepForget(s) PROVE Fit(db)' /\ (backup.made => Fit(backup.rows))'
  BY <1>22 DEF PurgeInv, Fit, SweepForget
<1>23. ASSUME NEW s \in Sweepers, SweepStops(s) PROVE Fit(db)' /\ (backup.made => Fit(backup.rows))'
  BY <1>23 DEF PurgeInv, Fit, SweepStops
<1>24. ASSUME NEW d \in Drawings, StartDrawing(d) PROVE Fit(db)' /\ (backup.made => Fit(backup.rows))'
  BY <1>24 DEF PurgeInv, Fit, StartDrawing
<1>25. ASSUME NEW d \in Drawings, Draw(d) PROVE Fit(db)' /\ (backup.made => Fit(backup.rows))'
  BY <1>25 DEF PurgeInv, Fit, Draw
<1>26. ASSUME NEW d \in Drawings, FinishDrawing(d) PROVE Fit(db)' /\ (backup.made => Fit(backup.rows))'
  BY <1>26 DEF PurgeInv, Fit, FinishDrawing
<1>27. ASSUME NEW d \in Drawings, DrawingStops(d) PROVE Fit(db)' /\ (backup.made => Fit(backup.rows))'
  BY <1>27 DEF PurgeInv, Fit, DrawingStops
<1>28. ASSUME NEW v \in Versions, PutBack(v) PROVE Fit(db)' /\ (backup.made => Fit(backup.rows))'
  BY <1>28 DEF PurgeInv, Fit, PutBack
<1> QED
  BY <1>1, <1>2, <1>3, <1>4, <1>5, <1>6, <1>7, <1>8, <1>9, <1>10, <1>11, <1>12, <1>13, <1>14, <1>15, <1>16, <1>17, <1>18, <1>19, <1>20, <1>21, <1>22, <1>23, <1>24, <1>25, <1>26, <1>27, <1>28 DEF Next, Sweepers

LEMMA SweepsStep ==
  ASSUME PurgeInv, Next
  PROVE  SweepsFit'
<1> USE PurgeInvParts DEF SweepsFit, Sweepers, NoSweep
<1>1. CASE SoftDelete
  BY <1>1 DEF PurgeTypeOK, Fit, SoftDelete
<1>2. CASE Restore
  BY <1>2 DEF PurgeTypeOK, Fit, Restore, BroughtBack
<1>3. CASE FilerLeaves
  BY <1>3 DEF PurgeTypeOK, Fit, FilerLeaves
<1>4. CASE DayPasses
  BY <1>4 DEF PurgeTypeOK, Fit, DayPasses
<1>5. CASE SweepNothing
  BY <1>5 DEF PurgeTypeOK, Fit, SweepNothing
<1>6. CASE Claim
  BY <1>6 DEF PurgeTypeOK, Fit, Claim
<1>7. CASE Stream
  BY <1>7 DEF PurgeTypeOK, Fit, Stream
<1>8. CASE Commit
  BY <1>8 DEF PurgeTypeOK, Fit, Commit, StillFilable
<1>9. CASE Release
  BY <1>9 DEF PurgeTypeOK, Fit, Release
<1>10. CASE UploadStops
  BY <1>10 DEF PurgeTypeOK, Fit, UploadStops
<1>11. CASE PruneClaim
  BY <1>11 DEF PurgeTypeOK, Fit, PruneClaim
<1>12. CASE TakeBackup
  BY <1>12 DEF PurgeTypeOK, Fit, TakeBackup
<1>13. CASE RestoreBackup
  BY <1>13 DEF PurgeTypeOK, Fit, RestoreBackup
<1>14. CASE RecheckFiles
  BY <1>14 DEF PurgeTypeOK, Fit, RecheckFiles
<1>15. ASSUME NEW o \in Owners, HandOver(o) PROVE SweepsFit'
  BY <1>15 DEF PurgeTypeOK, Fit, HandOver
<1>16. ASSUME NEW o \in Owners, LookAgain(o) PROVE SweepsFit'
  BY <1>16 DEF PurgeTypeOK, Fit, LookAgain
<1>17. ASSUME NEW o \in Owners, Ask(o) PROVE SweepsFit'
  BY <1>17 DEF PurgeTypeOK, Fit, Ask
<1>18. ASSUME NEW o \in Owners, Refuse(o) PROVE SweepsFit'
  BY <1>18 DEF PurgeTypeOK, Fit, Refuse
<1>19. ASSUME NEW o \in Owners, Remove(o) PROVE SweepsFit'
  BY <1>19 DEF PurgeTypeOK, Fit, Remove
<1>20. ASSUME NEW s \in Sweepers, SweepRead(s) PROVE SweepsFit'
  BY <1>20 DEF PurgeTypeOK, Fit, SweepRead
<1>21. ASSUME NEW s \in Sweepers, SweepDelete(s) PROVE SweepsFit'
  <2>1. \A t \in Sweepers : sweep'[t].at = sweep[t].at
    <3>1. PICK k \in sweep[s].todo :
            \/ sweep' = [sweep EXCEPT ![s] = Deleted(s, k)]
            \/ sweep' = [sweep EXCEPT ![s].todo = {}]
      BY <1>21 DEF SweepDelete
    <3>2. \A t \in Sweepers : sweep[t] \in Sweeps
      BY DEF PurgeTypeOK
    <3> QED
      <4>1. CASE sweep' = [sweep EXCEPT ![s] = Deleted(s, k)]
        BY <3>2, <4>1 DEF PurgeTypeOK, Sweeps, Deleted
      <4>2. CASE sweep' = [sweep EXCEPT ![s].todo = {}]
        BY <3>2, <4>2 DEF PurgeTypeOK, Sweeps
      <4> QED
        BY <3>1, <4>1, <4>2
  <2>2. \A t \in Sweepers : sweep[t].at = "idle" => sweep'[t] = sweep[t]
    BY <1>21 DEF PurgeTypeOK, Sweeps, SweepDelete, Deleted
  <2> QED
    BY <1>21, <2>1, <2>2 DEF SweepDelete
<1>22. ASSUME NEW s \in Sweepers, SweepForget(s) PROVE SweepsFit'
  BY <1>22 DEF PurgeTypeOK, Fit, SweepForget
<1>23. ASSUME NEW s \in Sweepers, SweepStops(s) PROVE SweepsFit'
  BY <1>23 DEF PurgeTypeOK, Fit, SweepStops
<1>24. ASSUME NEW d \in Drawings, StartDrawing(d) PROVE SweepsFit'
  BY <1>24 DEF PurgeTypeOK, Fit, StartDrawing
<1>25. ASSUME NEW d \in Drawings, Draw(d) PROVE SweepsFit'
  BY <1>25 DEF PurgeTypeOK, Fit, Draw
<1>26. ASSUME NEW d \in Drawings, FinishDrawing(d) PROVE SweepsFit'
  BY <1>26 DEF PurgeTypeOK, Fit, FinishDrawing
<1>27. ASSUME NEW d \in Drawings, DrawingStops(d) PROVE SweepsFit'
  BY <1>27 DEF PurgeTypeOK, Fit, DrawingStops
<1>28. ASSUME NEW v \in Versions, PutBack(v) PROVE SweepsFit'
  BY <1>28 DEF PurgeTypeOK, Fit, PutBack
<1> QED
  BY <1>1, <1>2, <1>3, <1>4, <1>5, <1>6, <1>7, <1>8, <1>9, <1>10, <1>11, <1>12, <1>13, <1>14, <1>15, <1>16, <1>17, <1>18, <1>19, <1>20, <1>21, <1>22, <1>23, <1>24, <1>25, <1>26, <1>27, <1>28 DEF Next, Sweepers

LEMMA NoticeStep ==
  ASSUME PurgeInv, Next
  PROVE  NoticeFits'
<1> USE PurgeInvParts DEF NoticeFits
<1>1. CASE SoftDelete
  BY <1>1 DEF PurgeTypeOK, Rows, Notice, SoftDelete
<1>2. CASE Restore
  BY <1>2 DEF PurgeTypeOK, Rows, Notice, Restore, BroughtBack
<1>3. CASE FilerLeaves
  BY <1>3 DEF PurgeTypeOK, Rows, Notice, FilerLeaves
<1>4. CASE DayPasses
  BY <1>4 DEF PurgeTypeOK, Rows, Notice, DayPasses
<1>5. CASE SweepNothing
  BY <1>5 DEF PurgeTypeOK, Rows, Notice, SweepNothing
<1>6. CASE Claim
  BY <1>6 DEF PurgeTypeOK, Rows, Notice, Claim
<1>7. CASE Stream
  BY <1>7 DEF PurgeTypeOK, Rows, Notice, Stream
<1>8. CASE Commit
  BY <1>8 DEF PurgeTypeOK, Rows, Notice, Commit
<1>9. CASE Release
  BY <1>9 DEF PurgeTypeOK, Rows, Notice, Release
<1>10. CASE UploadStops
  BY <1>10 DEF PurgeTypeOK, Rows, Notice, UploadStops
<1>11. CASE PruneClaim
  BY <1>11 DEF PurgeTypeOK, Rows, Notice, PruneClaim
<1>12. CASE TakeBackup
  BY <1>12 DEF PurgeTypeOK, Rows, Notice, TakeBackup
<1>13. CASE RestoreBackup
  BY <1>13 DEF PurgeTypeOK, Rows, Notice, RestoreBackup
<1>14. CASE RecheckFiles
  BY <1>14 DEF PurgeTypeOK, Rows, Notice, RecheckFiles
<1>15. ASSUME NEW o \in Owners, HandOver(o) PROVE NoticeFits'
  BY <1>15 DEF PurgeTypeOK, Rows, Notice, HandOver
<1>16. ASSUME NEW o \in Owners, LookAgain(o) PROVE NoticeFits'
  BY <1>16 DEF PurgeTypeOK, Rows, Notice, LookAgain
<1>17. ASSUME NEW o \in Owners, Ask(o) PROVE NoticeFits'
  BY <1>17 DEF PurgeTypeOK, Rows, Notice, Ask
<1>18. ASSUME NEW o \in Owners, Refuse(o) PROVE NoticeFits'
  BY <1>18 DEF PurgeTypeOK, Rows, Notice, Refuse
<1>19. ASSUME NEW o \in Owners, Remove(o) PROVE NoticeFits'
  BY <1>19 DEF PurgeTypeOK, Rows, Notice, Remove
<1>20. ASSUME NEW s \in Sweepers, SweepRead(s) PROVE NoticeFits'
  BY <1>20 DEF PurgeTypeOK, Rows, Notice, SweepRead
<1>21. ASSUME NEW s \in Sweepers, SweepDelete(s) PROVE NoticeFits'
  BY <1>21 DEF PurgeTypeOK, Rows, Notice, SweepDelete
<1>22. ASSUME NEW s \in Sweepers, SweepForget(s) PROVE NoticeFits'
  BY <1>22 DEF PurgeTypeOK, Rows, Notice, SweepForget
<1>23. ASSUME NEW s \in Sweepers, SweepStops(s) PROVE NoticeFits'
  BY <1>23 DEF PurgeTypeOK, Rows, Notice, SweepStops
<1>24. ASSUME NEW d \in Drawings, StartDrawing(d) PROVE NoticeFits'
  BY <1>24 DEF PurgeTypeOK, Rows, Notice, StartDrawing
<1>25. ASSUME NEW d \in Drawings, Draw(d) PROVE NoticeFits'
  BY <1>25 DEF PurgeTypeOK, Rows, Notice, Draw
<1>26. ASSUME NEW d \in Drawings, FinishDrawing(d) PROVE NoticeFits'
  BY <1>26 DEF PurgeTypeOK, Rows, Notice, FinishDrawing
<1>27. ASSUME NEW d \in Drawings, DrawingStops(d) PROVE NoticeFits'
  BY <1>27 DEF PurgeTypeOK, Rows, Notice, DrawingStops
<1>28. ASSUME NEW v \in Versions, PutBack(v) PROVE NoticeFits'
  BY <1>28 DEF PurgeTypeOK, Rows, Notice, PutBack
<1> QED
  BY <1>1, <1>2, <1>3, <1>4, <1>5, <1>6, <1>7, <1>8, <1>9, <1>10, <1>11, <1>12, <1>13, <1>14, <1>15, <1>16, <1>17, <1>18, <1>19, <1>20, <1>21, <1>22, <1>23, <1>24, <1>25, <1>26, <1>27, <1>28 DEF Next, Sweepers

LEMMA HalfStep ==
  ASSUME PurgeInv, Next
  PROVE  NoHalfDocument'
<1> USE PurgeInvParts, DrawingsAreObjects DEF NoHalfDocument, File, Temp
<1>1. CASE SoftDelete
  BY <1>1 DEF PurgeTypeOK, Rows, Fit, SoftDelete
<1>2. CASE Restore
  BY <1>2 DEF PurgeTypeOK, Rows, Fit, Restore, BroughtBack
<1>3. CASE FilerLeaves
  BY <1>3 DEF PurgeTypeOK, Rows, Fit, FilerLeaves
<1>4. CASE DayPasses
  BY <1>4 DEF PurgeTypeOK, Rows, Fit, DayPasses
<1>5. CASE SweepNothing
  BY <1>5 DEF PurgeTypeOK, Rows, Fit, SweepNothing
<1>6. CASE Claim
  BY <1>6 DEF PurgeTypeOK, Rows, Fit, Claim
<1>7. CASE Stream
  BY <1>7 DEF PurgeTypeOK, Rows, Fit, Stream
<1>8. CASE Commit
  <2>1. CASE /\ objects' = (objects \ {Temp}) \union {File(Second)}
              /\ db' = [db EXCEPT !.versions = @ \union {Second}, !.claim = FALSE]
    BY <1>8, <2>1 DEF PurgeTypeOK, Rows, Commit
  <2>2. CASE UNCHANGED <<db, objects>>
    BY <1>8, <2>2 DEF Commit
  <2> QED
    BY <1>8, <2>1, <2>2 DEF Commit
<1>9. CASE Release
  BY <1>9 DEF PurgeTypeOK, Rows, Fit, Release
<1>10. CASE UploadStops
  BY <1>10 DEF PurgeTypeOK, Rows, Fit, UploadStops
<1>11. CASE PruneClaim
  BY <1>11 DEF PurgeTypeOK, Rows, Fit, PruneClaim
<1>12. CASE TakeBackup
  BY <1>12 DEF PurgeTypeOK, Rows, Fit, TakeBackup
<1>13. CASE RestoreBackup
  <2>1. backup.rows \in Rows /\ objects' = objects
    BY <1>13, RestoreFacts
  <2>2. PICK gone \in SUBSET backup.rows.versions :
          /\ db' = [backup.rows EXCEPT !.asked = "no", !.marked = @ \union gone]
          /\ \A v \in backup.rows.versions \ backup.rows.marked :
               File(v) \in objects \/ v \in gone \/ v \in overlooked'
    BY <1>13, RestoreFacts
  <2>3. db'.versions = backup.rows.versions /\ db'.marked = backup.rows.marked \union gone
    BY <2>1, <2>2 DEF Rows
  <2> QED
    BY <2>1, <2>2, <2>3
<1>14. CASE RecheckFiles
  <2>1. PICK found \in SUBSET Present(db.marked) : db' = [db EXCEPT !.marked = @ \ found]
    BY <1>14 DEF RecheckFiles
  <2>2. db'.versions = db.versions /\ db'.marked = db.marked \ found
    BY <2>1 DEF PurgeTypeOK, Rows
  <2> QED
    BY <1>14, <2>1, <2>2 DEF RecheckFiles, Present
<1>15. ASSUME NEW o \in Owners, HandOver(o) PROVE NoHalfDocument'
  BY <1>15 DEF PurgeTypeOK, Rows, Fit, HandOver
<1>16. ASSUME NEW o \in Owners, LookAgain(o) PROVE NoHalfDocument'
  <2>1. PICK found \in SUBSET Present(db.marked) : db' = [db EXCEPT !.marked = @ \ found]
    BY <1>16 DEF LookAgain
  <2>2. db'.versions = db.versions /\ db'.marked = db.marked \ found
    BY <2>1 DEF PurgeTypeOK, Rows
  <2> QED
    BY <1>16, <2>1, <2>2 DEF LookAgain, Present
<1>17. ASSUME NEW o \in Owners, Ask(o) PROVE NoHalfDocument'
  BY <1>17 DEF PurgeTypeOK, Rows, Fit, Ask
<1>18. ASSUME NEW o \in Owners, Refuse(o) PROVE NoHalfDocument'
  BY <1>18 DEF PurgeTypeOK, Rows, Fit, Refuse
<1>19. ASSUME NEW o \in Owners, Remove(o) PROVE NoHalfDocument'
  BY <1>19 DEF PurgeTypeOK, Rows, Fit, Remove
<1>20. ASSUME NEW s \in Sweepers, SweepRead(s) PROVE NoHalfDocument'
  BY <1>20 DEF PurgeTypeOK, Rows, Fit, SweepRead
<1>21. ASSUME NEW s \in Sweepers, SweepDelete(s) PROVE NoHalfDocument'
  BY <1>21 DEF PurgeTypeOK, Rows, Fit, SweepDelete, SweepsFit
<1>22. ASSUME NEW s \in Sweepers, SweepForget(s) PROVE NoHalfDocument'
  BY <1>22 DEF PurgeTypeOK, Rows, Fit, SweepForget
<1>23. ASSUME NEW s \in Sweepers, SweepStops(s) PROVE NoHalfDocument'
  BY <1>23 DEF PurgeTypeOK, Rows, Fit, SweepStops
<1>24. ASSUME NEW d \in Drawings, StartDrawing(d) PROVE NoHalfDocument'
  BY <1>24 DEF PurgeTypeOK, Rows, Fit, StartDrawing
<1>25. ASSUME NEW d \in Drawings, Draw(d) PROVE NoHalfDocument'
  BY <1>25 DEF PurgeTypeOK, Rows, Fit, Draw
<1>26. ASSUME NEW d \in Drawings, FinishDrawing(d) PROVE NoHalfDocument'
  BY <1>26 DEF PurgeTypeOK, Rows, Fit, FinishDrawing
<1>27. ASSUME NEW d \in Drawings, DrawingStops(d) PROVE NoHalfDocument'
  BY <1>27 DEF PurgeTypeOK, Rows, Fit, DrawingStops
<1>28. ASSUME NEW v \in Versions, PutBack(v) PROVE NoHalfDocument'
  BY <1>28 DEF PurgeTypeOK, Rows, Fit, PutBack
<1> QED
  BY <1>1, <1>2, <1>3, <1>4, <1>5, <1>6, <1>7, <1>8, <1>9, <1>10, <1>11, <1>12, <1>13, <1>14, <1>15, <1>16, <1>17, <1>18, <1>19, <1>20, <1>21, <1>22, <1>23, <1>24, <1>25, <1>26, <1>27, <1>28 DEF Next, Sweepers

LEMMA DoneStep ==
  ASSUME PurgeInv, Next
  PROVE  DoneFit'
<1> USE PurgeInvParts, DrawingsAreObjects DEF DoneFit, Writing, SweepsFit, Fit, NoSweep
<1>1. CASE SoftDelete
  BY <1>1 DEF PurgeTypeOK, SoftDelete
<1>2. CASE Restore
  BY <1>2 DEF PurgeTypeOK, Restore
<1>3. CASE FilerLeaves
  BY <1>3 DEF PurgeTypeOK, FilerLeaves
<1>4. CASE DayPasses
  BY <1>4 DEF PurgeTypeOK, DayPasses
<1>5. CASE SweepNothing
  BY <1>5 DEF PurgeTypeOK, SweepNothing
<1>6. CASE Claim
  BY <1>6 DEF PurgeTypeOK, Claim
<1>7. CASE Stream
  BY <1>7 DEF PurgeTypeOK, Stream
<1>8. CASE Commit
  <2>1. CASE db.at = "live"
    <3>1. \A s \in Sweepers : sweep[s].done = {}
      BY <2>1
    <3> QED
      BY <1>8, <3>1 DEF Commit
  <2>2. CASE db.at # "live"
    BY <1>8, <2>2 DEF Commit, StillFilable
  <2> QED
    BY <2>1, <2>2
<1>9. CASE Release
  BY <1>9 DEF PurgeTypeOK, Release
<1>10. CASE UploadStops
  BY <1>10 DEF PurgeTypeOK, UploadStops
<1>11. CASE PruneClaim
  BY <1>11 DEF PurgeTypeOK, PruneClaim
<1>12. CASE TakeBackup
  BY <1>12 DEF PurgeTypeOK, TakeBackup
<1>13. CASE RestoreBackup
  <2>1. \A s \in Sweepers : sweep'[s].done = {}
    BY <1>13 DEF RestoreBackup, Sweepers
  <2> QED
    BY <2>1
<1>14. CASE RecheckFiles
  BY <1>14 DEF PurgeTypeOK, RecheckFiles
<1>15. ASSUME NEW o \in Owners, HandOver(o) PROVE DoneFit'
  BY <1>15 DEF PurgeTypeOK, HandOver
<1>16. ASSUME NEW o \in Owners, LookAgain(o) PROVE DoneFit'
  BY <1>16 DEF PurgeTypeOK, LookAgain
<1>17. ASSUME NEW o \in Owners, Ask(o) PROVE DoneFit'
  BY <1>17 DEF PurgeTypeOK, Ask
<1>18. ASSUME NEW o \in Owners, Refuse(o) PROVE DoneFit'
  BY <1>18 DEF PurgeTypeOK, Refuse
<1>19. ASSUME NEW o \in Owners, Remove(o) PROVE DoneFit'
  BY <1>19 DEF PurgeTypeOK, Remove
<1>20. ASSUME NEW s \in Sweepers, SweepRead(s) PROVE DoneFit'
  BY <1>20 DEF PurgeTypeOK, SweepRead
<1>21. ASSUME NEW s \in Sweepers, SweepDelete(s) PROVE DoneFit'
  <2>1. PICK k \in sweep[s].todo :
          \/ objects' = objects \ {k} /\ sweep' = [sweep EXCEPT ![s] = Deleted(s, k)]
          \/ objects' = objects /\ sweep' = [sweep EXCEPT ![s].todo = {}]
    BY <1>21 DEF SweepDelete
  <2>2. \A t \in Sweepers : sweep[t] \in Sweeps
    BY DEF PurgeTypeOK, Sweepers
  <2>3. \A t \in Sweepers : sweep'[t].done \subseteq sweep[t].done \union {k}
    <3>1. CASE sweep' = [sweep EXCEPT ![s] = Deleted(s, k)]
      BY <3>1, <2>2 DEF PurgeTypeOK, Sweeps, Deleted
    <3>2. CASE sweep' = [sweep EXCEPT ![s].todo = {}]
      BY <3>2, <2>2 DEF PurgeTypeOK, Sweeps
    <3> QED
      BY <2>1, <3>1, <3>2
  <2>4. k \in objects' => \A t \in Sweepers : sweep'[t].done = sweep[t].done
    BY <2>1, <2>2 DEF PurgeTypeOK, Sweeps, Sweepers
  <2> QED
    BY <1>21, <2>1, <2>3, <2>4 DEF SweepDelete
<1>22. ASSUME NEW s \in Sweepers, SweepForget(s) PROVE DoneFit'
  BY <1>22 DEF PurgeTypeOK, SweepForget
<1>23. ASSUME NEW s \in Sweepers, SweepStops(s) PROVE DoneFit'
  BY <1>23 DEF PurgeTypeOK, SweepStops
<1>24. ASSUME NEW d \in Drawings, StartDrawing(d) PROVE DoneFit'
  BY <1>24 DEF PurgeTypeOK, StartDrawing, Goto
<1>25. ASSUME NEW d \in Drawings, Draw(d) PROVE DoneFit'
  BY <1>25 DEF PurgeTypeOK, Draw, Goto
<1>26. ASSUME NEW d \in Drawings, FinishDrawing(d) PROVE DoneFit'
  BY <1>26 DEF PurgeTypeOK, FinishDrawing, Goto, There, Remembered, MustTakeBack
<1>27. ASSUME NEW d \in Drawings, DrawingStops(d) PROVE DoneFit'
  BY <1>27 DEF PurgeTypeOK, DrawingStops, Goto, There
<1>28. ASSUME NEW v \in Versions, PutBack(v) PROVE DoneFit'
  BY <1>28 DEF PurgeTypeOK, PutBack
<1> QED
  BY <1>1, <1>2, <1>3, <1>4, <1>5, <1>6, <1>7, <1>8, <1>9, <1>10, <1>11, <1>12, <1>13, <1>14, <1>15, <1>16, <1>17, <1>18, <1>19, <1>20, <1>21, <1>22, <1>23, <1>24, <1>25, <1>26, <1>27, <1>28 DEF Next, Sweepers

LEMMA ForgottenStep ==
  ASSUME PurgeInv, NothingForgotten, Next
  PROVE  NothingForgotten'
<1> USE PurgeInvParts, DrawingsAreObjects DEF NothingForgotten, Named, Owns, Writing
<1>1. CASE SoftDelete
  BY <1>1 DEF PurgeTypeOK, SoftDelete
<1>2. CASE Restore
  BY <1>2 DEF PurgeTypeOK, Restore, BroughtBack
<1>3. CASE FilerLeaves
  BY <1>3 DEF PurgeTypeOK, FilerLeaves
<1>4. CASE DayPasses
  BY <1>4 DEF PurgeTypeOK, DayPasses
<1>5. CASE SweepNothing
  BY <1>5 DEF PurgeTypeOK, SweepNothing
<1>6. CASE Claim
  BY <1>6 DEF PurgeTypeOK, Claim
<1>7. CASE Stream
  BY <1>7 DEF PurgeTypeOK, Stream
<1>8. CASE Commit
  <2>1. CASE /\ objects' = (objects \ {Temp}) \union {File(Second)}
              /\ db' = [db EXCEPT !.versions = @ \union {Second}, !.claim = FALSE]
    <3>1. File(Second) # Temp /\ File(Second)[2] = Second
      BY DEF File, Temp
    <3> QED
      BY <1>8, <2>1, <3>1 DEF PurgeTypeOK, Rows, Commit
  <2>2. CASE UNCHANGED <<db, objects>> /\ upload' = "failing"
    BY <1>8, <2>2 DEF Commit
  <2> QED
    BY <1>8, <2>1, <2>2 DEF Commit
<1>9. CASE Release
  BY <1>9 DEF PurgeTypeOK, Release
<1>10. CASE UploadStops
  BY <1>10 DEF PurgeTypeOK, UploadStops
<1>11. CASE PruneClaim
  BY <1>11 DEF PurgeTypeOK, PruneClaim
<1>12. CASE TakeBackup
  BY <1>12 DEF PurgeTypeOK, TakeBackup
<1>13. CASE RestoreBackup
  BY <1>13 DEF PurgeTypeOK, RestoreBackup
<1>14. CASE RecheckFiles
  BY <1>14 DEF PurgeTypeOK, RecheckFiles
<1>15. ASSUME NEW o \in Owners, HandOver(o) PROVE NothingForgotten'
  BY <1>15 DEF PurgeTypeOK, HandOver
<1>16. ASSUME NEW o \in Owners, LookAgain(o) PROVE NothingForgotten'
  BY <1>16 DEF PurgeTypeOK, Rows, LookAgain
<1>17. ASSUME NEW o \in Owners, Ask(o) PROVE NothingForgotten'
  BY <1>17 DEF PurgeTypeOK, Ask
<1>18. ASSUME NEW o \in Owners, Refuse(o) PROVE NothingForgotten'
  BY <1>18 DEF PurgeTypeOK, Refuse
<1>19. ASSUME NEW o \in Owners, Remove(o) PROVE NothingForgotten'
  BY <1>19 DEF PurgeTypeOK, Remove, OwnedObjects
<1>20. ASSUME NEW s \in Sweepers, SweepRead(s) PROVE NothingForgotten'
  BY <1>20 DEF PurgeTypeOK, SweepRead
<1>21. ASSUME NEW s \in Sweepers, SweepDelete(s) PROVE NothingForgotten'
  BY <1>21 DEF PurgeTypeOK, SweepDelete, Sweeps, Deleted
<1>22. ASSUME NEW s \in Sweepers, SweepForget(s) PROVE NothingForgotten'
  BY <1>22 DEF PurgeTypeOK, SweepForget, DoneFit
<1>23. ASSUME NEW s \in Sweepers, SweepStops(s) PROVE NothingForgotten'
  BY <1>23 DEF PurgeTypeOK, SweepStops
<1>24. ASSUME NEW d \in Drawings, StartDrawing(d) PROVE NothingForgotten'
  BY <1>24 DEF PurgeTypeOK, StartDrawing, Goto
<1>25. ASSUME NEW d \in Drawings, Draw(d) PROVE NothingForgotten'
  BY <1>25 DEF PurgeTypeOK, Draw, Goto
<1>26. ASSUME NEW d \in Drawings, FinishDrawing(d) PROVE NothingForgotten'
  BY <1>26 DEF PurgeTypeOK, FinishDrawing, Goto, There, Remembered, MustTakeBack
<1>27. ASSUME NEW d \in Drawings, DrawingStops(d) PROVE NothingForgotten'
  BY <1>27 DEF PurgeTypeOK, DrawingStops, Goto, There
<1>28. ASSUME NEW v \in Versions, PutBack(v) PROVE NothingForgotten'
  <2>1. File(v) # Temp /\ File(v)[2] \in db.versions
    BY <1>28 DEF PutBack, Fit, File, Temp
  <2> QED
    BY <1>28, <2>1 DEF PutBack
<1> QED
  BY <1>1, <1>2, <1>3, <1>4, <1>5, <1>6, <1>7, <1>8, <1>9, <1>10, <1>11, <1>12, <1>13, <1>14, <1>15, <1>16, <1>17, <1>18, <1>19, <1>20, <1>21, <1>22, <1>23, <1>24, <1>25, <1>26, <1>27, <1>28 DEF Next, Sweepers

-----------------------------------------------------------------------------
(* The theorems.                                                           *)

\* PurgeInv holds in every state: the rows fit whatever was removed, brought
\* back or restored, and a sweep only runs while the document is gone.
THEOREM PurgeInvariant == Spec => []PurgeInv
<1>1. Init => PurgeInv
  <2> SUFFICES ASSUME Init PROVE PurgeInv
    OBVIOUS
  <2>1. Fit(db) /\ (backup.made => Fit(backup.rows)) /\ NoticeFits
    BY DEF Init, Fit, NoBackup, NoticeFits
  <2>2. SweepsFit /\ DoneFit
    BY DEF Init, SweepsFit, DoneFit, NoSweep, Sweepers
  <2>3. NoHalfDocument
    BY DEF Init, NoHalfDocument
  <2> QED
    BY <2>1, <2>2, <2>3, TypeInit, PurgeInvParts
<1>2. PurgeInv /\ [Next]_vars => PurgeInv'
  <2> SUFFICES ASSUME PurgeInv, [Next]_vars PROVE PurgeInv'
    OBVIOUS
  <2>1. CASE UNCHANGED vars
    BY <2>1 DEF vars, PurgeInv, PurgeTypeOK, Fit, NoHalfDocument, Writing
  <2>2. CASE Next
    <3>1. PurgeTypeOK'
      BY <2>2, TypeStep, PurgeInvParts
    <3> QED
      BY <2>2, <3>1, FitStep, SweepsStep, DoneStep, NoticeStep, HalfStep
         DEF PurgeInv, SweepsFit, DoneFit, NoticeFits, Sweepers
  <2> QED
    BY <2>1, <2>2
<1> QED
  BY <1>1, <1>2, PTL DEF Spec

\* A document is never there with a version whose file is gone and that does
\* not say so, whatever failed, was swept, drawn, removed or restored: but for
\* one a restore could not look for, and counted as not looked for.
THEOREM NeverHalf == Spec => []NoHalfDocument
<1>1. PurgeInv => NoHalfDocument
  BY DEF PurgeInv
<1> QED
  BY <1>1, PurgeInvariant, PTL

\* Nobody removes for good what somebody else, still here, filed without a
\* whole day's notice during which it stayed in the Trash.
THEOREM NoticeIsKept == Spec => NoticeKept
<1>1. PurgeInv /\ [Next]_vars =>
        [(db.at = "trash" /\ db'.at = "gone" /\ restores' = restores) =>
           \E o \in Owners :
             /\ call[o] = "looked" /\ call'[o] = "idle"
             /\ \/ db.filer = o
                \/ db.belongs = o /\ ~db.here
                \/ told = "over"]_vars
  <2> SUFFICES ASSUME PurgeInv, Next, db.at = "trash", db'.at = "gone", restores' = restores
               PROVE  \E o \in Owners :
                        /\ call[o] = "looked" /\ call'[o] = "idle"
                        /\ \/ db.filer = o
                           \/ db.belongs = o /\ ~db.here
                           \/ told = "over"
    OBVIOUS
  <2>1. PICK o \in Owners : Remove(o)
    <3>1. ~RestoreBackup
      BY RestoreFacts DEF PurgeInv
    <3> QED
      BY <3>1 DEF Next, PurgeInv, PurgeTypeOK, Rows, SoftDelete, Restore, BroughtBack, FilerLeaves, DayPasses,
         HandOver, LookAgain, Ask, Refuse, SweepNothing, SweepRead, SweepDelete, SweepForget, SweepStops, Claim,
         Stream, Commit, Release, UploadStops, PruneClaim, StartDrawing, Draw, FinishDrawing, DrawingStops,
         TakeBackup, RecheckFiles, PutBack
  <2>2. told = db.asked
    BY DEF PurgeInv
  <2> QED
    BY <2>1, <2>2 DEF PurgeInv, PurgeTypeOK, Remove, RemovableAtOnce
<1> QED
  BY <1>1, PurgeInvariant, PTL DEF Spec, NoticeKept

\* No object a removal owned is forgotten, unless whoever wrote it stopped or
\* failed, or a restore went back to before it.
THEOREM NeverForgotten == Spec => []NothingForgotten
<1>1. Init => NothingForgotten
  BY DEF Init, NothingForgotten, Named, Owns, File, Temp, Versions
<1>2. PurgeInv /\ NothingForgotten /\ [Next]_vars => NothingForgotten'
  <2>1. CASE UNCHANGED vars
    BY <2>1 DEF vars, NothingForgotten, Named, Owns, Writing
  <2> QED
    BY <2>1, ForgottenStep
<1> QED
  BY <1>1, <1>2, PurgeInvariant, PTL DEF Spec
=============================================================================
