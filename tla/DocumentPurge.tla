---------------------------- MODULE DocumentPurge ----------------------------
(***************************************************************************)
(* Removing a document for good (apps/api/src/documents/purge.ts), the     *)
(* files it leaves on storage, and what may be going on meanwhile: a new   *)
(* version on its way, the worker drawing a version's thumbnail or pages,  *)
(* and the database restored from a backup made before.                    *)
(*                                                                         *)
(* A removal is one transaction, which writes down every object it can     *)
(* name (purge_leftover); the objects are deleted after it, by the call    *)
(* that made it and by the worker each night.  Storage answers no          *)
(* transaction, and any process may stop between two of its steps.         *)
(***************************************************************************)
EXTENDS Integers, FiniteSets

CONSTANTS
  Owners,      \* the household's owners, by account
  Nobody,      \* no owner
  First,       \* the version the document was filed with
  Second,      \* the version on its way
  Drawings,    \* what the worker may be asked to draw: <<kind, version>>
  Bounds       \* bounds of a behaviour: how many failures (of storage, or a
               \* process that stops) and restores, and which drawings it has

Versions == {First, Second}
Kinds    == {"thumb", "page", "share"}

ASSUME PurgeAssumption ==
  /\ Nobody \notin Owners
  /\ First # Second
  /\ Drawings \subseteq Kinds \X Versions
  /\ Bounds \subseteq [faults : Nat, restores : Nat, drawings : SUBSET Drawings]

VARIABLES
  db,        \* the rows: document, document_version, upload_idempotency, purge_leftover
  call,      \* PurgeService.purge, by owner
  sweep,     \* deleting leftovers: after a removal, and the worker's job
  upload,    \* DocumentService.accept, of the second version
  drawing,   \* the worker's jobs
  objects,   \* what is on storage
  backup,    \* the rows as they were when a backup was made
  faults, restores,  \* how many are left
  told,      \* history: the filer's notice, and whether its day is over
  overlooked,  \* history: versions without a file, which a restore could not look for
  astray     \* history: objects a stopped or failed writer, or a restore, left unnamed

vars ==
  <<db, call, sweep, upload, drawing, objects, backup, faults, restores, told, overlooked, astray>>

File(v) == <<"file", v>>
Temp    == <<"temp", Second>>
Objects == ({"file"} \union Kinds) \X Versions \union {Temp}

\* Whom a document was filed by: an owner, or somebody else in the household.
Others == "another member"
Notice == {"no", "running", "over"}
Rows ==
  [at : {"live", "trash", "gone"},          \* document, deleted_at
   asked : Notice,                          \* purge_requested_at, and its day
   filer : Owners \union {Others},          \* created_by
   here : BOOLEAN,                          \* ... who still signs in
   belongs : Owners \union {Nobody},        \* owner_member_id
   versions : SUBSET Versions,
   marked : SUBSET Versions,                \* file_removed_at
   claim : BOOLEAN,                         \* the upload's row, naming its temporary object
   leftovers : SUBSET Objects]

NoSweep == [at |-> "idle", todo |-> {}, done |-> {}]
Sweeps  == [at : {"idle", "asked", "deleting"}, todo : SUBSET Objects, done : SUBSET Objects]
NoBackup == [made |-> FALSE]
Uploads == {"none", "streaming", "stored", "failing", "done", "failed", "stopped"}
Stages  == {"never", "idle", "drawing", "drawn", "failing"}

Init ==
  /\ db \in [at : {"live"}, asked : {"no"}, filer : Owners \union {Others}, here : {TRUE},
             belongs : Owners \union {Nobody}, versions : {{First}}, marked : {{}},
             claim : {FALSE}, leftovers : {{}}]
  /\ call = [o \in Owners |-> "idle"]
  /\ sweep = [s \in {"api", "worker"} |-> NoSweep]
  /\ upload = "none"
  /\ objects = {File(First)}
  /\ backup = NoBackup
  /\ \E b \in Bounds :
       /\ faults = b.faults
       /\ restores = b.restores
       /\ drawing = [d \in Drawings |-> IF d \in b.drawings THEN "idle" ELSE "never"]
  /\ told = "no"
  /\ overlooked = {}
  /\ astray = {}

Fault == faults > 0 /\ faults' = faults - 1

\* What the document's rows can name: its versions' files and whatever was or
\* could have been drawn of them, and the file of an upload on its way.
Owns(k) == IF k = Temp THEN db.claim ELSE k[2] \in db.versions
Named(k) == Owns(k) \/ k \in db.leftovers

-----------------------------------------------------------------------------
(* In and out of the Trash.                                                *)

SoftDelete ==
  /\ db.at = "live"
  /\ db' = [db EXCEPT !.at = "trash"]
  /\ UNCHANGED <<call, sweep, upload, drawing, objects, backup, faults, restores, told, overlooked, astray>>

BroughtBack == [db EXCEPT !.at = "live", !.asked = "no"]

Restore ==
  /\ db.at = "trash"
  /\ db' = BroughtBack
  /\ told' = "no"
  /\ UNCHANGED <<call, sweep, upload, drawing, objects, backup, faults, restores, overlooked, astray>>

\* An owner makes a household document theirs (mayHandOver lets them).
HandOver(o) ==
  /\ db.at = "live"
  /\ db.belongs = Nobody
  /\ db' = [db EXCEPT !.belongs = o]
  /\ UNCHANGED <<call, sweep, upload, drawing, objects, backup, faults, restores, told, overlooked, astray>>

\* Whoever filed it no longer signs in to the household.
FilerLeaves ==
  /\ db.here
  /\ db.filer = Others
  /\ db' = [db EXCEPT !.here = FALSE]
  /\ UNCHANGED <<call, sweep, upload, drawing, objects, backup, faults, restores, told, overlooked, astray>>

\* PURGE_NOTICE_HOURS pass, on the database's clock.
DayPasses ==
  /\ db.asked = "running"
  /\ db' = [db EXCEPT !.asked = "over"]
  /\ told' = IF told = "running" THEN "over" ELSE told
  /\ UNCHANGED <<call, sweep, upload, drawing, objects, backup, faults, restores, overlooked, astray>>

-----------------------------------------------------------------------------
(* An owner's call.                                                        *)

Present(vs) == {v \in vs : File(v) \in objects}
Missing(vs) == vs \ Present(vs)

\* A version a restore marked whose file is there after all is unmarked, and
\* the removal refused; a file storage cannot answer for is not found.
LookAgain(o) ==
  /\ call[o] = "idle"
  /\ db.at = "trash"
  /\ \E found \in SUBSET Present(db.marked) :
       /\ IF found = Present(db.marked) THEN UNCHANGED faults ELSE Fault
       /\ db' = [db EXCEPT !.marked = @ \ found]
       /\ call' = IF found = {} THEN [call EXCEPT ![o] = "looked"] ELSE call
  /\ UNCHANGED <<sweep, upload, drawing, objects, backup, restores, told, overlooked, astray>>

\* Fault: theirs is enough, whoever filed it.
RemovableAtOnce_Theirs(o) == db.filer = o \/ db.belongs = o
RemovableAtOnce(o) == db.filer = o \/ (db.belongs = o /\ ~db.here)

Ask(o) ==
  /\ call[o] = "looked"
  /\ db.at = "trash"
  /\ ~RemovableAtOnce(o)
  /\ db.asked = "no"
  /\ db' = [db EXCEPT !.asked = "running"]
  /\ told' = "running"
  /\ call' = [call EXCEPT ![o] = "idle"]
  /\ UNCHANGED <<sweep, upload, drawing, objects, backup, faults, restores, overlooked, astray>>

\* Not in the Trash any more, not there, or asked about less than a day ago.
Refuse(o) ==
  /\ call[o] = "looked"
  /\ db.at # "trash" \/ (~RemovableAtOnce(o) /\ db.asked = "running")
  /\ call' = [call EXCEPT ![o] = "idle"]
  /\ UNCHANGED <<db, sweep, upload, drawing, objects, backup, faults, restores, told, overlooked, astray>>

\* Fault: the file of an upload on its way is not asked for.
OwnedObjects_NoUpload == {k \in Objects \ {Temp} : Owns(k)}
OwnedObjects == {k \in Objects : Owns(k)}

\* One transaction, the document's row held: its leftovers written, its row
\* deleted, and every row that names it with it.
Remove(o) ==
  /\ call[o] = "looked"
  /\ db.at = "trash"
  /\ RemovableAtOnce(o) \/ db.asked = "over"
  /\ db' = [db EXCEPT !.at = "gone", !.asked = "no", !.versions = {}, !.marked = {},
                      !.claim = FALSE, !.leftovers = @ \union OwnedObjects]
  /\ call' = [call EXCEPT ![o] = "idle"]
  /\ sweep' = [sweep EXCEPT !["api"] = [NoSweep EXCEPT !.at = "asked"]]
  /\ UNCHANGED <<upload, drawing, objects, backup, faults, restores, told, overlooked, astray>>

-----------------------------------------------------------------------------
(* Deleting what a removal left.                                           *)

SweepRead(s) ==
  /\ sweep[s].at = IF s = "api" THEN "asked" ELSE "idle"
  /\ db.leftovers # {}
  /\ sweep' = [sweep EXCEPT ![s] = [at |-> "deleting", todo |-> db.leftovers, done |-> {}]]
  /\ UNCHANGED <<db, call, upload, drawing, objects, backup, faults, restores, told, overlooked, astray>>

\* Somebody else's sweep had them all.
SweepNothing ==
  /\ sweep["api"].at = "asked"
  /\ db.leftovers = {}
  /\ sweep' = [sweep EXCEPT !["api"] = NoSweep]
  /\ UNCHANGED <<db, call, upload, drawing, objects, backup, faults, restores, told, overlooked, astray>>

\* In the order they were written down, a missing one being fine; the first
\* that cannot be reached ends it.
Order(k) == CASE k[1] = "file"  -> 0 [] k[1] = "thumb" -> 1 [] k[1] = "page" -> 2
              [] k[1] = "share" -> 3 [] OTHER -> 4
Before(j, k) == (j[2] = First /\ k[2] = Second) \/ (j[2] = k[2] /\ Order(j) <= Order(k))

\* Fault: a missing object is not taken for deleted.
Deleted_IfThere(s, k) ==
  [sweep[s] EXCEPT !.todo = @ \ {k}, !.done = @ \union ({k} \cap objects)]
Deleted(s, k) == [sweep[s] EXCEPT !.todo = @ \ {k}, !.done = @ \union {k}]

SweepDelete(s) ==
  /\ sweep[s].at = "deleting"
  /\ \E k \in sweep[s].todo :
       /\ \A j \in sweep[s].todo : Before(k, j)
       /\ \/ /\ objects' = objects \ {k}
             /\ sweep' = [sweep EXCEPT ![s] = Deleted(s, k)]
             /\ UNCHANGED faults
          \/ /\ Fault
             /\ sweep' = [sweep EXCEPT ![s].todo = {}]
             /\ UNCHANGED objects
  /\ UNCHANGED <<db, call, upload, drawing, backup, restores, told, overlooked, astray>>

SweepForget(s) ==
  /\ sweep[s].at = "deleting"
  /\ sweep[s].todo = {}
  /\ db' = [db EXCEPT !.leftovers = @ \ sweep[s].done]
  /\ sweep' = [sweep EXCEPT ![s] = NoSweep]
  /\ UNCHANGED <<call, upload, drawing, objects, backup, faults, restores, told, overlooked, astray>>

SweepStops(s) ==
  /\ sweep[s].at # "idle"
  /\ Fault
  /\ sweep' = [sweep EXCEPT ![s] = NoSweep]
  /\ UNCHANGED <<db, call, upload, drawing, objects, backup, restores, told, overlooked, astray>>

-----------------------------------------------------------------------------
(* A new version on its way (UploadClaims has its retries).                *)

Claim ==
  /\ upload = "none"
  /\ db.at = "live"
  /\ db' = [db EXCEPT !.claim = TRUE]
  /\ upload' = "streaming"
  /\ UNCHANGED <<call, sweep, drawing, objects, backup, faults, restores, told, overlooked, astray>>

Stream ==
  /\ upload = "streaming"
  /\ \/ objects' = objects \union {Temp} /\ upload' = "stored" /\ UNCHANGED faults
     \/ Fault /\ objects' \in {objects, objects \union {Temp}} /\ upload' = "failing"
  /\ UNCHANGED <<db, call, sweep, drawing, backup, restores, told, overlooked, astray>>

\* The claim is still there (a removal takes it along), the document is held
\* and still out of the Trash.
StillFilable == db.claim /\ db.at = "live"

Commit ==
  /\ upload = "stored"
  /\ IF StillFilable
     THEN /\ objects' = (objects \ {Temp}) \union {File(Second)}
          /\ db' = [db EXCEPT !.versions = @ \union {Second}, !.claim = FALSE]
          /\ upload' = "done"
     ELSE upload' = "failing" /\ UNCHANGED <<db, objects>>
  /\ UNCHANGED <<call, sweep, drawing, backup, faults, restores, told, overlooked, astray>>

\* release: its temporary object, whatever storage says, and its claim.
Release ==
  /\ upload = "failing"
  /\ \/ objects' = objects \ {Temp} /\ UNCHANGED <<faults, astray>>
     \/ Fault /\ UNCHANGED objects /\ astray' = astray \union {Temp}
  /\ db' = [db EXCEPT !.claim = FALSE]
  /\ upload' = "failed"
  /\ UNCHANGED <<call, sweep, drawing, backup, restores, told, overlooked>>

\* Its process stops; a claim a removal took is no help.
UploadStops ==
  /\ upload \in {"streaming", "stored", "failing"}
  /\ Fault
  /\ upload' = "stopped"
  /\ astray' = IF db.claim THEN astray ELSE astray \union {Temp}
  /\ UNCHANGED <<db, call, sweep, drawing, objects, backup, restores, told, overlooked>>

\* pruneUploads, a day later.
PruneClaim ==
  /\ upload \in {"stopped", "failed"}
  /\ db.claim
  /\ objects' = objects \ {Temp}
  /\ db' = [db EXCEPT !.claim = FALSE]
  /\ UNCHANGED <<call, sweep, upload, drawing, backup, faults, restores, told, overlooked, astray>>

-----------------------------------------------------------------------------
(* The worker draws: a version's thumbnail, its pages, a link's pages.     *)
(* Each writes its object first and asks after whether the version (for a  *)
(* link's pages, the link, which goes with the document) is still there.   *)

Goto(d, stage) == drawing' = [drawing EXCEPT ![d] = stage]
There(d) == d[2] \in db.versions

StartDrawing(d) ==
  /\ drawing[d] = "idle"
  /\ There(d)
  /\ Goto(d, "drawing")
  /\ UNCHANGED <<db, call, sweep, upload, objects, backup, faults, restores, told, overlooked, astray>>

\* A put that failed may have left its object.
Draw(d) ==
  /\ drawing[d] = "drawing"
  /\ \/ objects' = objects \union {d} /\ Goto(d, "drawn") /\ UNCHANGED faults
     \/ Fault /\ objects' \in {objects, objects \union {d}} /\ Goto(d, "failing")
  /\ UNCHANGED <<db, call, sweep, upload, backup, restores, told, overlooked, astray>>

\* A thumbnail and a link's page are remembered only once they are written,
\* so one whose put failed is not deleted; a version's page is remembered
\* before.
Remembered(d) == drawing[d] = "drawn" \/ d[1] = "page"

MustTakeBack(d) == ~There(d) /\ Remembered(d)

FinishDrawing(d) ==
  /\ drawing[d] \in {"drawn", "failing"}
  /\ \/ MustTakeBack(d) /\ objects' = objects \ {d} /\ UNCHANGED <<faults, astray>>
     \/ MustTakeBack(d) /\ Fault /\ UNCHANGED objects /\ astray' = astray \union {d}
     \/ /\ ~MustTakeBack(d)
        /\ astray' = IF ~There(d) /\ drawing[d] = "failing" THEN astray \union {d} ELSE astray
        /\ UNCHANGED <<objects, faults>>
  /\ Goto(d, "idle")
  /\ UNCHANGED <<db, call, sweep, upload, backup, restores, told, overlooked>>

\* The worker stops; its job is tried again, and finds no version.
DrawingStops(d) ==
  /\ drawing[d] \notin {"never", "idle"}
  /\ Fault
  /\ Goto(d, "idle")
  /\ astray' = IF There(d) THEN astray ELSE astray \union {d}
  /\ UNCHANGED <<db, call, sweep, upload, objects, backup, restores, told, overlooked>>

-----------------------------------------------------------------------------
(* Backup and restore: the database alone.  The vault is stopped for a     *)
(* restore.                                                                *)

TakeBackup ==
  /\ ~backup.made
  /\ restores > 0
  /\ backup' = [made |-> TRUE, rows |-> db]
  /\ UNCHANGED <<db, call, sweep, upload, drawing, objects, faults, restores, told, overlooked, astray>>

\* Not one file is found where they are kept, of this document or of
\* another: the place looks empty, and says nothing about any one document.
LooksEmpty(reached, others) == Present(reached) = {} /\ ~others

\* The versions not looked for: a folder that is not there, a place that
\* cannot be opened and a file that cannot be asked after are no answer.
Unchecked(held, reached, others) ==
  IF LooksEmpty(reached, others) THEN held ELSE held \ reached

\* Fault: nothing is marked.
ClearlyGone_Nothing(held, unchecked) == {}
ClearlyGone(held, unchecked) == Missing(held) \ unchecked

\* Every request to remove is forgotten, and a version looked for whose file
\* is clearly gone is marked.
RestoreBackup ==
  /\ backup.made
  /\ restores > 0
  /\ restores' = restores - 1
  /\ LET old == backup.rows
         held == old.versions \ old.marked
     IN \E reached \in SUBSET held, others \in BOOLEAN :
          LET unchecked == Unchecked(held, reached, others)
          IN /\ db' = [old EXCEPT !.asked = "no", !.marked = @ \union ClearlyGone(held, unchecked)]
             /\ overlooked' = Missing(unchecked)
  /\ call' = [o \in Owners |-> "idle"]
  /\ sweep' = [s \in {"api", "worker"} |-> NoSweep]
  /\ drawing' = [d \in Drawings |-> IF drawing[d] = "never" THEN "never" ELSE "idle"]
  /\ upload' = IF upload \in {"streaming", "stored", "failing"} THEN "stopped" ELSE upload
  /\ told' = "no"
  /\ astray' = astray \union {k \in objects : ~Named(k)'}
  /\ backup' = IF restores' > 0 THEN backup ELSE NoBackup
  /\ UNCHANGED <<objects, faults>>

\* The operator puts a file back (README), and has the marks looked at again.
PutBack(v) ==
  /\ v \in db.marked \union (db.versions \cap overlooked)
  /\ objects' = objects \union {File(v)}
  /\ overlooked' = overlooked \ {v}
  /\ UNCHANGED <<db, call, sweep, upload, drawing, backup, faults, restores, told, astray>>

\* recheck-files: whichever are found; a place it cannot ask keeps its marks.
RecheckFiles ==
  /\ \E found \in SUBSET Present(db.marked) :
       found # {} /\ db' = [db EXCEPT !.marked = @ \ found]
  /\ UNCHANGED <<call, sweep, upload, drawing, objects, backup, faults, restores, told, overlooked, astray>>

-----------------------------------------------------------------------------

Next ==
  \/ SoftDelete \/ Restore \/ FilerLeaves \/ DayPasses
  \/ \E o \in Owners : HandOver(o) \/ LookAgain(o) \/ Ask(o) \/ Refuse(o) \/ Remove(o)
  \/ SweepNothing
  \/ \E s \in {"api", "worker"} : SweepRead(s) \/ SweepDelete(s) \/ SweepForget(s) \/ SweepStops(s)
  \/ Claim \/ Stream \/ Commit \/ Release \/ UploadStops \/ PruneClaim
  \/ \E d \in Drawings : StartDrawing(d) \/ Draw(d) \/ FinishDrawing(d) \/ DrawingStops(d)
  \/ TakeBackup \/ RestoreBackup \/ RecheckFiles
  \/ \E v \in Versions : PutBack(v)

Spec == Init /\ [][Next]_vars

\* purge.leftovers runs each night (apps/worker/src/main.ts), and a job that
\* was begun goes on unless it stops.
NightlySweep == SweepRead("worker") \/ SweepDelete("worker") \/ SweepForget("worker")

FairSpec == Spec /\ WF_vars(NightlySweep)

-----------------------------------------------------------------------------

PurgeTypeOK ==
  /\ db \in Rows
  /\ call \in [Owners -> {"idle", "looked"}]
  /\ sweep \in [{"api", "worker"} -> Sweeps]
  /\ upload \in Uploads
  /\ drawing \in [Drawings -> Stages]
  /\ objects \subseteq Objects
  /\ backup = NoBackup \/ backup \in [made : {TRUE}, rows : Rows]
  /\ faults \in Nat
  /\ restores \in Nat
  /\ told \in Notice
  /\ overlooked \subseteq Versions
  /\ astray \subseteq Objects

\* Rows one transaction after another may leave: what is written down to be
\* deleted is of a document that is not there.
Fit(rows) ==
  /\ rows.at = "gone" => rows.versions = {} /\ ~rows.claim /\ rows.asked = "no"
  /\ rows.leftovers # {} => rows.at = "gone"
  /\ rows.marked \subseteq rows.versions

\* Nobody removes for good what somebody else, still here, filed, unless
\* they were told and the document stayed in the Trash for the whole day
\* since: not on a day counted before it was brought back or the database
\* restored, nor because they made the document theirs.
NoticeKept ==
  [][(db.at = "trash" /\ db'.at = "gone" /\ restores' = restores) =>
       \E o \in Owners :
         /\ call[o] = "looked" /\ call'[o] = "idle"
         /\ \/ db.filer = o
            \/ db.belongs = o /\ ~db.here
            \/ told = "over"]_vars

\* A document is never there with a version whose file is gone and that does
\* not say so, but for one the restore could not look for, and said so:
\* whatever a sweep read before, and however often the database was restored
\* from before a removal.
NoHalfDocument ==
  \A v \in db.versions : File(v) \in objects \/ v \in db.marked \/ v \in overlooked

\* Whoever wrote it has yet to ask whether it may stay.
Writing(k) ==
  \/ k \in Drawings /\ drawing[k] \in {"drawn", "failing"}
  \/ k = Temp /\ upload \in {"stored", "failing"}

\* No object a removal owned is forgotten: what is on storage is named by a
\* row, or a writer that will ask is still at work, or its writer stopped or
\* failed, or a restore went back to before it was written.
NothingForgotten == \A k \in objects : Named(k) \/ k \in astray \/ Writing(k)

\* What the proofs stand on: the rows fit, now and in the backup; a sweep
\* only ever runs while the document is gone, and what it deleted and is
\* back was written since; and the history of the notice goes with the
\* request.
PurgeInv ==
  /\ PurgeTypeOK
  /\ Fit(db) /\ (backup.made => Fit(backup.rows))
  /\ \A s \in {"api", "worker"} : sweep[s].at # "idle" => db.at = "gone"
  /\ \A s \in {"api", "worker"} : sweep[s].at = "idle" => sweep[s].done = {}
  /\ \A s \in {"api", "worker"}, k \in objects :
       k \in sweep[s].done => k \in astray \/ Writing(k)
  /\ db.at # "gone" => told = db.asked
  /\ NoHalfDocument

\* Whatever a removal left is deleted in the end, if storage answers: again
\* and again nothing is written down to be deleted.
LeftoversGo == []<>(db.leftovers = {})
=============================================================================
