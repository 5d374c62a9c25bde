----------------------------- MODULE Acceptance -----------------------------
(***************************************************************************)
(* One file waiting in a batch: filed as a new document, or as a new       *)
(* version of one that was there; taken back within minutes (Undo); filed  *)
(* again; refused (apps/api/src/uploads/batches.ts).  Meanwhile what it    *)
(* became is changed, shared, moved to the Trash and removed for good, its *)
(* batch is removed, and the worker deletes what is left behind.           *)
(*                                                                         *)
(* Its bytes are never in two hands: filing copies them for the version,   *)
(* taking back copies them again for the item, each copy under a name of   *)
(* its own.  A copy is made before the commit that names it, and the old   *)
(* object deleted after it, so each can be left behind or deleted late.    *)
(* A transaction here holds the item's row, and the document's, from its   *)
(* first read to its end: it is one step.                                  *)
(***************************************************************************)
EXTENDS Naturals

CONSTANTS
  Accepts,     \* calls that file it, each with the version and the object it makes
  Undos,       \* calls that take it back, each with the object it makes
  Remove,      \* the call that refuses it (removeItem)
  Sent,        \* its object as it arrived
  Old,         \* the document that was there before
  None,
  MaxEdits,    \* bound: changes to the details of Old
  MaxFaults    \* bound: failures of storage or the database, processes that stop

Callers  == Accepts \union {Remove}
Docs     == Accepts \union {Old}         \* a new document is named for its accept
ItemKeys == Undos \union {Sent}
Keys     == ItemKeys \union Accepts

ASSUME AcceptanceAssumption ==
  /\ Accepts \intersect Undos = {}
  /\ {Remove, Sent, Old, None} \intersect (Accepts \union Undos) = {}
  /\ Old # None
  /\ MaxEdits \in Nat
  /\ MaxFaults \in Nat

VARIABLES
  item,        \* its row (incoming_file)
  doc,         \* the documents
  version,     \* whose version each accept's is, None when it is not there
  details,     \* the number and dates of Old
  leftovers,   \* purge_leftover
  objects,     \* what is on storage
  call,        \* accept, acceptReady and removeItem, by caller
  undo,        \* undo, by call
  faults,
  astray,      \* history: objects left by a stopped or failed call
  mistaken     \* history: objects the item's row says are gone, on the word of
               \* a call that had deleted another

vars ==
  <<item, doc, version, details, leftovers, objects, call, undo, faults, astray, mistaken>>

States == {"received", "accepted", "rejected", "gone"}
Windows == {"never", "open", "over"}
Items ==
  [state : States,
   key : ItemKeys,                       \* storage_key
   emptied : BOOLEAN,                    \* object_removed_at
   filed : Accepts \union {None},        \* version_id
   until : Windows,                      \* undo_until
   prior : 0..MaxEdits]                  \* prior_sealed: the details as they were
Places == {"none", "live", "trash", "gone"}
\* What was done with a document since the item was filed in it, from its
\* versions, updated_by, its links and what names it, and the activity log:
\* nothing; its uploader alone changed it; another copy was added, a link
\* made or used, or somebody else changed, saw, exported or answered it.
Doings == {"nothing", "own", "more"}
Documents == [at : Places, since : Doings]
CallStages == {"new", "asked", "decided", "emptied", "unsure", "over"}
UndoStages == {"new", "copied", "unsure", "over"}

TypeOK ==
  /\ item \in Items
  /\ doc \in [Docs -> Documents]
  /\ version \in [Accepts -> Docs \union {None}]
  /\ details \in [of : Accepts \union {None}, edit : 0..MaxEdits, last : 0..MaxEdits]
  /\ leftovers \subseteq Keys
  /\ objects \subseteq Keys
  /\ call \in [Callers -> [at : CallStages, key : ItemKeys]]
  /\ undo \in [Undos -> UndoStages]
  /\ faults \in 0..MaxFaults
  /\ astray \subseteq Keys
  /\ mistaken \subseteq ItemKeys

Arrived == [state |-> "received", key |-> Sent, emptied |-> FALSE,
            filed |-> None, until |-> "never", prior |-> 0]
NoItem == [Arrived EXCEPT !.state = "gone"]
Removed == [at |-> "gone", since |-> "nothing"]

Init ==
  /\ item = Arrived
  /\ doc = [d \in Docs |-> [at |-> IF d = Old THEN "live" ELSE "none", since |-> "nothing"]]
  /\ version = [a \in Accepts |-> None]
  /\ details = [of |-> None, edit |-> 0, last |-> 0]
  /\ leftovers = {}
  /\ objects = {Sent}
  /\ call = [c \in Callers |-> [at |-> "new", key |-> Sent]]
  /\ undo = [u \in Undos |-> "new"]
  /\ faults = 0
  /\ astray = {}
  /\ mistaken = {}

Fault == faults < MaxFaults /\ faults' = faults + 1
Sound == faults' = faults
Goes(c, stage) == call' = [call EXCEPT ![c].at = stage]
Ends(c) == call' = [call EXCEPT ![c] = [at |-> "over", key |-> Sent]]
UndoGoes(u, stage) == undo' = [undo EXCEPT ![u] = stage]
Has(d) == doc[d].at \in {"live", "trash"}

\* What some row says is there, or is to be deleted.
Named(k) ==
  \/ item.state # "gone" /\ item.key = k /\ ~item.emptied
  \/ k \in Accepts /\ version[k] # None
  \/ k \in leftovers
-----------------------------------------------------------------------------
\* Filing: the rows of accept and acceptReady, in one transaction.
Files(a, into, until) ==
  /\ item' = [item EXCEPT !.state = "accepted", !.filed = a, !.until = until,
                          !.prior = IF into = Old THEN details.edit ELSE 0]
  /\ doc' = [doc EXCEPT ![into] = [at |-> "live", since |-> "nothing"]]
  /\ version' = [version EXCEPT ![a] = into]
  /\ details' = IF into = Old THEN [details EXCEPT !.of = a] ELSE details

MayFile(a) ==
  /\ call[a].at = "new"
  /\ item.state = "received"
  /\ item.key \in objects

\* Filed, as a new document or as a version.  Only Accept all Ready and a
\* version can be taken back.  The answer may be lost, or the process stop.
Accept(a) ==
  /\ MayFile(a)
  /\ \E into \in {a, Old}, until \in {"never", "open"} :
       /\ into = Old => doc[Old].at = "live" /\ until = "open"
       /\ Files(a, into, until)
  /\ objects' = objects \union {a}
  /\ \E stage \in {"decided", "unsure", "over"} :
       /\ call' = [call EXCEPT ![a] =
                     [at |-> stage, key |-> IF stage = "decided" THEN item.key ELSE Sent]]
       /\ IF stage = "decided" THEN Sound ELSE Fault
  /\ UNCHANGED <<leftovers, undo, astray, mistaken>>

\* The copy made, and the transaction rolled back; or the process stopped.
AcceptFails(a) ==
  /\ MayFile(a)
  /\ Fault
  /\ objects' = objects \union {a}
  /\ \/ Goes(a, "unsure") /\ UNCHANGED astray
     \/ Ends(a) /\ astray' = astray \union {a}
  /\ UNCHANGED <<item, doc, version, details, leftovers, undo, mistaken>>

\* Fault: the row not asked whether the filing happened after all.
CopyKept_Unasked(a) == item.state = "gone"

\* dropCopy leaves a copy alone when the item's row is gone, or names it.
CopyKept(a) == item.state = "gone" \/ (item.state = "accepted" /\ item.filed = a)

DropCopy(a) ==
  /\ call[a].at = "unsure"
  /\ Ends(a)
  /\ IF CopyKept(a)
     THEN /\ Sound
          /\ objects' = objects
          /\ astray' = IF Named(a) THEN astray ELSE astray \union {a}
     ELSE \/ Sound /\ objects' = objects \ {a} /\ astray' = astray
          \/ Fault /\ objects' = objects /\ astray' = astray \union {a}
  /\ UNCHANGED <<item, doc, version, details, leftovers, undo, mistaken>>

\* removeItem reads the row, and then writes it if it is still waiting.
AskRemove ==
  /\ call[Remove].at = "new"
  /\ item.state = "received"
  /\ call' = [call EXCEPT ![Remove] = [at |-> "asked", key |-> item.key]]
  /\ UNCHANGED <<item, doc, version, details, leftovers, objects, undo, faults, astray, mistaken>>

Reject ==
  /\ call[Remove].at = "asked"
  /\ IF item.state = "received"
     THEN item' = [item EXCEPT !.state = "rejected"] /\ Goes(Remove, "decided")
     ELSE item' = item /\ Ends(Remove)
  /\ UNCHANGED <<doc, version, details, leftovers, objects, undo, faults, astray, mistaken>>

\* removeObjects, after the decision: the object as the call read it ...
RemoveObject(c) ==
  /\ call[c].at = "decided"
  /\ \/ Sound /\ Goes(c, "emptied") /\ objects' = objects \ {call[c].key}
     \/ Fault /\ Ends(c) /\ objects' = objects
  /\ UNCHANGED <<item, doc, version, details, leftovers, undo, astray, mistaken>>

\* ... and then the row, whatever object it names by now.  The database lets
\* only a decided item be said to be emptied; any failure is left to the sweep.
MarkEmptied(c) ==
  /\ call[c].at = "emptied"
  /\ Ends(c)
  /\ \/ /\ item.state \in {"accepted", "rejected"}
        /\ Sound
        /\ item' = [item EXCEPT !.emptied = TRUE]
        /\ mistaken' = IF item.key = call[c].key THEN mistaken
                       ELSE mistaken \union {item.key}
     \/ /\ IF item.state \in {"accepted", "rejected"} THEN Fault ELSE Sound
        /\ UNCHANGED <<item, mistaken>>
  /\ UNCHANGED <<doc, version, details, leftovers, objects, undo, astray>>
-----------------------------------------------------------------------------
\* undoOne: the version's file copied back, before anything is held.
UndoCopy(u) ==
  /\ undo[u] = "new"
  /\ item.state = "accepted" /\ item.until # "never"
  /\ item.filed \in objects
  /\ objects' = objects \union {u}
  /\ \/ Sound /\ UndoGoes(u, "copied") /\ astray' = astray
     \/ Fault /\ UndoGoes(u, "over") /\ astray' = astray \union {u}
  /\ UNCHANGED <<item, doc, version, details, leftovers, call, mistaken>>

\* Fault: only other people's changes counted against a document that was there.
MayTakeBack_Own ==
  /\ item.state = "accepted"
  /\ item.until = "open"
  /\ doc[version[item.filed]].at = "live"
  /\ doc[version[item.filed]].since # "more"

\* What the second transaction asks, with the item and its document held.
\* A new document its uploader alone has changed goes all the same; a
\* document that was there is kept once anybody has.
MayTakeBack ==
  /\ item.state = "accepted"
  /\ item.until = "open"
  /\ LET into == version[item.filed] IN
       /\ doc[into].at = "live"
       /\ doc[into].since # "more"
       /\ into = Old => doc[into].since = "nothing"

\* Fault: the item's own old object forgotten.
Left_File == {item.filed}

\* What is left to delete: the version's file, and the item's old object
\* should its removal after the accept have failed.
Left == {item.filed} \union (IF item.emptied THEN {} ELSE {item.key})

TakesBack(u) ==
  /\ leftovers' = leftovers \union Left
  /\ item' = [item EXCEPT !.state = "received", !.key = u, !.emptied = FALSE,
                          !.filed = None, !.until = "never", !.prior = 0]
  /\ version' = [version EXCEPT ![item.filed] = None]
  /\ doc' = IF version[item.filed] = Old THEN doc
            ELSE [doc EXCEPT ![version[item.filed]] = Removed]
  /\ details' = IF version[item.filed] = Old
                THEN [details EXCEPT !.of = None, !.edit = item.prior]
                ELSE details

UndoCommit(u) ==
  /\ undo[u] = "copied"
  /\ MayTakeBack
  /\ TakesBack(u)
  /\ \/ Sound /\ UndoGoes(u, "over")
     \/ Fault /\ UndoGoes(u, "unsure")
  /\ UNCHANGED <<objects, call, astray, mistaken>>

\* Kept, and said so: the copy goes.
UndoKept(u) ==
  /\ undo[u] = "copied"
  /\ ~MayTakeBack
  /\ UndoGoes(u, "over")
  /\ \/ Sound /\ objects' = objects \ {u} /\ astray' = astray
     \/ Fault /\ objects' = objects /\ astray' = astray \union {u}
  /\ UNCHANGED <<item, doc, version, details, leftovers, call, mistaken>>

\* Rolled back, or the process stopped.
UndoFails(u) ==
  /\ undo[u] = "copied"
  /\ Fault
  /\ \/ UndoGoes(u, "unsure") /\ astray' = astray
     \/ UndoGoes(u, "over") /\ astray' = astray \union {u}
  /\ UNCHANGED <<item, doc, version, details, leftovers, objects, call, mistaken>>

DropUndoCopy(u) ==
  /\ undo[u] = "unsure"
  /\ UndoGoes(u, "over")
  /\ IF item.state # "gone" /\ item.key = u
     THEN Sound /\ UNCHANGED <<objects, astray>>
     ELSE \/ Sound /\ objects' = objects \ {u} /\ astray' = astray
          \/ Fault /\ objects' = objects /\ astray' = astray \union {u}
  /\ UNCHANGED <<item, doc, version, details, leftovers, call, mistaken>>

\* ACCEPT_UNDO_MINUTES pass, or the batch ends.
Late ==
  /\ item.until = "open"
  /\ item' = [item EXCEPT !.until = "over"]
  /\ UNCHANGED <<doc, version, details, leftovers, objects, call, undo, faults, astray, mistaken>>
-----------------------------------------------------------------------------
Others == <<item, version, leftovers, objects, call, undo, faults, astray, mistaken>>

\* A change by its uploader, or by somebody else.
Done(d, byUploader) == IF byUploader /\ doc[d].since # "more" THEN "own" ELSE "more"

Edit(d, byUploader) ==
  /\ doc[d].at = "live"
  /\ doc' = [doc EXCEPT ![d].since = Done(d, byUploader)]
  /\ IF d = Old
     THEN /\ details.last < MaxEdits
          /\ details' = [of |-> None, edit |-> details.last + 1, last |-> details.last + 1]
     ELSE details' = details
  /\ UNCHANGED Others

\* Another copy added, by anybody; a link made or used; or somebody else looks
\* at it, exports it, puts it in a collection, links it, answers a reminder.
Reach(d) ==
  /\ doc[d].at = "live"
  /\ doc' = [doc EXCEPT ![d].since = "more"]
  /\ UNCHANGED <<details, Others>>

Trash(d, byUploader) ==
  /\ doc[d].at = "live"
  /\ doc' = [doc EXCEPT ![d] = [at |-> "trash", since |-> Done(d, byUploader)]]
  /\ UNCHANGED <<details, Others>>

BringBack(d, byUploader) ==
  /\ doc[d].at = "trash"
  /\ doc' = [doc EXCEPT ![d] = [at |-> "live", since |-> Done(d, byUploader)]]
  /\ UNCHANGED <<details, Others>>

\* A row gone before its bytes are known to be leaves them (incoming_file_leaves_bytes).
Leaves == IF item.emptied THEN {} ELSE {item.key}

\* Removed for good (DocumentPurge): the row of the item filed in it goes too.
Purge(d) ==
  LET its == {a \in Accepts : version[a] = d}
      takesItem == item.state = "accepted" /\ item.filed \in its IN
  /\ doc[d].at = "trash"
  /\ doc' = [doc EXCEPT ![d] = Removed]
  /\ version' = [a \in Accepts |-> IF a \in its THEN None ELSE version[a]]
  /\ item' = IF takesItem THEN NoItem ELSE item
  /\ leftovers' = leftovers \union its \union (IF takesItem THEN Leaves ELSE {})
  /\ UNCHANGED <<details, objects, call, undo, faults, astray, mistaken>>

\* The end of removing the batch: its rows go, what was filed stays.
RemoveBatch ==
  /\ item.state # "gone"
  /\ item' = NoItem
  /\ leftovers' = leftovers \union Leaves
  /\ UNCHANGED <<doc, version, details, objects, call, undo, faults, astray, mistaken>>

\* The worker, daily, ten minutes after a decision or later: the object of a
\* decided item, once its version has its own copy.
SweepItem ==
  /\ item.state \in {"accepted", "rejected"}
  /\ ~item.emptied
  /\ item.until # "open"
  /\ item' = [item EXCEPT !.emptied = TRUE]
  /\ objects' = (IF item.state = "accepted" /\ item.key \in objects
                 THEN objects \union {item.filed} ELSE objects) \ {item.key}
  /\ UNCHANGED <<doc, version, details, leftovers, call, undo, faults, astray, mistaken>>

SweepLeftover(k) ==
  /\ k \in leftovers
  /\ leftovers' = leftovers \ {k}
  /\ objects' = objects \ {k}
  /\ UNCHANGED <<item, doc, version, details, call, undo, faults, astray, mistaken>>

Next ==
  \/ \E a \in Accepts : Accept(a) \/ AcceptFails(a) \/ DropCopy(a)
  \/ AskRemove \/ Reject
  \/ \E c \in Callers : RemoveObject(c) \/ MarkEmptied(c)
  \/ \E u \in Undos : \/ UndoCopy(u) \/ UndoCommit(u) \/ UndoKept(u)
                      \/ UndoFails(u) \/ DropUndoCopy(u)
  \/ Late
  \/ \E d \in Docs : Reach(d) \/ Purge(d)
  \/ \E d \in Docs, byUploader \in BOOLEAN :
       \/ Edit(d, byUploader)
       \/ Trash(d, byUploader) \/ BringBack(d, byUploader)
  \/ RemoveBatch
  \/ SweepItem
  \/ \E k \in Keys : SweepLeftover(k)

Spec == Init /\ [][Next]_vars
-----------------------------------------------------------------------------
\* A file waiting has its bytes, and so has a version made of it.
HasBytes ==
  /\ item.state = "received" => item.key \in objects
  /\ \A a \in Accepts : version[a] # None => a \in objects

\* It is waiting or filed, never both: a version is made of it only while it
\* says so, or once its own row is gone.
OnePlace ==
  /\ item.state \in {"received", "rejected"} => \A a \in Accepts : version[a] = None
  /\ item.state = "accepted" =>
       /\ item.filed \in Accepts
       /\ version[item.filed] # None
       /\ \A a \in Accepts : version[a] # None => a = item.filed

\* Nothing is written down to be deleted that a row still needs.
LeftoversDead ==
  /\ \A a \in Accepts : a \in leftovers => version[a] = None
  /\ item.state # "gone" => item.key \notin leftovers

\* A name is not used before the call it was made for.
NotYet ==
  /\ \A a \in Accepts : call[a].at = "new" => version[a] = None /\ a \notin leftovers
  /\ \A u \in Undos : undo[u] \in {"new", "copied"} =>
       /\ u \notin leftovers
       /\ item.key # u
       /\ \A c \in Callers : call[c].key # u

\* What the calls under way rely on: a copy taken back is there; what is
\* deleted late is no waiting item's, and is gone once it is deleted; an item
\* said to be emptied is, but by mistake.
CallsSound ==
  /\ \A u \in Undos : undo[u] = "copied" => u \in objects
  /\ \A c \in Callers :
       /\ call[c].at = "decided" /\ item.state = "received" => item.key # call[c].key
       /\ call[c].at = "emptied" => call[c].key \notin objects
  /\ item.emptied /\ item.key \in objects => item.key \in mistaken

\* What Undo would put back is what was there.
PriorKept ==
  item.state = "accepted" /\ version[item.filed] = Old /\ doc[Old].since = "nothing" =>
    /\ details.of = item.filed
    /\ item.prior = details.last

AcceptanceInv ==
  /\ TypeOK
  /\ HasBytes /\ OnePlace /\ LeftoversDead
  /\ NotYet /\ CallsSound /\ PriorKept

\* The details of Old are as somebody last left them, or those of the paper
\* filed as its version: Undo never takes anybody's change with it.
DetailsStand ==
  Has(Old) =>
    /\ details.of = None => details.edit = details.last
    /\ details.of # None => version[details.of] = Old

\* A copy some call still has in hand.
InHand(k) ==
  \/ k \in Accepts /\ call[k].at = "unsure"
  \/ k \in Undos /\ undo[k] \in {"copied", "unsure"}

\* Every object is named by a row, or in hand, or was left by a failure the
\* code does not claim to mend; but for one that no failure left.
\* removeObjects writes the item's row by its id alone: a call that read it
\* before an Undo deletes the object it had then, and says so of the one it
\* has now, which the sweep then passes over.
NothingForgotten ==
  \A k \in objects : Named(k) \/ InHand(k) \/ k \in astray \/ k \in mistaken
=============================================================================
