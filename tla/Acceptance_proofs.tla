------------------------- MODULE Acceptance_proofs -------------------------
(***************************************************************************)
(* Proofs about Acceptance: AcceptanceInv is inductive, one lemma for      *)
(* every action; that no object is forgotten and that Undo takes nobody's  *)
(* change with it follow from it, step by step.                            *)
(***************************************************************************)
EXTENDS Acceptance, TLAPS

LEMMA Names ==
  /\ {"received", "accepted", "rejected", "gone"} \subseteq States
  /\ {"never", "open", "over"} \subseteq Windows
  /\ {"new", "asked", "decided", "emptied", "unsure", "over"} \subseteq CallStages
  /\ {"new", "copied", "unsure", "over"} \subseteq UndoStages
  /\ {"none", "live", "trash", "gone"} \subseteq Places
  /\ {"nothing", "own", "more"} \subseteq Doings
BY DEF States, Windows, CallStages, UndoStages, Places, Doings

\* No name stands for two things.
LEMMA Apart ==
  /\ Sent \in ItemKeys /\ Undos \subseteq ItemKeys
  /\ ItemKeys \subseteq Keys /\ Accepts \subseteq Keys
  /\ \A a \in Accepts : a \notin ItemKeys /\ a # Old /\ a # None /\ a # Remove
  /\ \A u \in Undos : u \notin Accepts /\ u # Sent
  /\ Accepts \subseteq Docs /\ Old \in Docs
  /\ Accepts \subseteq Callers /\ Remove \in Callers
  /\ None \notin Docs
BY AcceptanceAssumption DEF ItemKeys, Keys, Docs, Callers

LEMMA ZeroEdits == 0 \in 0..MaxEdits
BY AcceptanceAssumption

LEMMA NewRows ==
  /\ Arrived \in Items /\ NoItem \in Items
  /\ Arrived.state = "received" /\ Arrived.key = Sent /\ ~Arrived.emptied
  /\ NoItem.state = "gone" /\ NoItem.key = Sent /\ ~NoItem.emptied
  /\ Removed \in Documents /\ Removed.at = "gone"
<1>1. Arrived \in Items
  BY ZeroEdits, Names, Apart DEF Arrived, Items
<1>2. /\ Arrived.state = "received" /\ Arrived.key = Sent /\ ~Arrived.emptied
      /\ NoItem = [Arrived EXCEPT !.state = "gone"]
  BY DEF Arrived, NoItem
<1>3. /\ NoItem \in Items
      /\ NoItem.state = "gone" /\ NoItem.key = Sent /\ ~NoItem.emptied
  BY <1>1, <1>2, Names DEF Items
<1>4. Removed \in Documents /\ Removed.at = "gone"
  BY Names DEF Removed, Documents
<1> QED
  BY <1>1, <1>2, <1>3, <1>4

LEMMA FaultsBounded ==
  ASSUME faults \in 0..MaxFaults, Fault \/ Sound
  PROVE  faults' \in 0..MaxFaults
BY AcceptanceAssumption DEF Fault, Sound

\* What a step's change of one call does to every call.
LEMMA CallGoes ==
  ASSUME TypeOK, NEW c \in Callers, NEW s \in CallStages, Goes(c, s)
  PROVE  /\ call' \in [Callers -> [at : CallStages, key : ItemKeys]]
         /\ call'[c].at = s /\ call'[c].key = call[c].key
         /\ \A b \in Callers \ {c} : call'[b] = call[b]
BY DEF TypeOK, Goes

LEMMA CallEnds ==
  ASSUME TypeOK, NEW c \in Callers, Ends(c)
  PROVE  /\ call' \in [Callers -> [at : CallStages, key : ItemKeys]]
         /\ call'[c].at = "over" /\ call'[c].key = Sent
         /\ \A b \in Callers \ {c} : call'[b] = call[b]
BY Names, Apart DEF TypeOK, Ends

LEMMA UndoMoves ==
  ASSUME TypeOK, NEW u \in Undos, NEW s \in UndoStages, UndoGoes(u, s)
  PROVE  /\ undo' \in [Undos -> UndoStages]
         /\ undo'[u] = s
         /\ \A v \in Undos \ {u} : undo'[v] = undo[v]
BY DEF TypeOK, UndoGoes

\* The rows a filing writes.
LEMMA Filing ==
  ASSUME TypeOK, NEW a \in Accepts, NEW into \in {a, Old}, NEW until \in {"never", "open"},
         Files(a, into, until)
  PROVE  /\ item' \in Items
         /\ item'.state = "accepted" /\ item'.filed = a /\ item'.key = item.key
         /\ item'.emptied = item.emptied
         /\ into = Old => item'.prior = details.edit
         /\ doc' \in [Docs -> Documents]
         /\ doc'[into].at = "live" /\ doc'[into].since = "nothing"
         /\ \A d \in Docs \ {into} : doc'[d] = doc[d]
         /\ version' \in [Accepts -> Docs \union {None}]
         /\ version'[a] = into
         /\ \A b \in Accepts \ {a} : version'[b] = version[b]
         /\ details' \in [of : Accepts \union {None}, edit : 0..MaxEdits, last : 0..MaxEdits]
         /\ details'.edit = details.edit /\ details'.last = details.last
         /\ details'.of = IF into = Old THEN a ELSE details.of
<1>1. into \in Docs
  BY Apart
<1>2. /\ item' \in Items
      /\ item'.state = "accepted" /\ item'.filed = a /\ item'.key = item.key
      /\ item'.emptied = item.emptied
      /\ into = Old => item'.prior = details.edit
  BY ZeroEdits, Names DEF TypeOK, Files, Items
<1>3. /\ doc' \in [Docs -> Documents]
      /\ doc'[into].at = "live" /\ doc'[into].since = "nothing"
      /\ \A d \in Docs \ {into} : doc'[d] = doc[d]
  BY <1>1, Names DEF TypeOK, Files, Documents
<1>4. /\ version' \in [Accepts -> Docs \union {None}]
      /\ version'[a] = into
      /\ \A b \in Accepts \ {a} : version'[b] = version[b]
  BY <1>1 DEF TypeOK, Files
<1>5. /\ details' \in [of : Accepts \union {None}, edit : 0..MaxEdits, last : 0..MaxEdits]
      /\ details'.edit = details.edit /\ details'.last = details.last
      /\ details'.of = IF into = Old THEN a ELSE details.of
  BY DEF TypeOK, Files
<1> QED
  BY <1>2, <1>3, <1>4, <1>5

\* The rows an Undo writes.
LEMMA TakingBack ==
  ASSUME TypeOK, OnePlace, NEW u \in Undos, MayTakeBack, TakesBack(u)
  PROVE  /\ item.filed \in Accepts /\ version[item.filed] \in Docs
         /\ item' \in Items
         /\ item'.state = "received" /\ item'.key = u /\ ~item'.emptied
         /\ version' \in [Accepts -> Docs \union {None}]
         /\ version'[item.filed] = None
         /\ \A b \in Accepts \ {item.filed} : version'[b] = version[b]
         /\ doc' \in [Docs -> Documents]
         /\ doc'[Old] = doc[Old]
         /\ details' \in [of : Accepts \union {None}, edit : 0..MaxEdits, last : 0..MaxEdits]
         /\ details'.last = details.last
         /\ IF version[item.filed] = Old
            THEN details'.of = None /\ details'.edit = item.prior
            ELSE details' = details
         /\ leftovers' = leftovers \union Left
         /\ Left \subseteq {item.filed, item.key}
         /\ item.filed \in Left
         /\ ~item.emptied => item.key \in Left
<1>1. item.filed \in Accepts /\ version[item.filed] \in Docs
  BY DEF TypeOK, OnePlace, MayTakeBack
<1>2. /\ item' \in Items
      /\ item'.state = "received" /\ item'.key = u /\ ~item'.emptied
  BY ZeroEdits, Names, Apart DEF TypeOK, TakesBack, Items
<1>3. /\ version' \in [Accepts -> Docs \union {None}]
      /\ version'[item.filed] = None
      /\ \A b \in Accepts \ {item.filed} : version'[b] = version[b]
  BY <1>1 DEF TypeOK, TakesBack
<1>4. doc' \in [Docs -> Documents] /\ doc'[Old] = doc[Old]
  BY <1>1, NewRows, Apart DEF TypeOK, TakesBack
<1>5. /\ details' \in [of : Accepts \union {None}, edit : 0..MaxEdits, last : 0..MaxEdits]
      /\ details'.last = details.last
      /\ IF version[item.filed] = Old
         THEN details'.of = None /\ details'.edit = item.prior
         ELSE details' = details
  BY DEF TypeOK, TakesBack, Items
<1> QED
  BY <1>1, <1>2, <1>3, <1>4, <1>5 DEF TakesBack, Left

LEMMA AcceptKeeps ==
  ASSUME AcceptanceInv, NEW a \in Accepts, Accept(a), DetailsStand
  PROVE  AcceptanceInv'
<1>1. PICK into \in {a, Old}, until \in {"never", "open"} :
        /\ into = Old => doc[Old].at = "live" /\ until = "open"
        /\ Files(a, into, until)
  BY DEF Accept
<1>2. /\ item' \in Items
      /\ item'.state = "accepted" /\ item'.filed = a /\ item'.key = item.key
      /\ item'.emptied = item.emptied
      /\ into = Old => item'.prior = details.edit
      /\ doc' \in [Docs -> Documents]
      /\ version' \in [Accepts -> Docs \union {None}]
      /\ version'[a] = into
      /\ \A b \in Accepts \ {a} : version'[b] = version[b]
      /\ details' \in [of : Accepts \union {None}, edit : 0..MaxEdits, last : 0..MaxEdits]
      /\ details'.last = details.last
      /\ into = Old => details'.of = a
  BY <1>1, Filing DEF AcceptanceInv
<1>3. /\ call' \in [Callers -> [at : CallStages, key : ItemKeys]]
      /\ call'[a].at \notin {"new", "emptied"} /\ call'[a].key \in {Sent, item.key}
      /\ \A b \in Callers \ {a} : call'[b] = call[b]
  BY Names, Apart DEF AcceptanceInv, TypeOK, Items, Accept
<1>4. /\ objects' = objects \union {a} /\ leftovers' = leftovers /\ undo' = undo /\ astray' = astray /\ mistaken' = mistaken
      /\ call[a].at = "new" /\ item.state = "received" /\ item.key \in objects
      /\ into \in Docs /\ (Fault \/ Sound)
  BY <1>1, Apart DEF Accept, MayFile
<1>t. TypeOK'
  BY <1>1, <1>2, <1>3, <1>4, FaultsBounded, NewRows, Apart, Names DEF AcceptanceInv, TypeOK, Items
<1>c1. HasBytes'
  BY <1>1, <1>2, <1>3, <1>4, Apart, NewRows DEF AcceptanceInv, TypeOK, HasBytes, OnePlace, LeftoversDead, NotYet, CallsSound, Items
<1>c2. OnePlace'
  BY <1>1, <1>2, <1>3, <1>4, Apart, NewRows DEF AcceptanceInv, TypeOK, OnePlace, Items
<1>c3. LeftoversDead'
  BY <1>1, <1>2, <1>3, <1>4, Apart, NewRows DEF AcceptanceInv, TypeOK, LeftoversDead, NotYet, OnePlace, Items
<1>c4. NotYet'
  <2>1. ASSUME NEW b \in Accepts, call'[b].at = "new"
        PROVE  version'[b] = None /\ b \notin leftovers'
    BY <2>1, <1>1, <1>2, <1>3, <1>4, Apart DEF AcceptanceInv, NotYet
  <2>2. ASSUME NEW u \in Undos, undo'[u] \in {"new", "copied"}
        PROVE  /\ u \notin leftovers' /\ item'.key # u
               /\ \A b \in Callers : call'[b].key # u
    <3>1. /\ u \notin leftovers /\ item.key # u /\ u # Sent
          /\ \A b \in Callers : call[b].key # u
      BY <2>2, <1>2, <1>3, <1>4, Apart DEF AcceptanceInv, NotYet
    <3>2. u \notin leftovers' /\ item'.key # u
      BY <3>1, <1>2, <1>3, <1>4
    <3>3. ASSUME NEW b \in Callers
          PROVE  call'[b].key # u
      BY <3>1, <1>3, Apart
    <3> QED
      BY <3>2, <3>3
  <2> QED
    BY <2>1, <2>2 DEF NotYet
<1>c5. CallsSound'
  <2>1. \A u \in Undos : undo'[u] = "copied" => u \in objects'
    BY <1>2, <1>3, <1>4, Apart DEF AcceptanceInv, CallsSound, NotYet
  <2>2. ASSUME NEW b \in Callers
        PROVE  /\ call'[b].at = "decided" /\ item'.state = "received" => item'.key # call'[b].key
               /\ call'[b].at = "emptied" => call'[b].key \notin objects'
    BY <1>2, <1>3, <1>4, Apart, NewRows DEF AcceptanceInv, TypeOK, CallsSound, NotYet, Items
  <2>3. item'.emptied /\ item'.key \in objects' => item'.key \in mistaken'
    BY <1>2, <1>3, <1>4, Apart DEF AcceptanceInv, TypeOK, CallsSound, Items
  <2> QED
    BY <2>1, <2>2, <2>3 DEF CallsSound
<1>c6. PriorKept'
  <2>1. CASE into = Old
    <3>1. details.of = None /\ details.edit = details.last
      BY <1>1, <1>4, <2>1, Apart DEF AcceptanceInv, TypeOK, OnePlace, DetailsStand, Has
    <3> QED
      BY <1>2, <2>1, <3>1 DEF PriorKept
  <2>2. CASE into # Old
    BY <1>2, <2>2 DEF PriorKept
  <2> QED
    BY <2>1, <2>2
<1> QED
  BY <1>t, <1>c1, <1>c2, <1>c3, <1>c4, <1>c5, <1>c6 DEF AcceptanceInv

LEMMA AcceptFailsKeeps ==
  ASSUME AcceptanceInv, NEW a \in Accepts, AcceptFails(a)
  PROVE  AcceptanceInv'
<1>1. /\ call' \in [Callers -> [at : CallStages, key : ItemKeys]]
      /\ call'[a].at \in {"unsure", "over"} /\ call'[a].key \in {Sent, call[a].key}
      /\ \A b \in Callers \ {a} : call'[b] = call[b]
  BY CallGoes, CallEnds, Names, Apart DEF AcceptanceInv, AcceptFails
<1>2. /\ UNCHANGED <<item, doc, version, details, leftovers, undo, mistaken>>
      /\ objects' = objects \union {a} /\ astray \subseteq astray' /\ astray' \subseteq astray \union {a}
      /\ Fault
  BY DEF AcceptFails
<1>t. TypeOK'
  BY <1>1, <1>2, FaultsBounded, NewRows, Apart, Names DEF AcceptanceInv, TypeOK, Items
<1>c1. HasBytes'
  BY <1>1, <1>2, Apart, NewRows DEF AcceptanceInv, TypeOK, HasBytes, OnePlace, LeftoversDead, NotYet, CallsSound, Items
<1>c2. OnePlace'
  BY <1>1, <1>2, Apart, NewRows DEF AcceptanceInv, TypeOK, OnePlace, Items
<1>c3. LeftoversDead'
  BY <1>1, <1>2, Apart, NewRows DEF AcceptanceInv, TypeOK, LeftoversDead, NotYet, OnePlace, Items
<1>c4. NotYet'
  <2>1. ASSUME NEW b \in Accepts, call'[b].at = "new"
        PROVE  version'[b] = None /\ b \notin leftovers'
    BY <2>1, <1>1, <1>2, Apart DEF AcceptanceInv, NotYet
  <2>2. ASSUME NEW u \in Undos, undo'[u] \in {"new", "copied"}
        PROVE  /\ u \notin leftovers' /\ item'.key # u
               /\ \A b \in Callers : call'[b].key # u
    <3>1. /\ u \notin leftovers /\ item.key # u /\ u # Sent
          /\ \A b \in Callers : call[b].key # u
      BY <2>2, <1>2, Apart DEF AcceptanceInv, NotYet
    <3>2. u \notin leftovers' /\ item'.key # u
      BY <3>1, <1>2
    <3>3. ASSUME NEW b \in Callers
          PROVE  call'[b].key # u
      BY <3>1, <1>1, Apart
    <3> QED
      BY <3>2, <3>3
  <2> QED
    BY <2>1, <2>2 DEF NotYet
<1>c5. CallsSound'
  BY <1>1, <1>2, Apart, NewRows DEF AcceptanceInv, TypeOK, CallsSound, NotYet, LeftoversDead, HasBytes, Items
<1>c6. PriorKept'
  BY <1>1, <1>2, Apart, NewRows DEF AcceptanceInv, TypeOK, PriorKept, OnePlace, Items
<1> QED
  BY <1>t, <1>c1, <1>c2, <1>c3, <1>c4, <1>c5, <1>c6 DEF AcceptanceInv

LEMMA DropCopyKeeps ==
  ASSUME AcceptanceInv, NEW a \in Accepts, DropCopy(a)
  PROVE  AcceptanceInv'
<1>1. /\ call' \in [Callers -> [at : CallStages, key : ItemKeys]]
      /\ call'[a].at = "over" /\ call'[a].key = Sent
      /\ \A b \in Callers \ {a} : call'[b] = call[b]
  BY CallEnds, Apart DEF AcceptanceInv, DropCopy
<1>2. /\ UNCHANGED <<item, doc, version, details, leftovers, undo, mistaken>>
      /\ objects' \in {objects, objects \ {a}}
      /\ astray \subseteq astray' /\ astray' \subseteq astray \union {a}
      /\ Fault \/ Sound
  BY DEF DropCopy
<1>3. objects' # objects => version[a] = None
  BY DEF AcceptanceInv, TypeOK, Items, States, OnePlace, DropCopy, CopyKept
<1>t. TypeOK'
  BY <1>1, <1>2, <1>3, FaultsBounded, NewRows, Apart, Names DEF AcceptanceInv, TypeOK, Items
<1>c1. HasBytes'
  BY <1>1, <1>2, <1>3, Apart, NewRows DEF AcceptanceInv, TypeOK, HasBytes, OnePlace, LeftoversDead, NotYet, CallsSound, Items
<1>c2. OnePlace'
  BY <1>1, <1>2, <1>3, Apart, NewRows DEF AcceptanceInv, TypeOK, OnePlace, Items
<1>c3. LeftoversDead'
  BY <1>1, <1>2, <1>3, Apart, NewRows DEF AcceptanceInv, TypeOK, LeftoversDead, NotYet, OnePlace, Items
<1>c4. NotYet'
  <2>1. ASSUME NEW b \in Accepts, call'[b].at = "new"
        PROVE  version'[b] = None /\ b \notin leftovers'
    BY <2>1, <1>1, <1>2, Apart DEF AcceptanceInv, NotYet
  <2>2. ASSUME NEW u \in Undos, undo'[u] \in {"new", "copied"}
        PROVE  /\ u \notin leftovers' /\ item'.key # u
               /\ \A b \in Callers : call'[b].key # u
    <3>1. /\ u \notin leftovers /\ item.key # u /\ u # Sent
          /\ \A b \in Callers : call[b].key # u
      BY <2>2, <1>2, Apart DEF AcceptanceInv, NotYet
    <3>2. u \notin leftovers' /\ item'.key # u
      BY <3>1, <1>2
    <3>3. ASSUME NEW b \in Callers
          PROVE  call'[b].key # u
      BY <3>1, <1>1, Apart
    <3> QED
      BY <3>2, <3>3
  <2> QED
    BY <2>1, <2>2 DEF NotYet
<1>c5. CallsSound'
  BY <1>1, <1>2, <1>3, Apart, NewRows DEF AcceptanceInv, TypeOK, CallsSound, NotYet, LeftoversDead, HasBytes, Items
<1>c6. PriorKept'
  BY <1>1, <1>2, <1>3, Apart, NewRows DEF AcceptanceInv, TypeOK, PriorKept, OnePlace, Items
<1> QED
  BY <1>t, <1>c1, <1>c2, <1>c3, <1>c4, <1>c5, <1>c6 DEF AcceptanceInv

LEMMA AskRemoveKeeps ==
  ASSUME AcceptanceInv, AskRemove
  PROVE  AcceptanceInv'
<1>1. /\ call' \in [Callers -> [at : CallStages, key : ItemKeys]]
      /\ call'[Remove].at = "asked" /\ call'[Remove].key = item.key
      /\ \A b \in Callers \ {Remove} : call'[b] = call[b]
  BY Names, Apart DEF AcceptanceInv, TypeOK, Items, AskRemove
<1>2. UNCHANGED <<item, doc, version, details, leftovers, objects, undo, faults, astray, mistaken>>
  BY DEF AskRemove
<1>t. TypeOK'
  BY <1>1, <1>2, FaultsBounded, NewRows, Apart, Names DEF AcceptanceInv, TypeOK, Items
<1>c1. HasBytes'
  BY <1>1, <1>2, Apart, NewRows DEF AcceptanceInv, TypeOK, HasBytes, OnePlace, LeftoversDead, NotYet, CallsSound, Items
<1>c2. OnePlace'
  BY <1>1, <1>2, Apart, NewRows DEF AcceptanceInv, TypeOK, OnePlace, Items
<1>c3. LeftoversDead'
  BY <1>1, <1>2, Apart, NewRows DEF AcceptanceInv, TypeOK, LeftoversDead, NotYet, OnePlace, Items
<1>c4. NotYet'
  BY <1>1, <1>2, Apart, NewRows DEF AcceptanceInv, TypeOK, NotYet, OnePlace, Items
<1>c5. CallsSound'
  BY <1>1, <1>2, Apart, NewRows DEF AcceptanceInv, TypeOK, CallsSound, NotYet, LeftoversDead, HasBytes, Items
<1>c6. PriorKept'
  BY <1>1, <1>2, Apart, NewRows DEF AcceptanceInv, TypeOK, PriorKept, OnePlace, Items
<1> QED
  BY <1>t, <1>c1, <1>c2, <1>c3, <1>c4, <1>c5, <1>c6 DEF AcceptanceInv

LEMMA RejectKeeps ==
  ASSUME AcceptanceInv, Reject
  PROVE  AcceptanceInv'
<1>1. /\ call' \in [Callers -> [at : CallStages, key : ItemKeys]]
      /\ call'[Remove].at \in {"decided", "over"} /\ call'[Remove].key \in {Sent, call[Remove].key}
      /\ \A b \in Callers \ {Remove} : call'[b] = call[b]
  BY CallGoes, CallEnds, Names, Apart DEF AcceptanceInv, Reject
<1>2. /\ UNCHANGED <<doc, version, details, leftovers, objects, undo, faults, astray, mistaken>>
      /\ item' \in Items /\ item'.key = item.key /\ item'.emptied = item.emptied
      /\ \/ item' = item /\ item.state # "received"
         \/ item'.state = "rejected" /\ item.state = "received"
      /\ item.state # "received" => item' = item
  BY Names DEF AcceptanceInv, TypeOK, Items, Reject
<1>t. TypeOK'
  BY <1>1, <1>2, FaultsBounded, NewRows, Apart, Names DEF AcceptanceInv, TypeOK, Items
<1>c1. HasBytes'
  BY <1>1, <1>2, Apart, NewRows DEF AcceptanceInv, TypeOK, HasBytes, OnePlace, LeftoversDead, NotYet, CallsSound, Items
<1>c2. OnePlace'
  BY <1>1, <1>2, Apart, NewRows DEF AcceptanceInv, TypeOK, OnePlace, Items
<1>c3. LeftoversDead'
  BY <1>1, <1>2, Apart, NewRows DEF AcceptanceInv, TypeOK, LeftoversDead, NotYet, OnePlace, Items
<1>c4. NotYet'
  BY <1>1, <1>2, Apart, NewRows DEF AcceptanceInv, TypeOK, NotYet, OnePlace, Items
<1>c5. CallsSound'
  BY <1>1, <1>2, Apart, NewRows DEF AcceptanceInv, TypeOK, CallsSound, NotYet, LeftoversDead, HasBytes, Items
<1>c6. PriorKept'
  BY <1>1, <1>2, Apart, NewRows DEF AcceptanceInv, TypeOK, PriorKept, OnePlace, Items
<1> QED
  BY <1>t, <1>c1, <1>c2, <1>c3, <1>c4, <1>c5, <1>c6 DEF AcceptanceInv

LEMMA RemoveObjectKeeps ==
  ASSUME AcceptanceInv, NEW c \in Callers, RemoveObject(c)
  PROVE  AcceptanceInv'
<1>1. /\ call' \in [Callers -> [at : CallStages, key : ItemKeys]]
      /\ call'[c].at \in {"emptied", "over"} /\ call'[c].key \in {Sent, call[c].key}
      /\ \A b \in Callers \ {c} : call'[b] = call[b]
  BY CallGoes, CallEnds, Names, Apart DEF AcceptanceInv, RemoveObject
<1>2. /\ UNCHANGED <<item, doc, version, details, leftovers, undo, astray, mistaken>>
      /\ objects' \in {objects, objects \ {call[c].key}} /\ call[c].at = "decided"
      /\ Fault \/ Sound
  BY DEF RemoveObject
<1>3. call[c].key \in ItemKeys
  BY DEF AcceptanceInv, TypeOK
<1>4. call'[c].at = "emptied" => call'[c].key = call[c].key /\ call[c].key \notin objects'
  <2>1. CASE Goes(c, "emptied") /\ objects' = objects \ {call[c].key}
    BY <2>1, CallGoes, Names DEF AcceptanceInv
  <2>2. CASE Ends(c)
    BY <2>2, CallEnds DEF AcceptanceInv
  <2> QED
    BY <2>1, <2>2 DEF RemoveObject
<1>t. TypeOK'
  BY <1>1, <1>2, <1>3, FaultsBounded, NewRows, Apart, Names DEF AcceptanceInv, TypeOK, Items
<1>c1. HasBytes'
  BY <1>1, <1>2, <1>3, Apart, NewRows DEF AcceptanceInv, TypeOK, HasBytes, OnePlace, LeftoversDead, NotYet, CallsSound, Items
<1>c2. OnePlace'
  BY <1>1, <1>2, <1>3, Apart, NewRows DEF AcceptanceInv, TypeOK, OnePlace, Items
<1>c3. LeftoversDead'
  BY <1>1, <1>2, <1>3, Apart, NewRows DEF AcceptanceInv, TypeOK, LeftoversDead, NotYet, OnePlace, Items
<1>c4. NotYet'
  <2>1. ASSUME NEW a \in Accepts, call'[a].at = "new"
        PROVE  version'[a] = None /\ a \notin leftovers'
    BY <2>1, <1>1, <1>2, Apart DEF AcceptanceInv, NotYet
  <2>2. ASSUME NEW u \in Undos, undo'[u] \in {"new", "copied"}
        PROVE  /\ u \notin leftovers' /\ item'.key # u
               /\ \A b \in Callers : call'[b].key # u
    <3>1. /\ u \notin leftovers /\ item.key # u /\ u # Sent
          /\ \A b \in Callers : call[b].key # u
      BY <2>2, <1>2, Apart DEF AcceptanceInv, NotYet
    <3>2. u \notin leftovers' /\ item'.key # u
      BY <3>1, <1>2
    <3>3. ASSUME NEW b \in Callers
          PROVE  call'[b].key # u
      BY <3>1, <1>1
    <3> QED
      BY <3>2, <3>3
  <2> QED
    BY <2>1, <2>2 DEF NotYet
<1>c5. CallsSound'
  <2>1. \A u \in Undos : undo'[u] = "copied" => u \in objects'
    BY <1>1, <1>2, <1>3, <1>4, Apart DEF AcceptanceInv, CallsSound, NotYet
  <2>2. ASSUME NEW b \in Callers
        PROVE  /\ call'[b].at = "decided" /\ item'.state = "received" => item'.key # call'[b].key
               /\ call'[b].at = "emptied" => call'[b].key \notin objects'
    BY <1>1, <1>2, <1>3, <1>4, Apart, NewRows DEF AcceptanceInv, TypeOK, CallsSound, NotYet, Items
  <2>3. item'.emptied /\ item'.key \in objects' => item'.key \in mistaken'
    BY <1>1, <1>2, <1>3, <1>4, Apart DEF AcceptanceInv, TypeOK, CallsSound, Items
  <2> QED
    BY <2>1, <2>2, <2>3 DEF CallsSound
<1>c6. PriorKept'
  BY <1>1, <1>2, <1>3, Apart, NewRows DEF AcceptanceInv, TypeOK, PriorKept, OnePlace, Items
<1> QED
  BY <1>t, <1>c1, <1>c2, <1>c3, <1>c4, <1>c5, <1>c6 DEF AcceptanceInv

LEMMA MarkEmptiedKeeps ==
  ASSUME AcceptanceInv, NEW c \in Callers, MarkEmptied(c)
  PROVE  AcceptanceInv'
<1>1. /\ call' \in [Callers -> [at : CallStages, key : ItemKeys]]
      /\ call'[c].at = "over" /\ call'[c].key = Sent
      /\ \A b \in Callers \ {c} : call'[b] = call[b]
  BY CallEnds, Apart DEF AcceptanceInv, MarkEmptied
<1>2. /\ UNCHANGED <<doc, version, details, leftovers, objects, undo, astray>>
      /\ item' \in Items /\ item'.key = item.key /\ item'.state = item.state
      /\ item'.filed = item.filed /\ item'.prior = item.prior
      /\ mistaken \subseteq mistaken' /\ mistaken' \subseteq mistaken \union {item.key}
      /\ item' = item \/ (item.key \in objects => item.key \in mistaken')
      /\ Fault \/ Sound
  BY DEF AcceptanceInv, TypeOK, Items, CallsSound, MarkEmptied
<1>3. call[c].at = "emptied" /\ item.key \in Keys
  BY Apart DEF AcceptanceInv, TypeOK, Items, MarkEmptied
<1>t. TypeOK'
  BY <1>1, <1>2, <1>3, FaultsBounded, NewRows, Apart, Names DEF AcceptanceInv, TypeOK, Items
<1>c1. HasBytes'
  BY <1>1, <1>2, <1>3, Apart, NewRows DEF AcceptanceInv, TypeOK, HasBytes, OnePlace, LeftoversDead, NotYet, CallsSound, Items
<1>c2. OnePlace'
  BY <1>1, <1>2, <1>3, Apart, NewRows DEF AcceptanceInv, TypeOK, OnePlace, Items
<1>c3. LeftoversDead'
  BY <1>1, <1>2, <1>3, Apart, NewRows DEF AcceptanceInv, TypeOK, LeftoversDead, NotYet, OnePlace, Items
<1>c4. NotYet'
  <2>1. ASSUME NEW a \in Accepts, call'[a].at = "new"
        PROVE  version'[a] = None /\ a \notin leftovers'
    BY <2>1, <1>1, <1>2, Apart DEF AcceptanceInv, NotYet
  <2>2. ASSUME NEW u \in Undos, undo'[u] \in {"new", "copied"}
        PROVE  /\ u \notin leftovers' /\ item'.key # u
               /\ \A b \in Callers : call'[b].key # u
    <3>1. /\ u \notin leftovers /\ item.key # u /\ u # Sent
          /\ \A b \in Callers : call[b].key # u
      BY <2>2, <1>2, Apart DEF AcceptanceInv, NotYet
    <3>2. u \notin leftovers' /\ item'.key # u
      BY <3>1, <1>2
    <3>3. ASSUME NEW b \in Callers
          PROVE  call'[b].key # u
      BY <3>1, <1>1
    <3> QED
      BY <3>2, <3>3
  <2> QED
    BY <2>1, <2>2 DEF NotYet
<1>c5. CallsSound'
  <2>1. \A u \in Undos : undo'[u] = "copied" => u \in objects'
    BY <1>1, <1>2, <1>3, Apart DEF AcceptanceInv, CallsSound, NotYet
  <2>2. ASSUME NEW b \in Callers
        PROVE  /\ call'[b].at = "decided" /\ item'.state = "received" => item'.key # call'[b].key
               /\ call'[b].at = "emptied" => call'[b].key \notin objects'
    BY <1>1, <1>2, <1>3, Apart, NewRows DEF AcceptanceInv, TypeOK, CallsSound, NotYet, Items
  <2>3. item'.emptied /\ item'.key \in objects' => item'.key \in mistaken'
    BY <1>1, <1>2, <1>3, Apart DEF AcceptanceInv, TypeOK, CallsSound, Items
  <2> QED
    BY <2>1, <2>2, <2>3 DEF CallsSound
<1>c6. PriorKept'
  BY <1>1, <1>2, <1>3, Apart, NewRows DEF AcceptanceInv, TypeOK, PriorKept, OnePlace, Items
<1> QED
  BY <1>t, <1>c1, <1>c2, <1>c3, <1>c4, <1>c5, <1>c6 DEF AcceptanceInv

LEMMA UndoCopyKeeps ==
  ASSUME AcceptanceInv, NEW u \in Undos, UndoCopy(u)
  PROVE  AcceptanceInv'
<1>1. /\ undo' \in [Undos -> UndoStages] /\ undo'[u] \in {"copied", "over"}
      /\ \A v \in Undos \ {u} : undo'[v] = undo[v]
  BY UndoMoves, Names DEF AcceptanceInv, UndoCopy
<1>2. /\ UNCHANGED <<item, doc, version, details, leftovers, call, mistaken>>
      /\ objects' = objects \union {u} /\ undo[u] = "new"
      /\ astray \subseteq astray' /\ astray' \subseteq astray \union {u}
      /\ Fault \/ Sound
  BY DEF UndoCopy
<1>t. TypeOK'
  BY <1>1, <1>2, FaultsBounded, NewRows, Apart, Names DEF AcceptanceInv, TypeOK, Items
<1>c1. HasBytes'
  BY <1>1, <1>2, Apart, NewRows DEF AcceptanceInv, TypeOK, HasBytes, OnePlace, LeftoversDead, NotYet, CallsSound, Items
<1>c2. OnePlace'
  BY <1>1, <1>2, Apart, NewRows DEF AcceptanceInv, TypeOK, OnePlace, Items
<1>c3. LeftoversDead'
  BY <1>1, <1>2, Apart, NewRows DEF AcceptanceInv, TypeOK, LeftoversDead, NotYet, OnePlace, Items
<1>c4. NotYet'
  BY <1>1, <1>2, Apart, NewRows DEF AcceptanceInv, TypeOK, NotYet, OnePlace, Items
<1>c5. CallsSound'
  BY <1>1, <1>2, Apart, NewRows DEF AcceptanceInv, TypeOK, CallsSound, NotYet, LeftoversDead, HasBytes, Items
<1>c6. PriorKept'
  BY <1>1, <1>2, Apart, NewRows DEF AcceptanceInv, TypeOK, PriorKept, OnePlace, Items
<1> QED
  BY <1>t, <1>c1, <1>c2, <1>c3, <1>c4, <1>c5, <1>c6 DEF AcceptanceInv

LEMMA UndoCommitKeeps ==
  ASSUME AcceptanceInv, NEW u \in Undos, UndoCommit(u)
  PROVE  AcceptanceInv'
<1>1. /\ undo' \in [Undos -> UndoStages] /\ undo'[u] \in {"unsure", "over"}
      /\ \A v \in Undos \ {u} : undo'[v] = undo[v]
  BY UndoMoves, Names DEF AcceptanceInv, UndoCommit
<1>2. /\ UNCHANGED <<objects, call, astray, mistaken>>
      /\ undo[u] = "copied" /\ item.state = "accepted" /\ MayTakeBack /\ TakesBack(u)
      /\ Fault \/ Sound
  BY DEF UndoCommit, MayTakeBack
<1>3. /\ item.filed \in Accepts /\ version[item.filed] \in Docs
      /\ item' \in Items
      /\ item'.state = "received" /\ item'.key = u /\ ~item'.emptied
      /\ version' \in [Accepts -> Docs \union {None}]
      /\ version'[item.filed] = None
      /\ \A b \in Accepts \ {item.filed} : version'[b] = version[b]
      /\ doc' \in [Docs -> Documents]
      /\ details' \in [of : Accepts \union {None}, edit : 0..MaxEdits, last : 0..MaxEdits]
      /\ leftovers' = leftovers \union Left
      /\ Left \subseteq {item.filed, item.key}
  BY <1>2, TakingBack DEF AcceptanceInv
<1>4. item.key \in ItemKeys
  BY DEF AcceptanceInv, TypeOK, Items
<1>t. TypeOK'
  BY <1>1, <1>2, <1>3, <1>4, FaultsBounded, NewRows, Apart, Names DEF AcceptanceInv, TypeOK, Items
<1>c1. HasBytes'
  BY <1>1, <1>2, <1>3, <1>4, Apart, NewRows DEF AcceptanceInv, TypeOK, HasBytes, OnePlace, LeftoversDead, NotYet, CallsSound, Items
<1>c2. OnePlace'
  BY <1>1, <1>2, <1>3, <1>4, Apart, NewRows DEF AcceptanceInv, TypeOK, OnePlace, Items
<1>c3. LeftoversDead'
  BY <1>1, <1>2, <1>3, <1>4, Apart, NewRows DEF AcceptanceInv, TypeOK, LeftoversDead, NotYet, OnePlace, Items
<1>c4. NotYet'
  BY <1>1, <1>2, <1>3, <1>4, Apart, NewRows DEF AcceptanceInv, TypeOK, NotYet, OnePlace, Items
<1>c5. CallsSound'
  BY <1>1, <1>2, <1>3, <1>4, Apart, NewRows DEF AcceptanceInv, TypeOK, CallsSound, NotYet, LeftoversDead, HasBytes, Items
<1>c6. PriorKept'
  BY <1>1, <1>2, <1>3, <1>4, Apart, NewRows DEF AcceptanceInv, TypeOK, PriorKept, OnePlace, Items
<1> QED
  BY <1>t, <1>c1, <1>c2, <1>c3, <1>c4, <1>c5, <1>c6 DEF AcceptanceInv

LEMMA UndoKeptKeeps ==
  ASSUME AcceptanceInv, NEW u \in Undos, UndoKept(u)
  PROVE  AcceptanceInv'
<1>1. /\ undo' \in [Undos -> UndoStages] /\ undo'[u] \in {"over"}
      /\ \A v \in Undos \ {u} : undo'[v] = undo[v]
  BY UndoMoves, Names DEF AcceptanceInv, UndoKept
<1>2. /\ UNCHANGED <<item, doc, version, details, leftovers, call, mistaken>>
      /\ objects' \in {objects, objects \ {u}} /\ undo[u] # "new"
      /\ astray \subseteq astray' /\ astray' \subseteq astray \union {u}
      /\ Fault \/ Sound
  BY DEF UndoKept
<1>3. objects' # objects => item.state = "gone" \/ item.key # u
  BY DEF AcceptanceInv, NotYet, UndoKept
<1>t. TypeOK'
  BY <1>1, <1>2, <1>3, FaultsBounded, NewRows, Apart, Names DEF AcceptanceInv, TypeOK, Items
<1>c1. HasBytes'
  BY <1>1, <1>2, <1>3, Apart, NewRows DEF AcceptanceInv, TypeOK, HasBytes, OnePlace, LeftoversDead, NotYet, CallsSound, Items
<1>c2. OnePlace'
  BY <1>1, <1>2, <1>3, Apart, NewRows DEF AcceptanceInv, TypeOK, OnePlace, Items
<1>c3. LeftoversDead'
  BY <1>1, <1>2, <1>3, Apart, NewRows DEF AcceptanceInv, TypeOK, LeftoversDead, NotYet, OnePlace, Items
<1>c4. NotYet'
  BY <1>1, <1>2, <1>3, Apart, NewRows DEF AcceptanceInv, TypeOK, NotYet, OnePlace, Items
<1>c5. CallsSound'
  BY <1>1, <1>2, <1>3, Apart, NewRows DEF AcceptanceInv, TypeOK, CallsSound, NotYet, LeftoversDead, HasBytes, Items
<1>c6. PriorKept'
  BY <1>1, <1>2, <1>3, Apart, NewRows DEF AcceptanceInv, TypeOK, PriorKept, OnePlace, Items
<1> QED
  BY <1>t, <1>c1, <1>c2, <1>c3, <1>c4, <1>c5, <1>c6 DEF AcceptanceInv

LEMMA UndoFailsKeeps ==
  ASSUME AcceptanceInv, NEW u \in Undos, UndoFails(u)
  PROVE  AcceptanceInv'
<1>1. /\ undo' \in [Undos -> UndoStages] /\ undo'[u] \in {"unsure", "over"}
      /\ \A v \in Undos \ {u} : undo'[v] = undo[v]
  BY UndoMoves, Names DEF AcceptanceInv, UndoFails
<1>2. /\ UNCHANGED <<item, doc, version, details, leftovers, call, mistaken>>
      /\ objects' \in {objects, objects \ {u}} /\ undo[u] # "new"
      /\ astray \subseteq astray' /\ astray' \subseteq astray \union {u}
      /\ Fault \/ Sound
  BY DEF UndoFails
<1>3. objects' # objects => item.state = "gone" \/ item.key # u
  BY DEF AcceptanceInv, NotYet, UndoFails
<1>t. TypeOK'
  BY <1>1, <1>2, <1>3, FaultsBounded, NewRows, Apart, Names DEF AcceptanceInv, TypeOK, Items
<1>c1. HasBytes'
  BY <1>1, <1>2, <1>3, Apart, NewRows DEF AcceptanceInv, TypeOK, HasBytes, OnePlace, LeftoversDead, NotYet, CallsSound, Items
<1>c2. OnePlace'
  BY <1>1, <1>2, <1>3, Apart, NewRows DEF AcceptanceInv, TypeOK, OnePlace, Items
<1>c3. LeftoversDead'
  BY <1>1, <1>2, <1>3, Apart, NewRows DEF AcceptanceInv, TypeOK, LeftoversDead, NotYet, OnePlace, Items
<1>c4. NotYet'
  BY <1>1, <1>2, <1>3, Apart, NewRows DEF AcceptanceInv, TypeOK, NotYet, OnePlace, Items
<1>c5. CallsSound'
  BY <1>1, <1>2, <1>3, Apart, NewRows DEF AcceptanceInv, TypeOK, CallsSound, NotYet, LeftoversDead, HasBytes, Items
<1>c6. PriorKept'
  BY <1>1, <1>2, <1>3, Apart, NewRows DEF AcceptanceInv, TypeOK, PriorKept, OnePlace, Items
<1> QED
  BY <1>t, <1>c1, <1>c2, <1>c3, <1>c4, <1>c5, <1>c6 DEF AcceptanceInv

LEMMA DropUndoCopyKeeps ==
  ASSUME AcceptanceInv, NEW u \in Undos, DropUndoCopy(u)
  PROVE  AcceptanceInv'
<1>1. /\ undo' \in [Undos -> UndoStages] /\ undo'[u] \in {"over"}
      /\ \A v \in Undos \ {u} : undo'[v] = undo[v]
  BY UndoMoves, Names DEF AcceptanceInv, DropUndoCopy
<1>2. /\ UNCHANGED <<item, doc, version, details, leftovers, call, mistaken>>
      /\ objects' \in {objects, objects \ {u}} /\ undo[u] # "new"
      /\ astray \subseteq astray' /\ astray' \subseteq astray \union {u}
      /\ Fault \/ Sound
  BY DEF DropUndoCopy
<1>3. objects' # objects => item.state = "gone" \/ item.key # u
  BY DEF AcceptanceInv, NotYet, DropUndoCopy
<1>t. TypeOK'
  BY <1>1, <1>2, <1>3, FaultsBounded, NewRows, Apart, Names DEF AcceptanceInv, TypeOK, Items
<1>c1. HasBytes'
  BY <1>1, <1>2, <1>3, Apart, NewRows DEF AcceptanceInv, TypeOK, HasBytes, OnePlace, LeftoversDead, NotYet, CallsSound, Items
<1>c2. OnePlace'
  BY <1>1, <1>2, <1>3, Apart, NewRows DEF AcceptanceInv, TypeOK, OnePlace, Items
<1>c3. LeftoversDead'
  BY <1>1, <1>2, <1>3, Apart, NewRows DEF AcceptanceInv, TypeOK, LeftoversDead, NotYet, OnePlace, Items
<1>c4. NotYet'
  BY <1>1, <1>2, <1>3, Apart, NewRows DEF AcceptanceInv, TypeOK, NotYet, OnePlace, Items
<1>c5. CallsSound'
  BY <1>1, <1>2, <1>3, Apart, NewRows DEF AcceptanceInv, TypeOK, CallsSound, NotYet, LeftoversDead, HasBytes, Items
<1>c6. PriorKept'
  BY <1>1, <1>2, <1>3, Apart, NewRows DEF AcceptanceInv, TypeOK, PriorKept, OnePlace, Items
<1> QED
  BY <1>t, <1>c1, <1>c2, <1>c3, <1>c4, <1>c5, <1>c6 DEF AcceptanceInv

LEMMA LateKeeps ==
  ASSUME AcceptanceInv, Late
  PROVE  AcceptanceInv'
<1>1. /\ UNCHANGED <<doc, version, details, leftovers, objects, call, undo, faults, astray, mistaken>>
      /\ item' \in Items /\ item'.key = item.key /\ item'.state = item.state
      /\ item'.filed = item.filed /\ item'.prior = item.prior /\ item'.emptied = item.emptied
  BY Names DEF AcceptanceInv, TypeOK, Items, Late
<1>t. TypeOK'
  BY <1>1, FaultsBounded, NewRows, Apart, Names DEF AcceptanceInv, TypeOK, Items
<1>c1. HasBytes'
  BY <1>1, Apart, NewRows DEF AcceptanceInv, TypeOK, HasBytes, OnePlace, LeftoversDead, NotYet, CallsSound, Items
<1>c2. OnePlace'
  BY <1>1, Apart, NewRows DEF AcceptanceInv, TypeOK, OnePlace, Items
<1>c3. LeftoversDead'
  BY <1>1, Apart, NewRows DEF AcceptanceInv, TypeOK, LeftoversDead, NotYet, OnePlace, Items
<1>c4. NotYet'
  BY <1>1, Apart, NewRows DEF AcceptanceInv, TypeOK, NotYet, OnePlace, Items
<1>c5. CallsSound'
  BY <1>1, Apart, NewRows DEF AcceptanceInv, TypeOK, CallsSound, NotYet, LeftoversDead, HasBytes, Items
<1>c6. PriorKept'
  BY <1>1, Apart, NewRows DEF AcceptanceInv, TypeOK, PriorKept, OnePlace, Items
<1> QED
  BY <1>t, <1>c1, <1>c2, <1>c3, <1>c4, <1>c5, <1>c6 DEF AcceptanceInv

LEMMA EditKeeps ==
  ASSUME AcceptanceInv, NEW d \in Docs, NEW byUploader \in BOOLEAN, Edit(d, byUploader)
  PROVE  AcceptanceInv'
<1>1. /\ UNCHANGED <<item, version, leftovers, objects, call, undo, faults, astray, mistaken>>
      /\ doc' \in [Docs -> Documents]
      /\ doc'[d].since # "nothing"
      /\ \A e \in Docs \ {d} : doc'[e] = doc[e]
  BY Names DEF AcceptanceInv, TypeOK, Documents, Edit, Others, Done
<1>2. /\ details' \in [of : Accepts \union {None}, edit : 0..MaxEdits, last : 0..MaxEdits]
      /\ d # Old => details' = details
  BY AcceptanceAssumption DEF AcceptanceInv, TypeOK, Edit
<1>t. TypeOK'
  BY <1>1, <1>2, FaultsBounded, NewRows, Apart, Names DEF AcceptanceInv, TypeOK, Items
<1>c1. HasBytes'
  BY <1>1, <1>2, Apart, NewRows DEF AcceptanceInv, TypeOK, HasBytes, OnePlace, LeftoversDead, NotYet, CallsSound, Items
<1>c2. OnePlace'
  BY <1>1, <1>2, Apart, NewRows DEF AcceptanceInv, TypeOK, OnePlace, Items
<1>c3. LeftoversDead'
  BY <1>1, <1>2, Apart, NewRows DEF AcceptanceInv, TypeOK, LeftoversDead, NotYet, OnePlace, Items
<1>c4. NotYet'
  BY <1>1, <1>2, Apart, NewRows DEF AcceptanceInv, TypeOK, NotYet, OnePlace, Items
<1>c5. CallsSound'
  BY <1>1, <1>2, Apart, NewRows DEF AcceptanceInv, TypeOK, CallsSound, NotYet, LeftoversDead, HasBytes, Items
<1>c6. PriorKept'
  BY <1>1, <1>2, Apart, NewRows DEF AcceptanceInv, TypeOK, PriorKept, OnePlace, Items
<1> QED
  BY <1>t, <1>c1, <1>c2, <1>c3, <1>c4, <1>c5, <1>c6 DEF AcceptanceInv

LEMMA ReachKeeps ==
  ASSUME AcceptanceInv, NEW d \in Docs, Reach(d)
  PROVE  AcceptanceInv'
<1>1. /\ UNCHANGED <<item, version, leftovers, objects, call, undo, faults, astray, mistaken>>
      /\ doc' \in [Docs -> Documents]
      /\ doc'[d].since # "nothing"
      /\ \A e \in Docs \ {d} : doc'[e] = doc[e]
  BY Names DEF AcceptanceInv, TypeOK, Documents, Reach, Others
<1>2. details' = details
  BY DEF Reach
<1>t. TypeOK'
  BY <1>1, <1>2, FaultsBounded, NewRows, Apart, Names DEF AcceptanceInv, TypeOK, Items
<1>c1. HasBytes'
  BY <1>1, <1>2, Apart, NewRows DEF AcceptanceInv, TypeOK, HasBytes, OnePlace, LeftoversDead, NotYet, CallsSound, Items
<1>c2. OnePlace'
  BY <1>1, <1>2, Apart, NewRows DEF AcceptanceInv, TypeOK, OnePlace, Items
<1>c3. LeftoversDead'
  BY <1>1, <1>2, Apart, NewRows DEF AcceptanceInv, TypeOK, LeftoversDead, NotYet, OnePlace, Items
<1>c4. NotYet'
  BY <1>1, <1>2, Apart, NewRows DEF AcceptanceInv, TypeOK, NotYet, OnePlace, Items
<1>c5. CallsSound'
  BY <1>1, <1>2, Apart, NewRows DEF AcceptanceInv, TypeOK, CallsSound, NotYet, LeftoversDead, HasBytes, Items
<1>c6. PriorKept'
  BY <1>1, <1>2, Apart, NewRows DEF AcceptanceInv, TypeOK, PriorKept, OnePlace, Items
<1> QED
  BY <1>t, <1>c1, <1>c2, <1>c3, <1>c4, <1>c5, <1>c6 DEF AcceptanceInv

LEMMA TrashKeeps ==
  ASSUME AcceptanceInv, NEW d \in Docs, NEW byUploader \in BOOLEAN, Trash(d, byUploader)
  PROVE  AcceptanceInv'
<1>1. /\ UNCHANGED <<item, version, leftovers, objects, call, undo, faults, astray, mistaken>>
      /\ doc' \in [Docs -> Documents]
      /\ doc'[d].since # "nothing"
      /\ \A e \in Docs \ {d} : doc'[e] = doc[e]
  BY Names DEF AcceptanceInv, TypeOK, Documents, Trash, Others, Done
<1>2. details' = details
  BY DEF Trash
<1>t. TypeOK'
  BY <1>1, <1>2, FaultsBounded, NewRows, Apart, Names DEF AcceptanceInv, TypeOK, Items
<1>c1. HasBytes'
  BY <1>1, <1>2, Apart, NewRows DEF AcceptanceInv, TypeOK, HasBytes, OnePlace, LeftoversDead, NotYet, CallsSound, Items
<1>c2. OnePlace'
  BY <1>1, <1>2, Apart, NewRows DEF AcceptanceInv, TypeOK, OnePlace, Items
<1>c3. LeftoversDead'
  BY <1>1, <1>2, Apart, NewRows DEF AcceptanceInv, TypeOK, LeftoversDead, NotYet, OnePlace, Items
<1>c4. NotYet'
  BY <1>1, <1>2, Apart, NewRows DEF AcceptanceInv, TypeOK, NotYet, OnePlace, Items
<1>c5. CallsSound'
  BY <1>1, <1>2, Apart, NewRows DEF AcceptanceInv, TypeOK, CallsSound, NotYet, LeftoversDead, HasBytes, Items
<1>c6. PriorKept'
  BY <1>1, <1>2, Apart, NewRows DEF AcceptanceInv, TypeOK, PriorKept, OnePlace, Items
<1> QED
  BY <1>t, <1>c1, <1>c2, <1>c3, <1>c4, <1>c5, <1>c6 DEF AcceptanceInv

LEMMA BringBackKeeps ==
  ASSUME AcceptanceInv, NEW d \in Docs, NEW byUploader \in BOOLEAN, BringBack(d, byUploader)
  PROVE  AcceptanceInv'
<1>1. /\ UNCHANGED <<item, version, leftovers, objects, call, undo, faults, astray, mistaken>>
      /\ doc' \in [Docs -> Documents]
      /\ doc'[d].since # "nothing"
      /\ \A e \in Docs \ {d} : doc'[e] = doc[e]
  BY Names DEF AcceptanceInv, TypeOK, Documents, BringBack, Others, Done
<1>2. details' = details
  BY DEF BringBack
<1>t. TypeOK'
  BY <1>1, <1>2, FaultsBounded, NewRows, Apart, Names DEF AcceptanceInv, TypeOK, Items
<1>c1. HasBytes'
  BY <1>1, <1>2, Apart, NewRows DEF AcceptanceInv, TypeOK, HasBytes, OnePlace, LeftoversDead, NotYet, CallsSound, Items
<1>c2. OnePlace'
  BY <1>1, <1>2, Apart, NewRows DEF AcceptanceInv, TypeOK, OnePlace, Items
<1>c3. LeftoversDead'
  BY <1>1, <1>2, Apart, NewRows DEF AcceptanceInv, TypeOK, LeftoversDead, NotYet, OnePlace, Items
<1>c4. NotYet'
  BY <1>1, <1>2, Apart, NewRows DEF AcceptanceInv, TypeOK, NotYet, OnePlace, Items
<1>c5. CallsSound'
  BY <1>1, <1>2, Apart, NewRows DEF AcceptanceInv, TypeOK, CallsSound, NotYet, LeftoversDead, HasBytes, Items
<1>c6. PriorKept'
  BY <1>1, <1>2, Apart, NewRows DEF AcceptanceInv, TypeOK, PriorKept, OnePlace, Items
<1> QED
  BY <1>t, <1>c1, <1>c2, <1>c3, <1>c4, <1>c5, <1>c6 DEF AcceptanceInv

LEMMA PurgeKeeps ==
  ASSUME AcceptanceInv, NEW d \in Docs, Purge(d)
  PROVE  AcceptanceInv'
<1>1. /\ doc' \in [Docs -> Documents] /\ \A e \in Docs \ {d} : doc'[e] = doc[e]
      /\ version' \in [Accepts -> Docs \union {None}]
      /\ \A a \in Accepts : version'[a] = IF version[a] = d THEN None ELSE version[a]
      /\ UNCHANGED <<details, objects, call, undo, faults, astray, mistaken>>
  BY NewRows DEF AcceptanceInv, TypeOK, Purge
<1>2. \/ /\ item' = NoItem /\ item.state = "accepted" /\ item.filed \in Accepts
         /\ version[item.filed] = d
         /\ leftovers' = leftovers \union {a \in Accepts : version[a] = d} \union Leaves
      \/ /\ item' = item
         /\ item.state = "accepted" => ~(item.filed \in Accepts /\ version[item.filed] = d)
         /\ leftovers' = leftovers \union {a \in Accepts : version[a] = d}
  BY DEF Purge
<1>3. item.key \in ItemKeys /\ Leaves \subseteq {item.key}
  BY DEF AcceptanceInv, TypeOK, Items, Leaves
<1>t. TypeOK'
  BY <1>1, <1>2, <1>3, FaultsBounded, NewRows, Apart, Names DEF AcceptanceInv, TypeOK, Items
<1>c1. HasBytes'
  BY <1>1, <1>2, <1>3, Apart, NewRows DEF AcceptanceInv, TypeOK, HasBytes, OnePlace, LeftoversDead, NotYet, CallsSound, Items
<1>c2. OnePlace'
  BY <1>1, <1>2, <1>3, Apart, NewRows DEF AcceptanceInv, TypeOK, OnePlace, Items
<1>c3. LeftoversDead'
  BY <1>1, <1>2, <1>3, Apart, NewRows DEF AcceptanceInv, TypeOK, LeftoversDead, NotYet, OnePlace, Items
<1>c4. NotYet'
  BY <1>1, <1>2, <1>3, Apart, NewRows DEF AcceptanceInv, TypeOK, NotYet, OnePlace, Items
<1>c5. CallsSound'
  BY <1>1, <1>2, <1>3, Apart, NewRows DEF AcceptanceInv, TypeOK, CallsSound, NotYet, LeftoversDead, HasBytes, Items
<1>c6. PriorKept'
  BY <1>1, <1>2, <1>3, Apart, NewRows DEF AcceptanceInv, TypeOK, PriorKept, OnePlace, Items
<1> QED
  BY <1>t, <1>c1, <1>c2, <1>c3, <1>c4, <1>c5, <1>c6 DEF AcceptanceInv

LEMMA RemoveBatchKeeps ==
  ASSUME AcceptanceInv, RemoveBatch
  PROVE  AcceptanceInv'
<1>1. /\ item' = NoItem /\ item.state # "gone"
      /\ leftovers' = leftovers \union Leaves /\ Leaves \subseteq {item.key}
      /\ UNCHANGED <<doc, version, details, objects, call, undo, faults, astray, mistaken>>
  BY DEF RemoveBatch, Leaves
<1>2. item.key \in ItemKeys
  BY DEF AcceptanceInv, TypeOK, Items
<1>t. TypeOK'
  BY <1>1, <1>2, FaultsBounded, NewRows, Apart, Names DEF AcceptanceInv, TypeOK, Items
<1>c1. HasBytes'
  BY <1>1, <1>2, Apart, NewRows DEF AcceptanceInv, TypeOK, HasBytes, OnePlace, LeftoversDead, NotYet, CallsSound, Items
<1>c2. OnePlace'
  BY <1>1, <1>2, Apart, NewRows DEF AcceptanceInv, TypeOK, OnePlace, Items
<1>c3. LeftoversDead'
  BY <1>1, <1>2, Apart, NewRows DEF AcceptanceInv, TypeOK, LeftoversDead, NotYet, OnePlace, Items
<1>c4. NotYet'
  BY <1>1, <1>2, Apart, NewRows DEF AcceptanceInv, TypeOK, NotYet, OnePlace, Items
<1>c5. CallsSound'
  BY <1>1, <1>2, Apart, NewRows DEF AcceptanceInv, TypeOK, CallsSound, NotYet, LeftoversDead, HasBytes, Items
<1>c6. PriorKept'
  BY <1>1, <1>2, Apart, NewRows DEF AcceptanceInv, TypeOK, PriorKept, OnePlace, Items
<1> QED
  BY <1>t, <1>c1, <1>c2, <1>c3, <1>c4, <1>c5, <1>c6 DEF AcceptanceInv

LEMMA SweepItemKeeps ==
  ASSUME AcceptanceInv, SweepItem
  PROVE  AcceptanceInv'
<1>1. /\ UNCHANGED <<doc, version, details, leftovers, call, undo, faults, astray, mistaken>>
      /\ item' \in Items /\ item'.key = item.key /\ item'.state = item.state
      /\ item'.filed = item.filed /\ item'.prior = item.prior
      /\ item.state \in {"accepted", "rejected"}
  BY DEF AcceptanceInv, TypeOK, Items, SweepItem
<1>2. /\ item.key \notin objects'
      /\ \A k \in objects \ {item.key} : k \in objects'
      /\ \A k \in objects' : k \in objects \/ (item.state = "accepted" /\ k = item.filed)
  BY DEF SweepItem
<1>3. item.key \in ItemKeys /\ (item.state = "accepted" => item.filed \in Accepts)
  BY DEF AcceptanceInv, TypeOK, Items, OnePlace
<1>t. TypeOK'
  BY <1>1, <1>2, <1>3, FaultsBounded, NewRows, Apart, Names DEF AcceptanceInv, TypeOK, Items
<1>c1. HasBytes'
  BY <1>1, <1>2, <1>3, Apart, NewRows DEF AcceptanceInv, TypeOK, HasBytes, OnePlace, LeftoversDead, NotYet, CallsSound, Items
<1>c2. OnePlace'
  BY <1>1, <1>2, <1>3, Apart, NewRows DEF AcceptanceInv, TypeOK, OnePlace, Items
<1>c3. LeftoversDead'
  BY <1>1, <1>2, <1>3, Apart, NewRows DEF AcceptanceInv, TypeOK, LeftoversDead, NotYet, OnePlace, Items
<1>c4. NotYet'
  BY <1>1, <1>2, <1>3, Apart, NewRows DEF AcceptanceInv, TypeOK, NotYet, OnePlace, Items
<1>c5. CallsSound'
  BY <1>1, <1>2, <1>3, Apart, NewRows DEF AcceptanceInv, TypeOK, CallsSound, NotYet, LeftoversDead, HasBytes, Items
<1>c6. PriorKept'
  BY <1>1, <1>2, <1>3, Apart, NewRows DEF AcceptanceInv, TypeOK, PriorKept, OnePlace, Items
<1> QED
  BY <1>t, <1>c1, <1>c2, <1>c3, <1>c4, <1>c5, <1>c6 DEF AcceptanceInv

LEMMA SweepLeftoverKeeps ==
  ASSUME AcceptanceInv, NEW k \in Keys, SweepLeftover(k)
  PROVE  AcceptanceInv'
<1>1. /\ UNCHANGED <<item, doc, version, details, call, undo, faults, astray, mistaken>>
      /\ k \in leftovers /\ leftovers' = leftovers \ {k} /\ objects' = objects \ {k}
  BY DEF SweepLeftover
<1>t. TypeOK'
  BY <1>1, FaultsBounded, NewRows, Apart, Names DEF AcceptanceInv, TypeOK, Items
<1>c1. HasBytes'
  BY <1>1, Apart, NewRows DEF AcceptanceInv, TypeOK, HasBytes, OnePlace, LeftoversDead, NotYet, CallsSound, Items
<1>c2. OnePlace'
  BY <1>1, Apart, NewRows DEF AcceptanceInv, TypeOK, OnePlace, Items
<1>c3. LeftoversDead'
  BY <1>1, Apart, NewRows DEF AcceptanceInv, TypeOK, LeftoversDead, NotYet, OnePlace, Items
<1>c4. NotYet'
  BY <1>1, Apart, NewRows DEF AcceptanceInv, TypeOK, NotYet, OnePlace, Items
<1>c5. CallsSound'
  BY <1>1, Apart, NewRows DEF AcceptanceInv, TypeOK, CallsSound, NotYet, LeftoversDead, HasBytes, Items
<1>c6. PriorKept'
  BY <1>1, Apart, NewRows DEF AcceptanceInv, TypeOK, PriorKept, OnePlace, Items
<1> QED
  BY <1>t, <1>c1, <1>c2, <1>c3, <1>c4, <1>c5, <1>c6 DEF AcceptanceInv

LEMMA AtFirst ==
  ASSUME Init
  PROVE  AcceptanceInv /\ DetailsStand /\ NothingForgotten
<1>1. TypeOK
  <2>1. item \in Items /\ item.key = Sent /\ item.state = "received" /\ ~item.emptied
    BY NewRows DEF Init
  <2>2. doc \in [Docs -> Documents]
    BY Names DEF Init, Documents
  <2>3. call \in [Callers -> [at : CallStages, key : ItemKeys]] /\ undo \in [Undos -> UndoStages]
    BY Names, Apart DEF Init
  <2>4. details \in [of : Accepts \union {None}, edit : 0..MaxEdits, last : 0..MaxEdits]
    BY ZeroEdits DEF Init
  <2>5. faults \in 0..MaxFaults
    BY AcceptanceAssumption DEF Init
  <2> QED
    BY <2>1, <2>2, <2>3, <2>4, <2>5, Apart DEF Init, TypeOK
<1>2. HasBytes /\ OnePlace /\ LeftoversDead
  BY NewRows DEF Init, HasBytes, OnePlace, LeftoversDead
<1>3. NotYet
  BY NewRows, Apart DEF Init, NotYet
<1>4. CallsSound /\ PriorKept
  BY NewRows DEF Init, CallsSound, PriorKept
<1>5. DetailsStand
  BY DEF Init, DetailsStand
<1>6. NothingForgotten
  BY NewRows DEF Init, NothingForgotten, Named
<1> QED
  BY <1>1, <1>2, <1>3, <1>4, <1>5, <1>6 DEF AcceptanceInv

LEMMA InvKept ==
  ASSUME AcceptanceInv, DetailsStand, [Next]_vars
  PROVE  AcceptanceInv'
<1>1. CASE UNCHANGED vars
  BY <1>1 DEF vars, AcceptanceInv, TypeOK, HasBytes, OnePlace, LeftoversDead, NotYet,
     CallsSound, PriorKept
<1>2. ASSUME NEW a \in Accepts, Accept(a) \/ AcceptFails(a) \/ DropCopy(a)
      PROVE  AcceptanceInv'
  BY <1>2, AcceptKeeps, AcceptFailsKeeps, DropCopyKeeps
<1>3. ASSUME NEW c \in Callers, RemoveObject(c) \/ MarkEmptied(c)
      PROVE  AcceptanceInv'
  BY <1>3, RemoveObjectKeeps, MarkEmptiedKeeps
<1>4. ASSUME NEW u \in Undos, \/ UndoCopy(u) \/ UndoCommit(u) \/ UndoKept(u)
                              \/ UndoFails(u) \/ DropUndoCopy(u)
      PROVE  AcceptanceInv'
  BY <1>4, UndoCopyKeeps, UndoCommitKeeps, UndoKeptKeeps, UndoFailsKeeps, DropUndoCopyKeeps
<1>5. ASSUME NEW d \in Docs, Reach(d) \/ Purge(d)
      PROVE  AcceptanceInv'
  BY <1>5, ReachKeeps, PurgeKeeps
<1>6. ASSUME NEW d \in Docs, NEW byUploader \in BOOLEAN,
             Edit(d, byUploader) \/ Trash(d, byUploader) \/ BringBack(d, byUploader)
      PROVE  AcceptanceInv'
  BY <1>6, EditKeeps, TrashKeeps, BringBackKeeps
<1>7. ASSUME NEW k \in Keys, SweepLeftover(k)
      PROVE  AcceptanceInv'
  BY <1>7, SweepLeftoverKeeps
<1>8. CASE AskRemove \/ Reject \/ Late \/ RemoveBatch \/ SweepItem
  BY <1>8, AskRemoveKeeps, RejectKeeps, LateKeeps, RemoveBatchKeeps, SweepItemKeeps
<1> QED
  BY <1>1, <1>2, <1>3, <1>4, <1>5, <1>6, <1>7, <1>8 DEF Next

\* Nobody's change to the details is lost by any step.
LEMMA DetailsStep ==
  ASSUME AcceptanceInv, DetailsStand, [Next]_vars
  PROVE  DetailsStand'
<1>1. ASSUME NEW a \in Accepts, Accept(a)
      PROVE  DetailsStand'
  <2>1. PICK into \in {a, Old}, until \in {"never", "open"} :
          /\ into = Old => doc[Old].at = "live"
          /\ Files(a, into, until)
    BY <1>1 DEF Accept
  <2>2. /\ version'[a] = into
        /\ \A b \in Accepts \ {a} : version'[b] = version[b]
        /\ into # Old => doc'[Old] = doc[Old]
        /\ details'.edit = details.edit /\ details'.last = details.last
        /\ details'.of = IF into = Old THEN a ELSE details.of
    BY <2>1, Filing, Apart DEF AcceptanceInv
  <2>3. version[a] = None /\ details.of \in Accepts \union {None} /\ None # Old
    BY <1>1, Apart DEF AcceptanceInv, TypeOK, NotYet, Accept, MayFile
  <2>4. CASE into = Old
    BY <2>2, <2>4, Apart DEF DetailsStand
  <2>5. CASE into # Old
    BY <2>2, <2>3, <2>5 DEF DetailsStand, Has
  <2> QED
    BY <2>4, <2>5
<1>2. ASSUME NEW u \in Undos, UndoCommit(u)
      PROVE  DetailsStand'
  <2>1. MayTakeBack /\ TakesBack(u) /\ item.state = "accepted"
    BY <1>2 DEF UndoCommit, MayTakeBack
  <2>2. /\ item.filed \in Accepts
        /\ \A b \in Accepts \ {item.filed} : version'[b] = version[b]
        /\ doc'[Old] = doc[Old]
        /\ details'.last = details.last
        /\ IF version[item.filed] = Old
           THEN details'.of = None /\ details'.edit = item.prior
           ELSE details' = details
    BY <2>1, TakingBack DEF AcceptanceInv
  <2>3. CASE version[item.filed] = Old
    <3>1. item.prior = details.last
      BY <2>1, <2>3 DEF AcceptanceInv, PriorKept, MayTakeBack
    <3> QED
      BY <2>2, <2>3, <3>1 DEF DetailsStand
  <2>4. CASE version[item.filed] # Old
    <3>1. details.of \in Accepts \union {None}
      BY DEF AcceptanceInv, TypeOK
    <3> QED
      BY <2>2, <2>4, <3>1 DEF DetailsStand, Has
  <2> QED
    BY <2>3, <2>4
<1>3. ASSUME NEW d \in Docs, Purge(d)
      PROVE  DetailsStand'
  <2>1. /\ \A e \in Docs \ {d} : doc'[e] = doc[e]
        /\ doc'[d] = Removed
        /\ \A a \in Accepts : version'[a] = IF version[a] = d THEN None ELSE version[a]
        /\ details' = details
    BY <1>3 DEF AcceptanceInv, TypeOK, Purge
  <2>2. CASE d = Old
    BY <2>1, <2>2, NewRows DEF DetailsStand, Has
  <2>3. CASE d # Old
    <3>1. details.of \in Accepts \union {None}
      BY DEF AcceptanceInv, TypeOK
    <3> QED
      BY <2>1, <2>3, <3>1, Apart DEF DetailsStand, Has
  <2> QED
    BY <2>2, <2>3
<1>4. ASSUME NEW d \in Docs, NEW byUploader \in BOOLEAN, Edit(d, byUploader)
      PROVE  DetailsStand'
  <2>1. \/ d = Old /\ details'.of = None /\ details'.edit = details'.last
        \/ d # Old /\ details' = details
    BY <1>4 DEF Edit
  <2>2. version' = version /\ \A e \in Docs \ {d} : doc'[e] = doc[e]
    BY <1>4 DEF AcceptanceInv, TypeOK, Edit, Others
  <2> QED
    BY <2>1, <2>2, Apart DEF DetailsStand, Has
<1>5. ASSUME NEW d \in Docs, NEW byUploader \in BOOLEAN,
             Reach(d) \/ Trash(d, byUploader) \/ BringBack(d, byUploader)
      PROVE  DetailsStand'
  <2>1. details' = details /\ version' = version
    BY <1>5 DEF Reach, Trash, BringBack, Others
  <2>2. Has(Old)' => Has(Old)
    BY <1>5, Apart DEF AcceptanceInv, TypeOK, Documents, Has, Reach, Trash, BringBack
  <2> QED
    BY <2>1, <2>2 DEF DetailsStand
<1>6. ASSUME UNCHANGED <<doc, version, details>>
      PROVE  DetailsStand'
  BY <1>6 DEF DetailsStand, Has
<1>7. ASSUME NEW a \in Accepts, AcceptFails(a) \/ DropCopy(a)
      PROVE  UNCHANGED <<doc, version, details>>
  BY <1>7 DEF AcceptFails, DropCopy
<1>8. ASSUME NEW c \in Callers, RemoveObject(c) \/ MarkEmptied(c)
      PROVE  UNCHANGED <<doc, version, details>>
  BY <1>8 DEF RemoveObject, MarkEmptied
<1>9. ASSUME NEW u \in Undos, UndoCopy(u) \/ UndoKept(u) \/ UndoFails(u) \/ DropUndoCopy(u)
      PROVE  UNCHANGED <<doc, version, details>>
  BY <1>9 DEF UndoCopy, UndoKept, UndoFails, DropUndoCopy
<1>10. ASSUME NEW k \in Keys, SweepLeftover(k)
       PROVE  UNCHANGED <<doc, version, details>>
  BY <1>10 DEF SweepLeftover
<1>11. CASE AskRemove \/ Reject \/ Late \/ RemoveBatch \/ SweepItem \/ UNCHANGED vars
  BY <1>6, <1>11 DEF AskRemove, Reject, Late, RemoveBatch, SweepItem, vars
<1> QED
  BY <1>1, <1>2, <1>3, <1>4, <1>5, <1>6, <1>7, <1>8, <1>9, <1>10, <1>11 DEF Next

\* No step forgets an object: one lemma a group of actions.
LEMMA FilingForgetsNothing ==
  ASSUME AcceptanceInv, NothingForgotten, NEW a \in Accepts,
         Accept(a) \/ AcceptFails(a) \/ DropCopy(a)
  PROVE  NothingForgotten'
<1>0. /\ a \in Keys /\ a \in Callers /\ a \notin Undos
      /\ \A b \in Accepts : b \in Callers
  BY Apart
<1>1. ASSUME Accept(a)
      PROVE  NothingForgotten'
  <2>1. PICK into \in {a, Old}, until \in {"never", "open"} : Files(a, into, until)
    BY <1>1 DEF Accept
  <2>2. /\ item'.state = "accepted" /\ item'.key = item.key /\ item'.emptied = item.emptied
        /\ version'[a] # None
        /\ \A b \in Accepts \ {a} : version'[b] = version[b]
    BY <2>1, Filing, Apart DEF AcceptanceInv
  <2>3. /\ objects' = objects \union {a} /\ UNCHANGED <<leftovers, undo, astray, mistaken>>
        /\ item.state = "received"
        /\ \A b \in Callers \ {a} : call'[b] = call[b]
    BY <1>1, <1>0 DEF AcceptanceInv, TypeOK, Accept, MayFile
  <2>4. ASSUME NEW k \in objects', k # a
        PROVE  (Named(k) \/ InHand(k) \/ k \in astray \/ k \in mistaken)'
    <3>1. Named(k) \/ InHand(k) \/ k \in astray \/ k \in mistaken
      BY <2>3, <2>4 DEF NothingForgotten
    <3>2. Named(k) => Named(k)'
      BY <2>2, <2>3, <2>4 DEF Named
    <3>3. InHand(k) => InHand(k)'
      BY <1>0, <2>3, <2>4 DEF InHand
    <3> QED
      BY <2>3, <3>1, <3>2, <3>3
  <2>5. Named(a)'
    BY <2>2 DEF Named
  <2> QED
    BY <2>4, <2>5 DEF NothingForgotten
<1>2. ASSUME AcceptFails(a)
      PROVE  NothingForgotten'
  <2>1. /\ objects' = objects \union {a} /\ UNCHANGED <<item, version, leftovers, undo, mistaken>>
        /\ astray \subseteq astray'
        /\ call'[a].at = "unsure" \/ a \in astray'
        /\ \A b \in Callers \ {a} : call'[b] = call[b]
    BY <1>2, <1>0 DEF AcceptanceInv, TypeOK, AcceptFails, Goes, Ends
  <2>2. ASSUME NEW k \in objects', k # a
        PROVE  (Named(k) \/ InHand(k) \/ k \in astray \/ k \in mistaken)'
    <3>1. Named(k) \/ InHand(k) \/ k \in astray \/ k \in mistaken
      BY <2>1, <2>2 DEF NothingForgotten
    <3>2. (Named(k) => Named(k)') /\ (InHand(k) => InHand(k)')
      BY <1>0, <2>1, <2>2 DEF Named, InHand
    <3> QED
      BY <2>1, <3>1, <3>2
  <2>3. (InHand(a) \/ a \in astray)'
    BY <2>1 DEF InHand
  <2> QED
    BY <2>2, <2>3 DEF NothingForgotten
<1>3. ASSUME DropCopy(a)
      PROVE  NothingForgotten'
  <2>1. /\ UNCHANGED <<item, version, leftovers, undo, mistaken>>
        /\ objects' \subseteq objects /\ astray \subseteq astray'
        /\ a \in objects' => Named(a) \/ a \in astray'
        /\ \A b \in Callers \ {a} : call'[b] = call[b]
    BY <1>3, <1>0 DEF AcceptanceInv, TypeOK, DropCopy, Ends
  <2>2. \A k : Named(k) => Named(k)'
    BY <2>1 DEF Named
  <2>3. ASSUME NEW k \in objects', k # a
        PROVE  (Named(k) \/ InHand(k) \/ k \in astray \/ k \in mistaken)'
    <3>1. Named(k) \/ InHand(k) \/ k \in astray \/ k \in mistaken
      BY <2>1, <2>3 DEF NothingForgotten
    <3>2. InHand(k) => InHand(k)'
      BY <1>0, <2>1, <2>3 DEF InHand
    <3> QED
      BY <2>1, <2>2, <3>1, <3>2
  <2> QED
    BY <2>1, <2>2, <2>3 DEF NothingForgotten
<1> QED
  BY <1>1, <1>2, <1>3

LEMMA RefusingForgetsNothing ==
  ASSUME AcceptanceInv, NothingForgotten,
         \/ AskRemove \/ Reject
         \/ \E c \in Callers : RemoveObject(c) \/ MarkEmptied(c)
  PROVE  NothingForgotten'
<1>1. CASE AskRemove \/ Reject
  <2>1. /\ UNCHANGED <<version, leftovers, objects, undo, astray, mistaken>>
        /\ item'.key = item.key /\ item'.emptied = item.emptied
        /\ item.state # "gone" => item'.state # "gone"
        /\ \A b \in Accepts : call'[b] = call[b]
    BY <1>1, Apart DEF AcceptanceInv, TypeOK, Items, AskRemove, Reject, Goes, Ends
  <2> QED
    BY <2>1 DEF NothingForgotten, Named, InHand
<1>2. ASSUME NEW c \in Callers, RemoveObject(c)
      PROVE  NothingForgotten'
  <2>1. /\ UNCHANGED <<item, version, leftovers, undo, astray, mistaken>>
        /\ objects' \subseteq objects
        /\ call[c].at # "unsure"
        /\ \A b \in Callers \ {c} : call'[b] = call[b]
    BY <1>2 DEF AcceptanceInv, TypeOK, RemoveObject, Goes, Ends
  <2> QED
    BY <2>1, Apart DEF NothingForgotten, Named, InHand
<1>3. ASSUME NEW c \in Callers, MarkEmptied(c)
      PROVE  NothingForgotten'
  <2>1. /\ UNCHANGED <<version, leftovers, objects, undo, astray>>
        /\ item'.key = item.key /\ item'.state = item.state
        /\ mistaken \subseteq mistaken'
        /\ item' = item \/ (item.key \in objects => item.key \in mistaken')
        /\ call[c].at # "unsure"
        /\ \A b \in Callers \ {c} : call'[b] = call[b]
    BY <1>3 DEF AcceptanceInv, TypeOK, Items, CallsSound, MarkEmptied, Ends
  <2>2. \A k : InHand(k) => InHand(k)'
    BY <2>1, Apart DEF InHand
  <2>3. \A k \in objects : Named(k) => Named(k)' \/ k \in mistaken'
    BY <2>1 DEF Named
  <2> QED
    BY <2>1, <2>2, <2>3 DEF NothingForgotten
<1> QED
  BY <1>1, <1>2, <1>3

LEMMA UndoForgetsNothing ==
  ASSUME AcceptanceInv, NothingForgotten, NEW u \in Undos,
         UndoCopy(u) \/ UndoCommit(u) \/ UndoKept(u) \/ UndoFails(u) \/ DropUndoCopy(u)
  PROVE  NothingForgotten'
<1>0. u \notin Accepts
  BY Apart
<1>1. ASSUME UndoCopy(u)
      PROVE  NothingForgotten'
  <2>1. /\ UNCHANGED <<item, version, leftovers, call, mistaken>>
        /\ objects' = objects \union {u} /\ undo[u] = "new"
        /\ astray \subseteq astray'
        /\ undo'[u] = "copied" \/ u \in astray'
        /\ \A v \in Undos \ {u} : undo'[v] = undo[v]
    BY <1>1 DEF AcceptanceInv, TypeOK, UndoCopy, UndoGoes
  <2> QED
    BY <2>1 DEF NothingForgotten, Named, InHand
<1>2. ASSUME UndoCommit(u)
      PROVE  NothingForgotten'
  <2>1. MayTakeBack /\ TakesBack(u) /\ undo[u] = "copied" /\ UNCHANGED <<objects, call, astray, mistaken>>
    BY <1>2 DEF UndoCommit
  <2>2. \A v \in Undos \ {u} : undo'[v] = undo[v]
    BY <1>2 DEF AcceptanceInv, TypeOK, UndoCommit, UndoGoes
  <2>3. /\ item'.state = "received" /\ item'.key = u /\ ~item'.emptied
        /\ \A b \in Accepts \ {item.filed} : version'[b] = version[b]
        /\ leftovers' = leftovers \union Left
        /\ item.filed \in Left
        /\ ~item.emptied => item.key \in Left
    BY <2>1, TakingBack DEF AcceptanceInv
  <2>4. Named(u)'
    BY <2>3 DEF Named
  <2>5. \A k : Named(k) => Named(k)'
    BY <2>3 DEF Named
  <2>6. \A k : k # u /\ InHand(k) => InHand(k)'
    BY <2>1, <2>2 DEF InHand
  <2> QED
    BY <2>1, <2>4, <2>5, <2>6 DEF NothingForgotten
<1>3. ASSUME UndoKept(u) \/ UndoFails(u)
      PROVE  NothingForgotten'
  <2>1. /\ UNCHANGED <<item, version, leftovers, call, mistaken>>
        /\ objects' \subseteq objects /\ astray \subseteq astray'
        /\ u \in objects' => undo'[u] = "unsure" \/ u \in astray'
        /\ \A v \in Undos \ {u} : undo'[v] = undo[v]
    BY <1>3 DEF AcceptanceInv, TypeOK, UndoKept, UndoFails, UndoGoes
  <2>2. \A k : Named(k) => Named(k)'
    BY <2>1 DEF Named
  <2>3. \A k \in objects' : InHand(k) => (InHand(k) \/ k \in astray \/ k \in mistaken)'
    BY <1>0, <2>1 DEF InHand
  <2> QED
    BY <2>1, <2>2, <2>3 DEF NothingForgotten
<1>4. ASSUME DropUndoCopy(u)
      PROVE  NothingForgotten'
  <2>1. /\ UNCHANGED <<item, version, leftovers, call, mistaken>>
        /\ objects' \subseteq objects /\ astray \subseteq astray'
        /\ \/ item.state # "gone" /\ item.key = u
           \/ u \in objects' => u \in astray'
        /\ \A v \in Undos \ {u} : undo'[v] = undo[v]
    BY <1>4 DEF AcceptanceInv, TypeOK, DropUndoCopy, UndoGoes
  <2>2. u \in objects' => Named(u) \/ u \in astray' \/ u \in mistaken'
    BY <2>1 DEF AcceptanceInv, CallsSound, Named
  <2>3. \A k : Named(k) => Named(k)'
    BY <2>1 DEF Named
  <2>4. \A k \in objects' : InHand(k) => (InHand(k) \/ Named(k) \/ k \in astray \/ k \in mistaken)'
    BY <1>0, <2>1, <2>2, <2>3 DEF InHand
  <2> QED
    BY <2>1, <2>3, <2>4 DEF NothingForgotten
<1> QED
  BY <1>1, <1>2, <1>3, <1>4

LEMMA RemovingForgetsNothing ==
  ASSUME AcceptanceInv, NothingForgotten,
         \/ \E d \in Docs : Purge(d)
         \/ RemoveBatch \/ SweepItem
         \/ \E k \in Keys : SweepLeftover(k)
  PROVE  NothingForgotten'
<1>1. ASSUME NEW d \in Docs, Purge(d)
      PROVE  NothingForgotten'
  <2>1. /\ UNCHANGED <<objects, call, undo, astray, mistaken>>
        /\ \A a \in Accepts : version'[a] = IF version[a] = d THEN None ELSE version[a]
        /\ \A a \in Accepts : version[a] = d => a \in leftovers'
        /\ leftovers \subseteq leftovers'
        /\ item' = item \/ Leaves \subseteq leftovers'
    BY <1>1 DEF AcceptanceInv, TypeOK, Purge
  <2>2. \A k : Named(k) => Named(k)'
    BY <2>1 DEF Named, Leaves
  <2> QED
    BY <2>1, <2>2 DEF NothingForgotten, InHand
<1>2. CASE RemoveBatch
  <2>1. /\ UNCHANGED <<version, objects, call, undo, astray, mistaken>>
        /\ leftovers' = leftovers \union Leaves
    BY <1>2 DEF RemoveBatch
  <2> QED
    BY <2>1 DEF NothingForgotten, Named, InHand, Leaves
<1>3. CASE SweepItem
  <2>1. /\ UNCHANGED <<version, leftovers, call, undo, astray, mistaken>>
        /\ item'.key = item.key /\ item'.state = item.state
        /\ item.key \notin objects'
        /\ \A k \in objects' : k \in objects \/ (item.state = "accepted" /\ k = item.filed)
    BY <1>3 DEF AcceptanceInv, TypeOK, Items, SweepItem
  <2>2. \A k : item.state = "accepted" /\ k = item.filed => Named(k)'
    BY <2>1 DEF AcceptanceInv, OnePlace, Named
  <2>3. \A k : k # item.key /\ Named(k) => Named(k)'
    BY <2>1 DEF Named
  <2>4. \A k : InHand(k) => InHand(k)'
    BY <2>1 DEF InHand
  <2> QED
    BY <2>1, <2>2, <2>3, <2>4 DEF NothingForgotten
<1>4. ASSUME NEW k \in Keys, SweepLeftover(k)
      PROVE  NothingForgotten'
  <2>1. /\ UNCHANGED <<item, version, call, undo, astray, mistaken>>
        /\ leftovers' = leftovers \ {k} /\ objects' = objects \ {k}
    BY <1>4 DEF SweepLeftover
  <2> QED
    BY <2>1 DEF NothingForgotten, Named, InHand
<1> QED
  BY <1>1, <1>2, <1>3, <1>4

LEMMA NothingForgottenStep ==
  ASSUME AcceptanceInv, NothingForgotten, [Next]_vars
  PROVE  NothingForgotten'
<1>1. ASSUME UNCHANGED <<item, version, leftovers, objects, call, undo, astray, mistaken>>
      PROVE  NothingForgotten'
  BY <1>1 DEF NothingForgotten, Named, InHand
<1>2. ASSUME NEW d \in Docs, NEW byUploader \in BOOLEAN,
             Edit(d, byUploader) \/ Trash(d, byUploader) \/ BringBack(d, byUploader) \/ Reach(d)
      PROVE  NothingForgotten'
  BY <1>1, <1>2 DEF Edit, Trash, BringBack, Reach, Others
<1>3. CASE Late
  <2>1. /\ UNCHANGED <<version, leftovers, objects, call, undo, astray, mistaken>>
        /\ item'.key = item.key /\ item'.state = item.state /\ item'.emptied = item.emptied
    BY <1>3 DEF AcceptanceInv, TypeOK, Items, Late
  <2> QED
    BY <2>1 DEF NothingForgotten, Named, InHand
<1>4. CASE UNCHANGED vars
  BY <1>1, <1>4 DEF vars
<1> QED
  BY <1>2, <1>3, <1>4, FilingForgetsNothing, RefusingForgetsNothing, UndoForgetsNothing,
     RemovingForgetsNothing DEF Next

\* The inductive step needs both: Undo restores what the row says was there,
\* so the details must stand whenever the paper is filed again.
LEMMA InvariantAndDetails == Spec => [](AcceptanceInv /\ DetailsStand)
<1>1. Init => AcceptanceInv /\ DetailsStand
  BY AtFirst
<1>2. AcceptanceInv /\ DetailsStand /\ [Next]_vars => (AcceptanceInv /\ DetailsStand)'
  BY InvKept, DetailsStep
<1> QED
  BY <1>1, <1>2, PTL DEF Spec

\* However filing, Undo, refusing, removal and the sweeps are interleaved and
\* fail: a file waiting, and a version made of one, has its bytes; it is waiting
\* or filed, never both; nothing a row needs is written down to be deleted.
THEOREM AcceptanceInvariant == Spec => []AcceptanceInv
BY InvariantAndDetails, PTL

\* Undo never takes anybody's change to a document's details with it, whatever
\* was done between the filing and the Undo, and however often it is done.
THEOREM DetailsKept == Spec => []DetailsStand
BY InvariantAndDetails, PTL

\* No object is left on storage that no row names and no call has in hand,
\* but for those a failure leaves and the code does not claim to mend, and for
\* one that a call which read the item before an Undo says is gone.
THEOREM NothingIsForgotten == Spec => []NothingForgotten
<1>1. Init => NothingForgotten
  BY AtFirst
<1>2. AcceptanceInv /\ NothingForgotten /\ [Next]_vars => NothingForgotten'
  BY NothingForgottenStep
<1> QED
  BY <1>1, <1>2, AcceptanceInvariant, PTL DEF Spec
=============================================================================
