--------------------------- MODULE Arrivals_proofs ---------------------------
(***************************************************************************)
(* Proofs about Arrivals.  ArrivalsInv is inductive, one lemma for every   *)
(* action that changes an item, an object or a leftover; what is promised  *)
(* of the batch's places, of a file sent twice, of the scanner folder and  *)
(* of the objects left behind follows from it.                             *)
(***************************************************************************)
EXTENDS Arrivals, FiniteSetTheorems, TLAPS

LEMMA Names ==
  /\ {"none", "uploading", "received", "accepted", "rejected"} \subseteq States
  /\ {"idle", "hashed", "cleared", "placed", "stored", "arrived", "discarding", "unplacing", "over"}
       \subseteq Stages
  /\ {"open", "ended", "removing", "gone"} \subseteq BatchStates
BY DEF States, Stages, BatchStates

LEMMA NewRows ==
  /\ NoRow \in Rows /\ OnItsWay \in Rows
  /\ NoRow.state = "none" /\ ~NoRow.keyed /\ ~NoRow.stale /\ ~NoRow.emptied
  /\ OnItsWay.state = "uploading" /\ OnItsWay.keyed /\ ~OnItsWay.stale /\ ~OnItsWay.emptied
BY Names DEF Rows, NoRow, OnItsWay

LEMMA TriesFinite == IsFiniteSet(Tries) /\ IsFiniteSet(Rounds) /\ Rounds \subseteq Tries
BY ArrivalsAssumption, FS_Union DEF Tries

\* What a step that changes one item's row does to every row.
LEMMA SetState ==
  ASSUME row \in [Tries -> Rows], NEW t \in Tries, NEW s \in States,
         row' = [row EXCEPT ![t].state = s]
  PROVE  /\ row' \in [Tries -> Rows]
         /\ row'[t].state = s /\ row'[t].keyed = row[t].keyed
         /\ row'[t].emptied = row[t].emptied /\ row'[t].stale = row[t].stale
         /\ \A q \in Tries \ {t} : row'[q] = row[q]
BY DEF Rows

LEMMA SetStale ==
  ASSUME row \in [Tries -> Rows], NEW t \in Tries, row' = [row EXCEPT ![t].stale = TRUE]
  PROVE  /\ row' \in [Tries -> Rows]
         /\ row'[t].state = row[t].state /\ row'[t].keyed = row[t].keyed
         /\ row'[t].emptied = row[t].emptied /\ row'[t].stale
         /\ \A q \in Tries \ {t} : row'[q] = row[q]
BY DEF Rows

LEMMA SetEmptied ==
  ASSUME row \in [Tries -> Rows], NEW t \in Tries, row' = [row EXCEPT ![t].emptied = TRUE]
  PROVE  /\ row' \in [Tries -> Rows]
         /\ row'[t].state = row[t].state /\ row'[t].keyed = row[t].keyed
         /\ row'[t].emptied /\ row'[t].stale = row[t].stale
         /\ \A q \in Tries \ {t} : row'[q] = row[q]
BY DEF Rows

LEMMA Removed ==
  ASSUME row \in [Tries -> Rows], NEW S, row' = Without(S)
  PROVE  /\ row' \in [Tries -> Rows]
         /\ \A q \in Tries : row'[q] = IF q \in S THEN NoRow ELSE row[q]
BY NewRows DEF Without

LEMMA RemovedAndPlaced ==
  ASSUME row \in [Tries -> Rows], NEW S, NEW t \in Tries,
         row' = [Without(S) EXCEPT ![t] = OnItsWay]
  PROVE  /\ row' \in [Tries -> Rows]
         /\ row'[t] = OnItsWay
         /\ \A q \in Tries \ {t} : row'[q] = IF q \in S THEN NoRow ELSE row[q]
BY NewRows DEF Without

LEMMA KeysLetGo ==
  ASSUME row \in [Tries -> Rows], row' = LetGo
  PROVE  /\ row' \in [Tries -> Rows]
         /\ \A q \in Tries :
              IF q \in Left THEN row'[q] = NoRow
              ELSE /\ row'[q].state = row[q].state
                   /\ row'[q].emptied = row[q].emptied /\ row'[q].stale = row[q].stale
                   /\ IF q \in Rounds /\ row[q].state = "rejected" THEN ~row'[q].keyed
                      ELSE row'[q].keyed = row[q].keyed
BY NewRows DEF LetGo, Rows

LEMMA TakenOut ==
  ASSUME row \in [Tries -> Rows], row' = Out
  PROVE  /\ row' \in [Tries -> Rows]
         /\ \A q \in Tries :
              IF row[q].state = "uploading" THEN row'[q] = NoRow
              ELSE /\ row'[q].state = IF row[q].state = "received" THEN "rejected" ELSE row[q].state
                   /\ row'[q].emptied = row[q].emptied /\ row'[q].stale = row[q].stale
                   /\ row'[q].keyed = row[q].keyed
BY NewRows, Names DEF Out, Rows

LEMMA FaultsBounded == ASSUME faults \in 0..MaxFaults, Fault PROVE faults' \in 0..MaxFaults
BY ArrivalsAssumption DEF Fault

\* What a step's change of one try's stage does.
LEMMA Gone ==
  ASSUME at \in [Tries -> Stages], NEW t \in Tries, NEW s \in Stages, Goto(t, s)
  PROVE  /\ at' \in [Tries -> Stages]
         /\ at'[t] = s /\ \A q \in Tries \ {t} : at'[q] = at[q]
BY DEF Goto

LEMMA PlaceKeeps ==
  ASSUME ArrivalsInv, NEW t \in Tries, Place(t)
  PROVE  ArrivalsInv'
<1>a. at' \in [Tries -> Stages] /\ at'[t] = "placed" /\ \A q \in Tries \ {t} : at'[q] = at[q]
  BY Gone, Names DEF ArrivalsInv, ArrivalsTypeOK, Place
<1>r. /\ row' \in [Tries -> Rows] /\ row'[t] = OnItsWay
      /\ \A q \in Tries \ {t} : row'[q] = IF q \in Prior(t) THEN NoRow ELSE row[q]
  BY RemovedAndPlaced DEF ArrivalsInv, ArrivalsTypeOK, Place
<1>p. \A q \in Prior(t) : q \in Tries \ {t} /\ of[q] = of[t] /\ row[q].state = "uploading" /\ q \notin pending
  BY NewRows DEF ArrivalsInv, NotYetPlaced, Place, Prior, Dead, Free
<1>k. \A q \in Tries : of[q] = of[t] /\ row[q].state # "none" /\ row[q].keyed => q \in Prior(t)
  BY DEF Prior
<1>t. ArrivalsTypeOK'
  BY <1>a, <1>r, <1>p DEF ArrivalsInv, ArrivalsTypeOK, Place, Leaves
<1>s. row[t].state = "none" /\ t \notin owed /\ t \notin pending
  BY NewRows DEF ArrivalsInv, NotYetPlaced, TriesKnow, Place
<1>c1. NotYetPlaced'
  BY <1>a, <1>r, <1>p, <1>k, <1>s, NewRows DEF ArrivalsInv, NotYetPlaced, Place, Leaves
<1>c2. OwedAreGone'
  BY <1>a, <1>r, <1>p, <1>k, <1>s, NewRows DEF ArrivalsInv, OwedAreGone, NotYetPlaced, Place,
      Leaves
<1>c3. TriesKnow'
  BY <1>a, <1>r, <1>p, <1>k, <1>s, NewRows DEF ArrivalsInv, TriesKnow, NotYetPlaced, Place,
      Leaves
<1>c4. ArrivesWithBytes'
  BY <1>a, <1>r, <1>p, <1>k, <1>s, NewRows DEF ArrivalsInv, ArrivesWithBytes, HasBytes,
      TriesKnow, NotYetPlaced, OwedAreGone, Place, Leaves
<1>c5. KeysHeld'
  BY <1>a, <1>r, <1>p, <1>k, <1>s, NewRows DEF ArrivalsInv, KeysHeld, NotYetPlaced, Place,
      Leaves
<1>c6. DecidedRows'
  BY <1>a, <1>r, <1>p, <1>k, <1>s, NewRows DEF ArrivalsInv, DecidedRows, NotYetPlaced, Place,
      Leaves
<1>c7. FolderFollows'
  BY <1>a, <1>r, <1>p, <1>k, <1>s, NewRows, TriesFinite DEF ArrivalsInv, FolderFollows,
      ScanIsIn, DecidedRows, TriesKnow, ArrivesWithBytes, HasBytes, Place, Leaves
<1> QED
  BY <1>t, <1>c1, <1>c2, <1>c3, <1>c4, <1>c5, <1>c6, <1>c7 DEF ArrivalsInv

LEMMA RefuseKeeps ==
  ASSUME ArrivalsInv, NEW t \in Tries, Refuse(t)
  PROVE  ArrivalsInv'
<1>a. at' \in [Tries -> Stages] /\ at'[t] = "over" /\ \A q \in Tries \ {t} : at'[q] = at[q]
  BY Gone, Names DEF ArrivalsInv, ArrivalsTypeOK, Refuse
<1>t. ArrivalsTypeOK'
  BY <1>a DEF ArrivalsInv, ArrivalsTypeOK, Refuse
<1>c1. NotYetPlaced'
  BY <1>a, NewRows DEF ArrivalsInv, NotYetPlaced, Refuse
<1>c2. OwedAreGone'
  BY <1>a, NewRows DEF ArrivalsInv, OwedAreGone, NotYetPlaced, Refuse
<1>c3. TriesKnow'
  BY <1>a, NewRows DEF ArrivalsInv, TriesKnow, NotYetPlaced, Refuse
<1>c4. ArrivesWithBytes'
  BY <1>a, NewRows DEF ArrivalsInv, ArrivesWithBytes, HasBytes, TriesKnow, NotYetPlaced,
      OwedAreGone, Refuse
<1>c5. KeysHeld'
  BY <1>a, NewRows DEF ArrivalsInv, KeysHeld, NotYetPlaced, Refuse
<1>c6. DecidedRows'
  BY <1>a, NewRows DEF ArrivalsInv, DecidedRows, NotYetPlaced, Refuse
<1>c7. FolderFollows'
  BY <1>a, NewRows, TriesFinite DEF ArrivalsInv, FolderFollows, ScanIsIn, DecidedRows,
      TriesKnow, ArrivesWithBytes, HasBytes, Refuse
<1> QED
  BY <1>t, <1>c1, <1>c2, <1>c3, <1>c4, <1>c5, <1>c6, <1>c7 DEF ArrivalsInv

LEMMA LaterKeeps ==
  ASSUME ArrivalsInv, NEW t \in Tries, Later(t)
  PROVE  ArrivalsInv'
<1>a. at' \in [Tries -> Stages] /\ at'[t] = "idle" /\ \A q \in Tries \ {t} : at'[q] = at[q]
  BY Gone, Names DEF ArrivalsInv, ArrivalsTypeOK, Later
<1>t. ArrivalsTypeOK'
  BY <1>a DEF ArrivalsInv, ArrivalsTypeOK, Later
<1>c1. NotYetPlaced'
  BY <1>a, NewRows DEF ArrivalsInv, NotYetPlaced, Later
<1>c2. OwedAreGone'
  BY <1>a, NewRows DEF ArrivalsInv, OwedAreGone, NotYetPlaced, Later
<1>c3. TriesKnow'
  BY <1>a, NewRows DEF ArrivalsInv, TriesKnow, NotYetPlaced, Later
<1>c4. ArrivesWithBytes'
  BY <1>a, NewRows DEF ArrivalsInv, ArrivesWithBytes, HasBytes, TriesKnow, NotYetPlaced,
      OwedAreGone, Later
<1>c5. KeysHeld'
  BY <1>a, NewRows DEF ArrivalsInv, KeysHeld, NotYetPlaced, Later
<1>c6. DecidedRows'
  BY <1>a, NewRows DEF ArrivalsInv, DecidedRows, NotYetPlaced, Later
<1>c7. FolderFollows'
  BY <1>a, NewRows, TriesFinite DEF ArrivalsInv, FolderFollows, ScanIsIn, DecidedRows,
      TriesKnow, ArrivesWithBytes, HasBytes, Later
<1> QED
  BY <1>t, <1>c1, <1>c2, <1>c3, <1>c4, <1>c5, <1>c6, <1>c7 DEF ArrivalsInv

LEMMA RemoveFileKeeps ==
  ASSUME ArrivalsInv, NEW t \in Tries, RemoveFile(t)
  PROVE  ArrivalsInv'
<1>a. at' \in [Tries -> Stages] /\ at'[t] = "over" /\ \A q \in Tries \ {t} : at'[q] = at[q]
  BY Gone, Names DEF ArrivalsInv, ArrivalsTypeOK, RemoveFile
<1>t. ArrivalsTypeOK'
  BY <1>a, FaultsBounded DEF ArrivalsInv, ArrivalsTypeOK, RemoveFile
<1>c1. NotYetPlaced'
  BY <1>a, NewRows DEF ArrivalsInv, NotYetPlaced, RemoveFile
<1>c2. OwedAreGone'
  BY <1>a, NewRows DEF ArrivalsInv, OwedAreGone, NotYetPlaced, RemoveFile
<1>c3. TriesKnow'
  BY <1>a, NewRows DEF ArrivalsInv, TriesKnow, NotYetPlaced, RemoveFile
<1>c4. ArrivesWithBytes'
  BY <1>a, NewRows DEF ArrivalsInv, ArrivesWithBytes, HasBytes, TriesKnow, NotYetPlaced,
      OwedAreGone, RemoveFile
<1>c5. KeysHeld'
  BY <1>a, NewRows DEF ArrivalsInv, KeysHeld, NotYetPlaced, RemoveFile
<1>c6. DecidedRows'
  BY <1>a, NewRows DEF ArrivalsInv, DecidedRows, NotYetPlaced, RemoveFile
<1>c7. FolderFollows'
  BY <1>a, NewRows, TriesFinite DEF ArrivalsInv, FolderFollows, ScanIsIn, DecidedRows,
      TriesKnow, ArrivesWithBytes, HasBytes, RemoveFile
<1> QED
  BY <1>t, <1>c1, <1>c2, <1>c3, <1>c4, <1>c5, <1>c6, <1>c7 DEF ArrivalsInv

LEMMA LookKeeps ==
  ASSUME ArrivalsInv, NEW t \in Tries, Look(t)
  PROVE  ArrivalsInv'
<1>a. /\ at' \in [Tries -> Stages] /\ \A q \in Tries \ {t} : at'[q] = at[q]
      /\ at'[t] = IF StoredBefore THEN "arrived" ELSE "hashed"
  BY Gone, Names DEF ArrivalsInv, ArrivalsTypeOK, Look
<1>s. StoredBefore => ScanIsIn
  BY TriesFinite DEF ArrivalsInv, StoredBefore, In, KeysHeld, DecidedRows, ArrivesWithBytes, HasBytes, ScanIsIn
<1>t. ArrivalsTypeOK'
  BY <1>a, FaultsBounded DEF ArrivalsInv, ArrivalsTypeOK, Look
<1>c1. NotYetPlaced'
  BY <1>a, <1>s, NewRows DEF ArrivalsInv, NotYetPlaced, Look
<1>c2. OwedAreGone'
  BY <1>a, <1>s, NewRows DEF ArrivalsInv, OwedAreGone, NotYetPlaced, Look
<1>c3. TriesKnow'
  BY <1>a, <1>s, NewRows DEF ArrivalsInv, TriesKnow, NotYetPlaced, Look
<1>c4. ArrivesWithBytes'
  BY <1>a, <1>s, NewRows DEF ArrivalsInv, ArrivesWithBytes, HasBytes, TriesKnow, NotYetPlaced,
      OwedAreGone, Look
<1>c5. KeysHeld'
  BY <1>a, <1>s, NewRows DEF ArrivalsInv, KeysHeld, NotYetPlaced, Look
<1>c6. DecidedRows'
  BY <1>a, <1>s, NewRows DEF ArrivalsInv, DecidedRows, NotYetPlaced, Look
<1>c7. FolderFollows'
  BY <1>a, <1>s, NewRows, TriesFinite DEF ArrivalsInv, FolderFollows, ScanIsIn, DecidedRows,
      TriesKnow, ArrivesWithBytes, HasBytes, Look
<1> QED
  BY <1>t, <1>c1, <1>c2, <1>c3, <1>c4, <1>c5, <1>c6, <1>c7 DEF ArrivalsInv

LEMMA ClearStaleKeeps ==
  ASSUME ArrivalsInv, NEW t \in Tries, ClearStale(t)
  PROVE  ArrivalsInv'
<1>l. \A q \in Left : q \in Rounds /\ row[q].state = "uploading" /\ q \notin pending /\ q # t
  BY NewRows DEF ArrivalsInv, NotYetPlaced, ClearStale, Left, Free
<1>1. CASE row' = LetGo /\ Goto(t, "cleared") /\ UNCHANGED unsure
  <2>a. at' \in [Tries -> Stages] /\ at'[t] = "cleared" /\ \A q \in Tries \ {t} : at'[q] = at[q]
    BY <1>1, Gone, Names DEF ArrivalsInv, ArrivalsTypeOK
  <2>r. row' \in [Tries -> Rows]
    BY <1>1, KeysLetGo DEF ArrivalsInv, ArrivalsTypeOK
  <2>q. \A q \in Tries :
          IF q \in Left THEN row'[q] = NoRow
          ELSE /\ row'[q].state = row[q].state /\ row'[q].emptied = row[q].emptied
               /\ IF q \in Rounds /\ row[q].state = "rejected" THEN ~row'[q].keyed
                  ELSE row'[q].keyed = row[q].keyed
    BY <1>1, KeysLetGo DEF ArrivalsInv, ArrivalsTypeOK
  <2>n. row'[t] = NoRow /\ \A q \in Tries : row[q] = NoRow => row'[q] = NoRow
    BY <1>1, <1>l, NewRows DEF ArrivalsInv, ArrivalsTypeOK, NotYetPlaced, ClearStale, LetGo
  <2>o. objects' = objects \/ objects' = objects \ Left
    BY <1>1 DEF ClearStale
  <2>t. ArrivalsTypeOK'
    BY <1>1, <2>a, <2>r, <1>l, FaultsBounded, TriesFinite DEF ArrivalsInv, ArrivalsTypeOK, ClearStale
  <2>c1. NotYetPlaced'
    BY <1>1, <1>l, <2>a, <2>q, <2>n, <2>o, NewRows, TriesFinite DEF ArrivalsInv, NotYetPlaced,
        ClearStale
  <2>c2. OwedAreGone'
    BY <1>1, <1>l, <2>a, <2>q, <2>n, <2>o, NewRows, TriesFinite DEF ArrivalsInv, OwedAreGone,
        NotYetPlaced, ClearStale
  <2>c3. TriesKnow'
    BY <1>1, <1>l, <2>a, <2>q, <2>n, <2>o, NewRows, TriesFinite DEF ArrivalsInv, TriesKnow,
        NotYetPlaced, ClearStale
  <2>c4. ArrivesWithBytes'
    BY <1>1, <1>l, <2>a, <2>q, <2>n, <2>o, NewRows, TriesFinite DEF ArrivalsInv,
        ArrivesWithBytes, HasBytes, TriesKnow, NotYetPlaced, OwedAreGone, ClearStale
  <2>c5. KeysHeld'
    BY <1>1, <1>l, <2>a, <2>q, <2>n, <2>o, NewRows, TriesFinite DEF ArrivalsInv, KeysHeld,
        NotYetPlaced, ClearStale
  <2>c6. DecidedRows'
    BY <1>1, <1>l, <2>a, <2>q, <2>n, <2>o, NewRows, TriesFinite DEF ArrivalsInv, DecidedRows,
        NotYetPlaced, ClearStale
  <2>c7. FolderFollows'
    BY <1>1, <1>l, <2>a, <2>q, <2>n, <2>o, NewRows, TriesFinite DEF ArrivalsInv, FolderFollows,
        ScanIsIn, DecidedRows, TriesKnow, ArrivesWithBytes, HasBytes, ClearStale
  <2> QED
    BY <2>t, <2>c1, <2>c2, <2>c3, <2>c4, <2>c5, <2>c6, <2>c7 DEF ArrivalsInv
<1>2. CASE Goto(t, "idle") /\ objects' = objects \ Left /\ unsure' = unsure \union Left /\ Fault /\ UNCHANGED <<row, astray>>
  <2>a. at' \in [Tries -> Stages] /\ at'[t] = "idle" /\ \A q \in Tries \ {t} : at'[q] = at[q]
    BY <1>2, Gone, Names DEF ArrivalsInv, ArrivalsTypeOK
  <2>t. ArrivalsTypeOK'
    BY <1>2, <2>a, <1>l, FaultsBounded, TriesFinite DEF ArrivalsInv, ArrivalsTypeOK, ClearStale
  <2>c1. NotYetPlaced'
    BY <1>2, <1>l, <2>a, NewRows, TriesFinite DEF ArrivalsInv, NotYetPlaced, ClearStale
  <2>c2. OwedAreGone'
    BY <1>2, <1>l, <2>a, NewRows, TriesFinite DEF ArrivalsInv, OwedAreGone, NotYetPlaced,
        ClearStale
  <2>c3. TriesKnow'
    BY <1>2, <1>l, <2>a, NewRows, TriesFinite DEF ArrivalsInv, TriesKnow, NotYetPlaced,
        ClearStale
  <2>c4. ArrivesWithBytes'
    BY <1>2, <1>l, <2>a, NewRows, TriesFinite DEF ArrivalsInv, ArrivesWithBytes, HasBytes,
        TriesKnow, NotYetPlaced, OwedAreGone, ClearStale
  <2>c5. KeysHeld'
    BY <1>2, <1>l, <2>a, NewRows, TriesFinite DEF ArrivalsInv, KeysHeld, NotYetPlaced,
        ClearStale
  <2>c6. DecidedRows'
    BY <1>2, <1>l, <2>a, NewRows, TriesFinite DEF ArrivalsInv, DecidedRows, NotYetPlaced,
        ClearStale
  <2>c7. FolderFollows'
    BY <1>2, <1>l, <2>a, NewRows, TriesFinite DEF ArrivalsInv, FolderFollows, ScanIsIn,
        DecidedRows, TriesKnow, ArrivesWithBytes, HasBytes, ClearStale
  <2> QED
    BY <2>t, <2>c1, <2>c2, <2>c3, <2>c4, <2>c5, <2>c6, <2>c7 DEF ArrivalsInv
<1> QED
  BY <1>1, <1>2 DEF ClearStale

LEMMA PlaceScanKeeps ==
  ASSUME ArrivalsInv, NEW t \in Tries, PlaceScan(t)
  PROVE  ArrivalsInv'
<1>a. at' \in [Tries -> Stages] /\ at'[t] = "placed" /\ \A q \in Tries \ {t} : at'[q] = at[q]
  BY Gone, Names DEF ArrivalsInv, ArrivalsTypeOK, PlaceScan
<1>r. row' \in [Tries -> Rows] /\ row'[t] = OnItsWay /\ \A q \in Tries \ {t} : row'[q] = row[q]
  BY NewRows DEF ArrivalsInv, ArrivalsTypeOK, PlaceScan
<1>k. \A q \in Tries : of[q] = of[t] /\ row[q].state # "none" => ~row[q].keyed
  BY DEF PlaceScan, Prior
<1>s. row[t].state = "none" /\ t \notin owed /\ t \notin pending
  BY NewRows DEF ArrivalsInv, NotYetPlaced, TriesKnow, PlaceScan
<1>t. ArrivalsTypeOK'
  BY <1>a, <1>r DEF ArrivalsInv, ArrivalsTypeOK, PlaceScan
<1>c1. NotYetPlaced'
  BY <1>a, <1>r, <1>k, <1>s, NewRows DEF ArrivalsInv, NotYetPlaced, PlaceScan
<1>c2. OwedAreGone'
  BY <1>a, <1>r, <1>k, <1>s, NewRows DEF ArrivalsInv, OwedAreGone, NotYetPlaced, PlaceScan
<1>c3. TriesKnow'
  BY <1>a, <1>r, <1>k, <1>s, NewRows DEF ArrivalsInv, TriesKnow, NotYetPlaced, PlaceScan
<1>c4. ArrivesWithBytes'
  BY <1>a, <1>r, <1>k, <1>s, NewRows DEF ArrivalsInv, ArrivesWithBytes, HasBytes, TriesKnow,
      NotYetPlaced, OwedAreGone, PlaceScan
<1>c5. KeysHeld'
  BY <1>a, <1>r, <1>k, <1>s, NewRows DEF ArrivalsInv, KeysHeld, NotYetPlaced, PlaceScan
<1>c6. DecidedRows'
  BY <1>a, <1>r, <1>k, <1>s, NewRows DEF ArrivalsInv, DecidedRows, NotYetPlaced, PlaceScan
<1>c7. FolderFollows'
  BY <1>a, <1>r, <1>k, <1>s, NewRows, TriesFinite DEF ArrivalsInv, FolderFollows, ScanIsIn,
      DecidedRows, TriesKnow, ArrivesWithBytes, HasBytes, PlaceScan
<1> QED
  BY <1>t, <1>c1, <1>c2, <1>c3, <1>c4, <1>c5, <1>c6, <1>c7 DEF ArrivalsInv

LEMMA PutKeeps ==
  ASSUME ArrivalsInv, NEW t \in Tries, Put(t)
  PROVE  ArrivalsInv'
<1>a. /\ at' \in [Tries -> Stages] /\ \A q \in Tries \ {t} : at'[q] = at[q]
      /\ \/ at'[t] = "stored" /\ t \in objects'
         \/ at'[t] = "discarding"
      /\ objects \subseteq objects' /\ objects' \subseteq objects \union {t}
  BY Gone, Names DEF ArrivalsInv, ArrivalsTypeOK, Put
<1>t. ArrivalsTypeOK'
  BY <1>a, FaultsBounded DEF ArrivalsInv, ArrivalsTypeOK, Put
<1>c1. NotYetPlaced'
  BY <1>a, NewRows DEF ArrivalsInv, NotYetPlaced, Put
<1>c2. OwedAreGone'
  BY <1>a, NewRows DEF ArrivalsInv, OwedAreGone, NotYetPlaced, Put
<1>c3. TriesKnow'
  BY <1>a, NewRows DEF ArrivalsInv, TriesKnow, NotYetPlaced, Put
<1>c4. ArrivesWithBytes'
  BY <1>a, NewRows DEF ArrivalsInv, ArrivesWithBytes, HasBytes, TriesKnow, NotYetPlaced,
      OwedAreGone, Put
<1>c5. KeysHeld'
  BY <1>a, NewRows DEF ArrivalsInv, KeysHeld, NotYetPlaced, Put
<1>c6. DecidedRows'
  BY <1>a, NewRows DEF ArrivalsInv, DecidedRows, NotYetPlaced, Put
<1>c7. FolderFollows'
  BY <1>a, NewRows, TriesFinite DEF ArrivalsInv, FolderFollows, ScanIsIn, DecidedRows,
      TriesKnow, ArrivesWithBytes, HasBytes, Put
<1> QED
  BY <1>t, <1>c1, <1>c2, <1>c3, <1>c4, <1>c5, <1>c6, <1>c7 DEF ArrivalsInv

LEMMA ArriveKeeps ==
  ASSUME ArrivalsInv, NEW t \in Tries, Arrive(t)
  PROVE  ArrivalsInv'
<1>1. CASE row[t].state = "uploading" /\ row' = [row EXCEPT ![t].state = "received"]
           /\ Goto(t, IF t \in Rounds THEN "arrived" ELSE "over") /\ UNCHANGED <<pending, unsure, faults>>
  <2>a. /\ at' \in [Tries -> Stages] /\ \A q \in Tries \ {t} : at'[q] = at[q]
        /\ at'[t] = IF t \in Rounds THEN "arrived" ELSE "over"
    BY <1>1, Gone, Names DEF ArrivalsInv, ArrivalsTypeOK
  <2>r. /\ row' \in [Tries -> Rows] /\ row'[t].state = "received"
        /\ row'[t].keyed = row[t].keyed /\ row'[t].emptied = row[t].emptied
        /\ \A q \in Tries \ {t} : row'[q] = row[q]
    BY <1>1, SetState, Names DEF ArrivalsInv, ArrivalsTypeOK
  <2>b. HasBytes(t) /\ t \notin pending
    BY <1>1 DEF ArrivalsInv, ArrivesWithBytes, TriesKnow, Arrive
  <2>t. ArrivalsTypeOK'
    BY <1>1, <2>a, <2>r DEF ArrivalsInv, ArrivalsTypeOK, Arrive
  <2>c1. NotYetPlaced'
    BY <1>1, <2>a, <2>r, <2>b, NewRows DEF ArrivalsInv, NotYetPlaced, Arrive
  <2>c2. OwedAreGone'
    BY <1>1, <2>a, <2>r, <2>b, NewRows DEF ArrivalsInv, OwedAreGone, NotYetPlaced, Arrive
  <2>c3. TriesKnow'
    BY <1>1, <2>a, <2>r, <2>b, NewRows DEF ArrivalsInv, TriesKnow, NotYetPlaced, Arrive
  <2>c4. ArrivesWithBytes'
    BY <1>1, <2>a, <2>r, <2>b, NewRows DEF ArrivalsInv, ArrivesWithBytes, HasBytes, TriesKnow,
        NotYetPlaced, OwedAreGone, Arrive
  <2>c5. KeysHeld'
    BY <1>1, <2>a, <2>r, <2>b, NewRows DEF ArrivalsInv, KeysHeld, NotYetPlaced, Arrive
  <2>c6. DecidedRows'
    BY <1>1, <2>a, <2>r, <2>b, NewRows DEF ArrivalsInv, DecidedRows, NotYetPlaced, Arrive
  <2>c7. FolderFollows'
    BY <1>1, <2>a, <2>r, <2>b, NewRows, TriesFinite DEF ArrivalsInv, FolderFollows, ScanIsIn,
        DecidedRows, TriesKnow, ArrivesWithBytes, HasBytes, Arrive
  <2> QED
    BY <2>t, <2>c1, <2>c2, <2>c3, <2>c4, <2>c5, <2>c6, <2>c7 DEF ArrivalsInv
<1>2. CASE row[t].state = "uploading" /\ Fault /\ pending' = pending \union {t} /\ unsure' = unsure \union {t}
           /\ Goto(t, "discarding") /\ UNCHANGED row
  <2>a. at' \in [Tries -> Stages] /\ at'[t] = "discarding" /\ \A q \in Tries \ {t} : at'[q] = at[q]
    BY <1>2, Gone, Names DEF ArrivalsInv, ArrivalsTypeOK
  <2>t. ArrivalsTypeOK'
    BY <1>2, <2>a, FaultsBounded DEF ArrivalsInv, ArrivalsTypeOK, Arrive
  <2>c1. NotYetPlaced'
    BY <1>2, <2>a, NewRows DEF ArrivalsInv, NotYetPlaced, Arrive
  <2>c2. OwedAreGone'
    BY <1>2, <2>a, NewRows DEF ArrivalsInv, OwedAreGone, NotYetPlaced, Arrive
  <2>c3. TriesKnow'
    BY <1>2, <2>a, NewRows DEF ArrivalsInv, TriesKnow, NotYetPlaced, Arrive
  <2>c4. ArrivesWithBytes'
    BY <1>2, <2>a, NewRows DEF ArrivalsInv, ArrivesWithBytes, HasBytes, TriesKnow, NotYetPlaced,
        OwedAreGone, Arrive
  <2>c5. KeysHeld'
    BY <1>2, <2>a, NewRows DEF ArrivalsInv, KeysHeld, NotYetPlaced, Arrive
  <2>c6. DecidedRows'
    BY <1>2, <2>a, NewRows DEF ArrivalsInv, DecidedRows, NotYetPlaced, Arrive
  <2>c7. FolderFollows'
    BY <1>2, <2>a, NewRows, TriesFinite DEF ArrivalsInv, FolderFollows, ScanIsIn, DecidedRows,
        TriesKnow, ArrivesWithBytes, HasBytes, Arrive
  <2> QED
    BY <2>t, <2>c1, <2>c2, <2>c3, <2>c4, <2>c5, <2>c6, <2>c7 DEF ArrivalsInv
<1>3. CASE row[t].state # "uploading" /\ Goto(t, "discarding") /\ UNCHANGED <<row, pending, unsure, faults>>
  <2>a. at' \in [Tries -> Stages] /\ at'[t] = "discarding" /\ \A q \in Tries \ {t} : at'[q] = at[q]
    BY <1>3, Gone, Names DEF ArrivalsInv, ArrivalsTypeOK
  <2>t. ArrivalsTypeOK'
    BY <1>3, <2>a DEF ArrivalsInv, ArrivalsTypeOK, Arrive
  <2>c1. NotYetPlaced'
    BY <1>3, <2>a, NewRows DEF ArrivalsInv, NotYetPlaced, Arrive
  <2>c2. OwedAreGone'
    BY <1>3, <2>a, NewRows DEF ArrivalsInv, OwedAreGone, NotYetPlaced, Arrive
  <2>c3. TriesKnow'
    BY <1>3, <2>a, NewRows DEF ArrivalsInv, TriesKnow, NotYetPlaced, Arrive
  <2>c4. ArrivesWithBytes'
    BY <1>3, <2>a, NewRows DEF ArrivalsInv, ArrivesWithBytes, HasBytes, TriesKnow, NotYetPlaced,
        OwedAreGone, Arrive
  <2>c5. KeysHeld'
    BY <1>3, <2>a, NewRows DEF ArrivalsInv, KeysHeld, NotYetPlaced, Arrive
  <2>c6. DecidedRows'
    BY <1>3, <2>a, NewRows DEF ArrivalsInv, DecidedRows, NotYetPlaced, Arrive
  <2>c7. FolderFollows'
    BY <1>3, <2>a, NewRows, TriesFinite DEF ArrivalsInv, FolderFollows, ScanIsIn, DecidedRows,
        TriesKnow, ArrivesWithBytes, HasBytes, Arrive
  <2> QED
    BY <2>t, <2>c1, <2>c2, <2>c3, <2>c4, <2>c5, <2>c6, <2>c7 DEF ArrivalsInv
<1> QED
  BY <1>1, <1>2, <1>3 DEF Arrive

LEMMA DatabaseEndsKeeps ==
  ASSUME ArrivalsInv, NEW t \in Tries, DatabaseEnds(t)
  PROVE  ArrivalsInv'
<1>p. row[t].state = "uploading" /\ t \in unsure
  BY DEF ArrivalsInv, TriesKnow, DatabaseEnds
<1>1. CASE row' = row
  <2>t. ArrivalsTypeOK'
    BY <1>1 DEF ArrivalsInv, ArrivalsTypeOK, DatabaseEnds
  <2>c1. NotYetPlaced'
    BY <1>1, <1>p DEF ArrivalsInv, NotYetPlaced, DatabaseEnds
  <2>c2. OwedAreGone'
    BY <1>1, <1>p DEF ArrivalsInv, OwedAreGone, NotYetPlaced, DatabaseEnds
  <2>c3. TriesKnow'
    BY <1>1, <1>p DEF ArrivalsInv, TriesKnow, NotYetPlaced, DatabaseEnds
  <2>c4. ArrivesWithBytes'
    BY <1>1, <1>p DEF ArrivalsInv, ArrivesWithBytes, HasBytes, TriesKnow, NotYetPlaced,
        OwedAreGone, DatabaseEnds
  <2>c5. KeysHeld'
    BY <1>1, <1>p DEF ArrivalsInv, KeysHeld, NotYetPlaced, DatabaseEnds
  <2>c6. DecidedRows'
    BY <1>1, <1>p DEF ArrivalsInv, DecidedRows, NotYetPlaced, DatabaseEnds
  <2>c7. FolderFollows'
    BY <1>1, <1>p, TriesFinite DEF ArrivalsInv, FolderFollows, ScanIsIn, DecidedRows, TriesKnow,
        ArrivesWithBytes, HasBytes, DatabaseEnds
  <2> QED
    BY <2>t, <2>c1, <2>c2, <2>c3, <2>c4, <2>c5, <2>c6, <2>c7 DEF ArrivalsInv
<1>2. CASE row' = [row EXCEPT ![t].state = "received"]
  <2>r. /\ row' \in [Tries -> Rows] /\ row'[t].state = "received"
        /\ row'[t].keyed = row[t].keyed /\ row'[t].emptied = row[t].emptied
        /\ \A q \in Tries \ {t} : row'[q] = row[q]
    BY <1>2, SetState, Names DEF ArrivalsInv, ArrivalsTypeOK
  <2>s. at[t] \notin {"idle", "hashed", "cleared", "placed", "stored"}
    BY <1>p, NewRows DEF ArrivalsInv, NotYetPlaced, TriesKnow, DatabaseEnds
  <2>t. ArrivalsTypeOK'
    BY <1>2, <2>r DEF ArrivalsInv, ArrivalsTypeOK, DatabaseEnds
  <2>c1. NotYetPlaced'
    BY <1>2, <1>p, <2>r, <2>s, NewRows DEF ArrivalsInv, NotYetPlaced, DatabaseEnds
  <2>c2. OwedAreGone'
    BY <1>2, <1>p, <2>r, <2>s, NewRows DEF ArrivalsInv, OwedAreGone, NotYetPlaced, DatabaseEnds
  <2>c3. TriesKnow'
    BY <1>2, <1>p, <2>r, <2>s, NewRows DEF ArrivalsInv, TriesKnow, NotYetPlaced, DatabaseEnds
  <2>c4. ArrivesWithBytes'
    BY <1>2, <1>p, <2>r, <2>s, NewRows DEF ArrivalsInv, ArrivesWithBytes, HasBytes, TriesKnow,
        NotYetPlaced, OwedAreGone, DatabaseEnds
  <2>c5. KeysHeld'
    BY <1>2, <1>p, <2>r, <2>s, NewRows DEF ArrivalsInv, KeysHeld, NotYetPlaced, DatabaseEnds
  <2>c6. DecidedRows'
    BY <1>2, <1>p, <2>r, <2>s, NewRows DEF ArrivalsInv, DecidedRows, NotYetPlaced, DatabaseEnds
  <2>c7. FolderFollows'
    BY <1>2, <1>p, <2>r, <2>s, NewRows, TriesFinite DEF ArrivalsInv, FolderFollows, ScanIsIn,
        DecidedRows, TriesKnow, ArrivesWithBytes, HasBytes, DatabaseEnds
  <2> QED
    BY <2>t, <2>c1, <2>c2, <2>c3, <2>c4, <2>c5, <2>c6, <2>c7 DEF ArrivalsInv
<1> QED
  BY <1>1, <1>2 DEF DatabaseEnds

LEMMA DiscardKeeps ==
  ASSUME ArrivalsInv, NEW t \in Tries, Discard(t)
  PROVE  ArrivalsInv'
<1>a. at' \in [Tries -> Stages] /\ at'[t] = "unplacing" /\ \A q \in Tries \ {t} : at'[q] = at[q]
  BY Gone, Names DEF ArrivalsInv, ArrivalsTypeOK, Discard
<1>o. objects' \subseteq objects /\ objects \subseteq objects' \union {t} /\ (t \in objects' => t \in astray')
      /\ astray \subseteq astray'
  BY DEF Discard
<1>t. ArrivalsTypeOK'
  BY <1>a, FaultsBounded DEF ArrivalsInv, ArrivalsTypeOK, Discard
<1>c1. NotYetPlaced'
  BY <1>a, <1>o, NewRows DEF ArrivalsInv, NotYetPlaced, Discard
<1>c2. OwedAreGone'
  BY <1>a, <1>o, NewRows DEF ArrivalsInv, OwedAreGone, NotYetPlaced, Discard
<1>c3. TriesKnow'
  BY <1>a, <1>o, NewRows DEF ArrivalsInv, TriesKnow, NotYetPlaced, Discard
<1>c4. ArrivesWithBytes'
  BY <1>a, <1>o, NewRows DEF ArrivalsInv, ArrivesWithBytes, HasBytes, TriesKnow, NotYetPlaced,
      OwedAreGone, Discard
<1>c5. KeysHeld'
  BY <1>a, <1>o, NewRows DEF ArrivalsInv, KeysHeld, NotYetPlaced, Discard
<1>c6. DecidedRows'
  BY <1>a, <1>o, NewRows DEF ArrivalsInv, DecidedRows, NotYetPlaced, Discard
<1>c7. FolderFollows'
  BY <1>a, <1>o, NewRows, TriesFinite DEF ArrivalsInv, FolderFollows, ScanIsIn, DecidedRows,
      TriesKnow, ArrivesWithBytes, HasBytes, Discard
<1> QED
  BY <1>t, <1>c1, <1>c2, <1>c3, <1>c4, <1>c5, <1>c6, <1>c7 DEF ArrivalsInv

LEMMA UnplaceKeeps ==
  ASSUME ArrivalsInv, NEW t \in Tries, Unplace(t)
  PROVE  ArrivalsInv'
<1>a. at' \in [Tries -> Stages] /\ at'[t] = "over" /\ \A q \in Tries \ {t} : at'[q] = at[q]
  BY Gone, Names DEF ArrivalsInv, ArrivalsTypeOK, Unplace
<1>r. /\ row' \in [Tries -> Rows]
      /\ \A q \in Tries : row'[q] = IF q = t /\ row[t].state = "uploading" THEN NoRow ELSE row[q]
  BY Removed DEF ArrivalsInv, ArrivalsTypeOK, Unplace, In
<1>o. /\ owed \subseteq owed' /\ \A q \in owed' : q \in owed \/ (q = t /\ row[t].state = "uploading")
      /\ t \notin pending
  BY DEF Unplace, Leaves, Free, In
<1>u. UNCHANGED <<of, batch, objects, folder, pending, faults, unsure, decided, astray>> /\ at[t] = "unplacing"
  BY DEF Unplace
<1>f. \A q \in Tries : row'[q].state # "none" => row'[q] = row[q]
  BY <1>r, NewRows
<1>t. ArrivalsTypeOK'
  BY <1>a, <1>r, <1>o DEF ArrivalsInv, ArrivalsTypeOK, Unplace
<1>c1. NotYetPlaced'
  BY <1>a, <1>r, <1>o, <1>f, <1>u, NewRows DEF ArrivalsInv, NotYetPlaced
<1>c2. OwedAreGone'
  BY <1>a, <1>r, <1>o, <1>f, <1>u, NewRows DEF ArrivalsInv, OwedAreGone, NotYetPlaced
<1>c3. TriesKnow'
  BY <1>a, <1>r, <1>o, <1>f, <1>u, NewRows DEF ArrivalsInv, TriesKnow, NotYetPlaced
<1>c4. ArrivesWithBytes'
  BY <1>a, <1>r, <1>o, <1>f, <1>u, NewRows DEF ArrivalsInv, ArrivesWithBytes, HasBytes,
      TriesKnow, NotYetPlaced, OwedAreGone
<1>c5. KeysHeld'
  BY <1>a, <1>r, <1>o, <1>f, <1>u, NewRows DEF ArrivalsInv, KeysHeld, NotYetPlaced
<1>c6. DecidedRows'
  BY <1>a, <1>r, <1>o, <1>f, <1>u, NewRows DEF ArrivalsInv, DecidedRows, NotYetPlaced
<1>c7. FolderFollows'
  BY <1>a, <1>r, <1>o, <1>f, <1>u, NewRows, TriesFinite DEF ArrivalsInv, FolderFollows,
      ScanIsIn, DecidedRows, TriesKnow, ArrivesWithBytes, HasBytes
<1> QED
  BY <1>t, <1>c1, <1>c2, <1>c3, <1>c4, <1>c5, <1>c6, <1>c7 DEF ArrivalsInv

LEMMA StopKeeps ==
  ASSUME ArrivalsInv, NEW t \in Tries, Stop(t)
  PROVE  ArrivalsInv'
<1>a. at' \in [Tries -> Stages] /\ at'[t] = "over" /\ \A q \in Tries \ {t} : at'[q] = at[q]
  BY Gone, Names DEF ArrivalsInv, ArrivalsTypeOK, Stop
<1>o. objects \subseteq objects' /\ objects' \subseteq objects \union {t} /\ astray \subseteq astray' /\ astray' \subseteq astray \union {t}
  BY DEF Stop
<1>t. ArrivalsTypeOK'
  BY <1>a, <1>o, FaultsBounded DEF ArrivalsInv, ArrivalsTypeOK, Stop
<1>c1. NotYetPlaced'
  BY <1>a, <1>o, NewRows DEF ArrivalsInv, NotYetPlaced, Stop
<1>c2. OwedAreGone'
  BY <1>a, <1>o, NewRows DEF ArrivalsInv, OwedAreGone, NotYetPlaced, Stop
<1>c3. TriesKnow'
  BY <1>a, <1>o, NewRows DEF ArrivalsInv, TriesKnow, NotYetPlaced, Stop
<1>c4. ArrivesWithBytes'
  BY <1>a, <1>o, NewRows DEF ArrivalsInv, ArrivesWithBytes, HasBytes, TriesKnow, NotYetPlaced,
      OwedAreGone, Stop
<1>c5. KeysHeld'
  BY <1>a, <1>o, NewRows DEF ArrivalsInv, KeysHeld, NotYetPlaced, Stop
<1>c6. DecidedRows'
  BY <1>a, <1>o, NewRows DEF ArrivalsInv, DecidedRows, NotYetPlaced, Stop
<1>c7. FolderFollows'
  BY <1>a, <1>o, NewRows, TriesFinite DEF ArrivalsInv, FolderFollows, ScanIsIn, DecidedRows,
      TriesKnow, ArrivesWithBytes, HasBytes, Stop
<1> QED
  BY <1>t, <1>c1, <1>c2, <1>c3, <1>c4, <1>c5, <1>c6, <1>c7 DEF ArrivalsInv

LEMMA AgeKeeps ==
  ASSUME ArrivalsInv, NEW t \in Tries, Age(t)
  PROVE  ArrivalsInv'
<1>r. /\ row' \in [Tries -> Rows] /\ row'[t].state = row[t].state
      /\ row'[t].keyed = row[t].keyed /\ row'[t].emptied = row[t].emptied
      /\ \A q \in Tries \ {t} : row'[q] = row[q]
  BY SetStale DEF ArrivalsInv, ArrivalsTypeOK, Age
<1>s. row[t].state = "uploading"
  BY DEF Age, Fresh
<1>t. ArrivalsTypeOK'
  BY <1>r DEF ArrivalsInv, ArrivalsTypeOK, Age
<1>c1. NotYetPlaced'
  BY <1>r, <1>s, NewRows DEF ArrivalsInv, NotYetPlaced, Age
<1>c2. OwedAreGone'
  BY <1>r, <1>s, NewRows DEF ArrivalsInv, OwedAreGone, NotYetPlaced, Age
<1>c3. TriesKnow'
  BY <1>r, <1>s, NewRows DEF ArrivalsInv, TriesKnow, NotYetPlaced, Age
<1>c4. ArrivesWithBytes'
  BY <1>r, <1>s, NewRows DEF ArrivalsInv, ArrivesWithBytes, HasBytes, TriesKnow, NotYetPlaced,
      OwedAreGone, Age
<1>c5. KeysHeld'
  BY <1>r, <1>s, NewRows DEF ArrivalsInv, KeysHeld, NotYetPlaced, Age
<1>c6. DecidedRows'
  BY <1>r, <1>s, NewRows DEF ArrivalsInv, DecidedRows, NotYetPlaced, Age
<1>c7. FolderFollows'
  BY <1>r, <1>s, NewRows, TriesFinite DEF ArrivalsInv, FolderFollows, ScanIsIn, DecidedRows,
      TriesKnow, ArrivesWithBytes, HasBytes, Age
<1> QED
  BY <1>t, <1>c1, <1>c2, <1>c3, <1>c4, <1>c5, <1>c6, <1>c7 DEF ArrivalsInv

LEMMA DecideKeeps ==
  ASSUME ArrivalsInv, NEW t \in Tries, NEW s \in {"accepted", "rejected"}, Decide(t, s)
  PROVE  ArrivalsInv'
<1>r. /\ row' \in [Tries -> Rows] /\ row'[t].state = s
      /\ row'[t].keyed = row[t].keyed /\ row'[t].emptied = row[t].emptied
      /\ \A q \in Tries \ {t} : row'[q] = row[q]
  BY SetState, Names DEF ArrivalsInv, ArrivalsTypeOK, Decide
<1>s. row[t].state = "received" /\ t \notin pending /\ s # "none" /\ s # "received" /\ s # "uploading"
  BY DEF ArrivalsInv, TriesKnow, Decide
<1>t. ArrivalsTypeOK'
  BY <1>r DEF ArrivalsInv, ArrivalsTypeOK, Decide
<1>c1. NotYetPlaced'
  BY <1>r, <1>s, NewRows DEF ArrivalsInv, NotYetPlaced, Decide
<1>c2. OwedAreGone'
  BY <1>r, <1>s, NewRows DEF ArrivalsInv, OwedAreGone, NotYetPlaced, Decide
<1>c3. TriesKnow'
  BY <1>r, <1>s, NewRows DEF ArrivalsInv, TriesKnow, NotYetPlaced, Decide
<1>c4. ArrivesWithBytes'
  BY <1>r, <1>s, NewRows DEF ArrivalsInv, ArrivesWithBytes, HasBytes, TriesKnow, NotYetPlaced,
      OwedAreGone, Decide
<1>c5. KeysHeld'
  BY <1>r, <1>s, NewRows DEF ArrivalsInv, KeysHeld, NotYetPlaced, Decide
<1>c6. DecidedRows'
  BY <1>r, <1>s, NewRows DEF ArrivalsInv, DecidedRows, NotYetPlaced, Decide
<1>c7. FolderFollows'
  BY <1>r, <1>s, NewRows, TriesFinite DEF ArrivalsInv, FolderFollows, ScanIsIn, DecidedRows,
      TriesKnow, ArrivesWithBytes, HasBytes, Decide
<1> QED
  BY <1>t, <1>c1, <1>c2, <1>c3, <1>c4, <1>c5, <1>c6, <1>c7 DEF ArrivalsInv

LEMMA EmptyKeeps ==
  ASSUME ArrivalsInv, NEW t \in Tries, Empty(t)
  PROVE  ArrivalsInv'
<1>r. /\ row' \in [Tries -> Rows] /\ row'[t].state = row[t].state
      /\ row'[t].keyed = row[t].keyed /\ row'[t].emptied
      /\ \A q \in Tries \ {t} : row'[q] = row[q]
  BY SetEmptied DEF ArrivalsInv, ArrivalsTypeOK, Empty
<1>t. ArrivalsTypeOK'
  BY <1>r DEF ArrivalsInv, ArrivalsTypeOK, Empty
<1>c1. NotYetPlaced'
  BY <1>r, NewRows DEF ArrivalsInv, NotYetPlaced, Empty
<1>c2. OwedAreGone'
  BY <1>r, NewRows DEF ArrivalsInv, OwedAreGone, NotYetPlaced, Empty
<1>c3. TriesKnow'
  BY <1>r, NewRows DEF ArrivalsInv, TriesKnow, NotYetPlaced, Empty
<1>c4. ArrivesWithBytes'
  BY <1>r, NewRows DEF ArrivalsInv, ArrivesWithBytes, HasBytes, TriesKnow, NotYetPlaced,
      OwedAreGone, Empty
<1>c5. KeysHeld'
  BY <1>r, NewRows DEF ArrivalsInv, KeysHeld, NotYetPlaced, Empty
<1>c6. DecidedRows'
  BY <1>r, NewRows DEF ArrivalsInv, DecidedRows, NotYetPlaced, Empty
<1>c7. FolderFollows'
  BY <1>r, NewRows, TriesFinite DEF ArrivalsInv, FolderFollows, ScanIsIn, DecidedRows,
      TriesKnow, ArrivesWithBytes, HasBytes, Empty
<1> QED
  BY <1>t, <1>c1, <1>c2, <1>c3, <1>c4, <1>c5, <1>c6, <1>c7 DEF ArrivalsInv

LEMMA SweepLeftoverKeeps ==
  ASSUME ArrivalsInv, NEW t \in Tries, SweepLeftover(t)
  PROVE  ArrivalsInv'
<1>s. row[t].state = "none"
  BY DEF ArrivalsInv, OwedAreGone, SweepLeftover
<1>t. ArrivalsTypeOK'
  BY NewRows DEF ArrivalsInv, ArrivalsTypeOK, SweepLeftover
<1>c1. NotYetPlaced'
  BY <1>s, NewRows DEF ArrivalsInv, NotYetPlaced, SweepLeftover
<1>c2. OwedAreGone'
  BY <1>s, NewRows DEF ArrivalsInv, OwedAreGone, NotYetPlaced, SweepLeftover
<1>c3. TriesKnow'
  BY <1>s, NewRows DEF ArrivalsInv, TriesKnow, NotYetPlaced, SweepLeftover
<1>c4. ArrivesWithBytes'
  BY <1>s, NewRows DEF ArrivalsInv, ArrivesWithBytes, HasBytes, TriesKnow, NotYetPlaced,
      OwedAreGone, SweepLeftover
<1>c5. KeysHeld'
  BY <1>s, NewRows DEF ArrivalsInv, KeysHeld, NotYetPlaced, SweepLeftover
<1>c6. DecidedRows'
  BY <1>s, NewRows DEF ArrivalsInv, DecidedRows, NotYetPlaced, SweepLeftover
<1>c7. FolderFollows'
  BY <1>s, NewRows, TriesFinite DEF ArrivalsInv, FolderFollows, ScanIsIn, DecidedRows,
      TriesKnow, ArrivesWithBytes, HasBytes, SweepLeftover
<1> QED
  BY <1>t, <1>c1, <1>c2, <1>c3, <1>c4, <1>c5, <1>c6, <1>c7 DEF ArrivalsInv

LEMMA EndsKeeps ==
  ASSUME ArrivalsInv, Ends
  PROVE  ArrivalsInv'
<1>t. ArrivalsTypeOK'
  BY Names DEF ArrivalsInv, ArrivalsTypeOK, Ends
<1>c1. NotYetPlaced'
  BY Names DEF ArrivalsInv, NotYetPlaced, Ends
<1>c2. OwedAreGone'
  BY Names DEF ArrivalsInv, OwedAreGone, NotYetPlaced, Ends
<1>c3. TriesKnow'
  BY Names DEF ArrivalsInv, TriesKnow, NotYetPlaced, Ends
<1>c4. ArrivesWithBytes'
  BY Names DEF ArrivalsInv, ArrivesWithBytes, HasBytes, TriesKnow, NotYetPlaced, OwedAreGone,
      Ends
<1>c5. KeysHeld'
  BY Names DEF ArrivalsInv, KeysHeld, NotYetPlaced, Ends
<1>c6. DecidedRows'
  BY Names DEF ArrivalsInv, DecidedRows, NotYetPlaced, Ends
<1>c7. FolderFollows'
  BY Names, TriesFinite DEF ArrivalsInv, FolderFollows, ScanIsIn, DecidedRows, TriesKnow,
      ArrivesWithBytes, HasBytes, Ends
<1> QED
  BY <1>t, <1>c1, <1>c2, <1>c3, <1>c4, <1>c5, <1>c6, <1>c7 DEF ArrivalsInv

LEMMA RemoveFirstKeeps ==
  ASSUME ArrivalsInv, RemoveFirst
  PROVE  ArrivalsInv'
<1>r. row' \in [Tries -> Rows]
  BY TakenOut DEF ArrivalsInv, ArrivalsTypeOK, RemoveFirst
<1>q. \A q \in Tries :
        IF row[q].state = "uploading" THEN row'[q] = NoRow
        ELSE /\ row'[q].state = IF row[q].state = "received" THEN "rejected" ELSE row[q].state
             /\ row'[q].emptied = row[q].emptied /\ row'[q].keyed = row[q].keyed
  BY TakenOut DEF ArrivalsInv, ArrivalsTypeOK, RemoveFirst
<1>n. \A q \in Tries : row[q] = NoRow => row'[q] = NoRow
  BY NewRows DEF RemoveFirst, Out
<1>p. pending = {}
  BY DEF ArrivalsInv, ArrivalsTypeOK, TriesKnow, RemoveFirst, Free, Undecided, In
<1>o. /\ owed \subseteq owed' /\ \A q \in owed' : q \in owed \/ (q \in Tries /\ row[q].state = "uploading")
      /\ \A q \in Rounds : row[q].state = "received" => decided'
      /\ decided => decided'
  BY DEF RemoveFirst, Leaves, In, ScanWaits
<1>t. ArrivalsTypeOK'
  BY <1>r, <1>o, Names DEF ArrivalsInv, ArrivalsTypeOK, RemoveFirst, ScanWaits
<1>c1. NotYetPlaced'
  BY <1>q, <1>n, <1>p, <1>o, NewRows, TriesFinite DEF ArrivalsInv, NotYetPlaced, RemoveFirst
<1>c2. OwedAreGone'
  BY <1>q, <1>n, <1>p, <1>o, NewRows, TriesFinite DEF ArrivalsInv, OwedAreGone, NotYetPlaced,
      RemoveFirst
<1>c3. TriesKnow'
  BY <1>q, <1>n, <1>p, <1>o, NewRows, TriesFinite DEF ArrivalsInv, TriesKnow, NotYetPlaced,
      RemoveFirst
<1>c4. ArrivesWithBytes'
  BY <1>q, <1>n, <1>p, <1>o, NewRows, TriesFinite DEF ArrivalsInv, ArrivesWithBytes, HasBytes,
      TriesKnow, NotYetPlaced, OwedAreGone, RemoveFirst
<1>c5. KeysHeld'
  BY <1>q, <1>n, <1>p, <1>o, NewRows, TriesFinite DEF ArrivalsInv, KeysHeld, NotYetPlaced,
      RemoveFirst
<1>c6. DecidedRows'
  BY <1>q, <1>n, <1>p, <1>o, NewRows, TriesFinite DEF ArrivalsInv, DecidedRows, NotYetPlaced,
      RemoveFirst
<1>c7. FolderFollows'
  BY <1>q, <1>n, <1>p, <1>o, NewRows, TriesFinite DEF ArrivalsInv, FolderFollows, ScanIsIn,
      DecidedRows, TriesKnow, ArrivesWithBytes, HasBytes, RemoveFirst
<1> QED
  BY <1>t, <1>c1, <1>c2, <1>c3, <1>c4, <1>c5, <1>c6, <1>c7 DEF ArrivalsInv

LEMMA RemoveLastKeeps ==
  ASSUME ArrivalsInv, RemoveLast
  PROVE  ArrivalsInv'
<1>r. row' \in [Tries -> Rows] /\ \A q \in Tries : row'[q] = NoRow
  BY Removed DEF ArrivalsInv, ArrivalsTypeOK, RemoveLast
<1>p. pending = {}
  BY DEF ArrivalsInv, ArrivalsTypeOK, TriesKnow, RemoveLast, Free, Undecided, In
<1>o. /\ owed \subseteq owed' /\ \A q \in owed' : q \in owed \/ (q \in Tries /\ row[q].state # "none")
      /\ \A q \in Rounds : row[q].state = "received" => decided'
      /\ decided => decided'
  BY DEF RemoveLast, Leaves, ScanWaits
<1>t. ArrivalsTypeOK'
  BY <1>r, <1>o, Names DEF ArrivalsInv, ArrivalsTypeOK, RemoveLast, ScanWaits
<1>c1. NotYetPlaced'
  BY <1>r, <1>p, <1>o, NewRows, TriesFinite DEF ArrivalsInv, NotYetPlaced, RemoveLast
<1>c2. OwedAreGone'
  BY <1>r, <1>p, <1>o, NewRows, TriesFinite DEF ArrivalsInv, OwedAreGone, NotYetPlaced,
      RemoveLast
<1>c3. TriesKnow'
  BY <1>r, <1>p, <1>o, NewRows, TriesFinite DEF ArrivalsInv, TriesKnow, NotYetPlaced, RemoveLast
<1>c4. ArrivesWithBytes'
  BY <1>r, <1>p, <1>o, NewRows, TriesFinite DEF ArrivalsInv, ArrivesWithBytes, HasBytes,
      TriesKnow, NotYetPlaced, OwedAreGone, RemoveLast
<1>c5. KeysHeld'
  BY <1>r, <1>p, <1>o, NewRows, TriesFinite DEF ArrivalsInv, KeysHeld, NotYetPlaced, RemoveLast
<1>c6. DecidedRows'
  BY <1>r, <1>p, <1>o, NewRows, TriesFinite DEF ArrivalsInv, DecidedRows, NotYetPlaced,
      RemoveLast
<1>c7. FolderFollows'
  BY <1>r, <1>p, <1>o, NewRows, TriesFinite DEF ArrivalsInv, FolderFollows, ScanIsIn,
      DecidedRows, TriesKnow, ArrivesWithBytes, HasBytes, RemoveLast
<1> QED
  BY <1>t, <1>c1, <1>c2, <1>c3, <1>c4, <1>c5, <1>c6, <1>c7 DEF ArrivalsInv

LEMMA SweepBatchKeeps ==
  ASSUME ArrivalsInv, SweepBatch
  PROVE  ArrivalsInv'
<1> PICK out \in SUBSET Undecided :
      /\ objects' = objects \ out
      /\ decided' = (decided \/ out \intersect Rounds # {})
      /\ \/ /\ out = Undecided /\ row' = Without(Tries)
            /\ owed' = owed \union Leaves(In({"accepted", "rejected"}))
            /\ batch' = "gone" /\ UNCHANGED faults
         \/ Fault /\ row' \in {row, Without(out)} /\ UNCHANGED <<owed, batch>>
  BY DEF SweepBatch
<1>p. pending = {} /\ batch # "open" /\ \A q \in out : q \in Tries /\ row[q].state \in {"uploading", "received"}
  BY DEF ArrivalsInv, ArrivalsTypeOK, TriesKnow, SweepBatch, Free, Undecided, In
<1>d. /\ \A q \in out : q \in Rounds => decided'
      /\ decided => decided'
  OBVIOUS
<1>1. CASE out = Undecided /\ row' = Without(Tries) /\ owed' = owed \union Leaves(In({"accepted", "rejected"}))
           /\ batch' = "gone" /\ UNCHANGED faults
  <2>r. row' \in [Tries -> Rows] /\ \A q \in Tries : row'[q] = NoRow
    BY <1>1, Removed DEF ArrivalsInv, ArrivalsTypeOK
  <2>o. /\ owed \subseteq owed' /\ \A q \in owed' : q \in owed \/ (q \in Tries /\ row[q].state # "none")
        /\ \A q \in Tries : row[q].state = "received" => q \in out
    BY <1>1 DEF Leaves, Undecided, In
  <2>t. ArrivalsTypeOK'
    BY <1>1, <2>r, <2>o, Names DEF ArrivalsInv, ArrivalsTypeOK, SweepBatch
  <2>c1. NotYetPlaced'
    BY <1>1, <1>p, <1>d, <2>r, <2>o, NewRows, TriesFinite DEF ArrivalsInv, NotYetPlaced,
        SweepBatch
  <2>c2. OwedAreGone'
    BY <1>1, <1>p, <1>d, <2>r, <2>o, NewRows, TriesFinite DEF ArrivalsInv, OwedAreGone,
        NotYetPlaced, SweepBatch
  <2>c3. TriesKnow'
    BY <1>1, <1>p, <1>d, <2>r, <2>o, NewRows, TriesFinite DEF ArrivalsInv, TriesKnow,
        NotYetPlaced, SweepBatch
  <2>c4. ArrivesWithBytes'
    BY <1>1, <1>p, <1>d, <2>r, <2>o, NewRows, TriesFinite DEF ArrivalsInv, ArrivesWithBytes,
        HasBytes, TriesKnow, NotYetPlaced, OwedAreGone, SweepBatch
  <2>c5. KeysHeld'
    BY <1>1, <1>p, <1>d, <2>r, <2>o, NewRows, TriesFinite DEF ArrivalsInv, KeysHeld,
        NotYetPlaced, SweepBatch
  <2>c6. DecidedRows'
    BY <1>1, <1>p, <1>d, <2>r, <2>o, NewRows, TriesFinite DEF ArrivalsInv, DecidedRows,
        NotYetPlaced, SweepBatch
  <2>c7. FolderFollows'
    BY <1>1, <1>p, <1>d, <2>r, <2>o, NewRows, TriesFinite DEF ArrivalsInv, FolderFollows,
        ScanIsIn, DecidedRows, TriesKnow, ArrivesWithBytes, HasBytes, SweepBatch
  <2> QED
    BY <2>t, <2>c1, <2>c2, <2>c3, <2>c4, <2>c5, <2>c6, <2>c7 DEF ArrivalsInv
<1>2. CASE Fault /\ row' \in {row, Without(out)} /\ UNCHANGED <<owed, batch>>
  <2>r. /\ row' \in [Tries -> Rows]
        /\ \A q \in Tries : row'[q] = row[q] \/ (q \in out /\ row'[q] = NoRow)
    BY <1>2, Removed DEF ArrivalsInv, ArrivalsTypeOK
  <2>t. ArrivalsTypeOK'
    BY <1>2, <2>r, FaultsBounded DEF ArrivalsInv, ArrivalsTypeOK, SweepBatch
  <2>c1. NotYetPlaced'
    BY <1>2, <1>p, <1>d, <2>r, NewRows, TriesFinite DEF ArrivalsInv, NotYetPlaced, SweepBatch
  <2>c2. OwedAreGone'
    BY <1>2, <1>p, <1>d, <2>r, NewRows, TriesFinite DEF ArrivalsInv, OwedAreGone, NotYetPlaced,
        SweepBatch
  <2>c3. TriesKnow'
    BY <1>2, <1>p, <1>d, <2>r, NewRows, TriesFinite DEF ArrivalsInv, TriesKnow, NotYetPlaced,
        SweepBatch
  <2>c4. ArrivesWithBytes'
    BY <1>2, <1>p, <1>d, <2>r, NewRows, TriesFinite DEF ArrivalsInv, ArrivesWithBytes, HasBytes,
        TriesKnow, NotYetPlaced, OwedAreGone, SweepBatch
  <2>c5. KeysHeld'
    BY <1>2, <1>p, <1>d, <2>r, NewRows, TriesFinite DEF ArrivalsInv, KeysHeld, NotYetPlaced,
        SweepBatch
  <2>c6. DecidedRows'
    BY <1>2, <1>p, <1>d, <2>r, NewRows, TriesFinite DEF ArrivalsInv, DecidedRows, NotYetPlaced,
        SweepBatch
  <2>c7. FolderFollows'
    BY <1>2, <1>p, <1>d, <2>r, NewRows, TriesFinite DEF ArrivalsInv, FolderFollows, ScanIsIn,
        DecidedRows, TriesKnow, ArrivesWithBytes, HasBytes, SweepBatch
  <2> QED
    BY <2>t, <2>c1, <2>c2, <2>c3, <2>c4, <2>c5, <2>c6, <2>c7 DEF ArrivalsInv
<1> QED
  BY <1>1, <1>2 DEF SweepBatch

THEOREM ArrivalsInvariant == Spec => []ArrivalsInv
<1>1. Init => ArrivalsInv
  <2> SUFFICES ASSUME Init PROVE ArrivalsInv
    OBVIOUS
  <2>1. ArrivalsTypeOK
    <3>1. at \in [Tries -> Stages] /\ row \in [Tries -> Rows]
      BY Names, NewRows DEF Init
    <3>2. batch \in BatchStates /\ faults \in 0..MaxFaults
      BY Names, ArrivalsAssumption DEF Init
    <3> QED
      BY <3>1, <3>2 DEF Init, ArrivalsTypeOK
  <2>2. NotYetPlaced /\ OwedAreGone /\ TriesKnow /\ ArrivesWithBytes
    BY NewRows DEF Init, NotYetPlaced, OwedAreGone, TriesKnow, ArrivesWithBytes
  <2>3. KeysHeld /\ DecidedRows /\ FolderFollows
    BY NewRows DEF Init, KeysHeld, DecidedRows, FolderFollows
  <2> QED
    BY <2>1, <2>2, <2>3 DEF ArrivalsInv
<1>2. ArrivalsInv /\ [Next]_vars => ArrivalsInv'
  <2> SUFFICES ASSUME ArrivalsInv, [Next]_vars PROVE ArrivalsInv'
    OBVIOUS
  <2>1. CASE UNCHANGED vars
    BY <2>1 DEF vars, ArrivalsInv, ArrivalsTypeOK, NotYetPlaced, OwedAreGone, TriesKnow, HasBytes,
         ArrivesWithBytes, KeysHeld, DecidedRows, FolderFollows, ScanIsIn
  <2>2. CASE RemoveFirst \/ RemoveLast \/ Ends \/ SweepBatch
    BY <2>2, RemoveFirstKeeps, RemoveLastKeeps, EndsKeeps, SweepBatchKeeps
  <2>3. ASSUME NEW t \in Tries,
               \/ Place(t) \/ Refuse(t)
               \/ Look(t) \/ ClearStale(t) \/ PlaceScan(t) \/ Later(t) \/ RemoveFile(t)
        PROVE  ArrivalsInv'
    BY <2>3, PlaceKeeps, RefuseKeeps, LookKeeps, ClearStaleKeeps, PlaceScanKeeps, LaterKeeps,
       RemoveFileKeeps
  <2>4. ASSUME NEW t \in Tries,
               Put(t) \/ Arrive(t) \/ DatabaseEnds(t) \/ Discard(t) \/ Unplace(t) \/ Stop(t) \/ Age(t)
        PROVE  ArrivalsInv'
    BY <2>4, PutKeeps, ArriveKeeps, DatabaseEndsKeeps, DiscardKeeps, UnplaceKeeps, StopKeeps, AgeKeeps
  <2>5. ASSUME NEW t \in Tries,
               Decide(t, "accepted") \/ Decide(t, "rejected") \/ Empty(t) \/ SweepLeftover(t)
        PROVE  ArrivalsInv'
    BY <2>5, DecideKeeps, EmptyKeeps, SweepLeftoverKeeps
  <2> QED
    BY <2>1, <2>2, <2>3, <2>4, <2>5 DEF Next
<1> QED
  BY <1>1, <1>2, PTL DEF Spec

\* A file is in the batch once, however often its browser sends it and
\* whichever worker's try was taken for dead (addItem, clearStaleItem).
THEOREM InOnce == Spec => []SentOnce
<1>1. ArrivalsInv => SentOnce
  BY DEF ArrivalsInv, KeysHeld, SentOnce, In
<1> QED
  BY <1>1, ArrivalsInvariant, PTL

\* A scanned file leaves its folder only once an item has its bytes, or the
\* person decided about it: unless an arrival's answer was lost.
THEOREM FolderLosesNothing == Spec => []ScanKeptIfSure
<1>1. ArrivalsInv => ScanKeptIfSure
  BY DEF ArrivalsInv, ArrivalsTypeOK, FolderFollows, ScanIsIn, ScanKeptIfSure, ScanKept
<1> QED
  BY <1>1, ArrivalsInvariant, PTL

-----------------------------------------------------------------------------
(* The places in the batch.                                                *)

Held == {q \in Taken : ~row[q].stale}

LEMMA HeldFinite == IsFiniteSet(Taken) /\ IsFiniteSet(Held) /\ Cardinality(Held) <= Cardinality(Taken)
<1>1. Taken \subseteq Tries /\ Held \subseteq Taken
  BY DEF Taken, Held, In
<1> QED
  BY <1>1, TriesFinite, FS_Subset

LEMMA PlaceTaken ==
  ASSUME ~Full, NEW t, Held' \subseteq Held \union {t}
  PROVE  Cardinality(Held') <= Room
<1>0. IsFiniteSet(Held) /\ Cardinality(Held) \in Nat
  BY HeldFinite, FS_CardinalityType
<1>1. /\ IsFiniteSet(Held \union {t})
      /\ Cardinality(Held \union {t}) <= Cardinality(Held) + 1
  <2>1. CASE t \in Held
    <3>1. Held \union {t} = Held
      BY <2>1
    <3> QED
      BY <1>0, <3>1
  <2>2. CASE t \notin Held
    BY <1>0, <2>2, FS_AddElement
  <2> QED
    BY <2>1, <2>2
<1>2. Cardinality(Held') <= Cardinality(Held \union {t}) /\ Cardinality(Held') \in Nat
  BY <1>1, FS_Subset, FS_CardinalityType
<1>3. Cardinality(Held) \in Nat /\ Cardinality(Taken) \in Nat /\ Cardinality(Held \union {t}) \in Nat
  BY <1>1, HeldFinite, FS_CardinalityType
<1>4. Cardinality(Held) + 1 <= Room
  BY <1>3, HeldFinite, ArrivalsAssumption DEF Full
<1> QED
  BY <1>1, <1>2, <1>3, <1>4, ArrivalsAssumption

LEMMA FewerHeld ==
  ASSUME Cardinality(Held) <= Room, Held' \subseteq Held
  PROVE  Cardinality(Held') <= Room
<1>1. Cardinality(Held') <= Cardinality(Held) /\ Cardinality(Held') \in Nat /\ Cardinality(Held) \in Nat
  BY HeldFinite, FS_Subset, FS_CardinalityType
<1> QED
  BY <1>1, ArrivalsAssumption

\* However many files come at once, the batch never holds more than it may:
\* each is counted with the batch held (addItem, dayBatch), and what arrives
\* had its place.
THEOREM PlacesAreKept == Spec => []PlacesKept
<1> DEFINE Kept == Cardinality(Held) <= Room
<1>1. Init => Kept
  <2> SUFFICES ASSUME Init PROVE Kept
    OBVIOUS
  <2>1. Held = {}
    BY NewRows DEF Init, Held, Taken, Fresh, In
  <2> QED
    BY <2>1, FS_EmptySet, ArrivalsAssumption
<1>2. ArrivalsInv /\ Kept /\ [Next]_vars => Kept'
  <2> SUFFICES ASSUME ArrivalsInv, Kept, [Next]_vars PROVE Kept'
    OBVIOUS
  <2> USE DEF ArrivalsInv, ArrivalsTypeOK
  <2>1. ASSUME row' = row PROVE Kept'
    BY <2>1 DEF Held, Taken, Fresh, In
  <2>2. ASSUME NEW t \in Tries, Place(t) PROVE Kept'
    <3>1. \A q \in Tries \ {t} : row'[q] = IF q \in Prior(t) THEN NoRow ELSE row[q]
      BY <2>2, RemovedAndPlaced DEF Place
    <3>2. Held' \subseteq Held \union {t}
      BY <3>1, NewRows DEF Held, Taken, Fresh, In
    <3> QED
      BY <2>2, <3>2, PlaceTaken DEF Place
  <2>3. ASSUME NEW t \in Tries, PlaceScan(t) PROVE Kept'
    <3>1. Held' \subseteq Held \union {t}
      BY <2>3, NewRows DEF PlaceScan, Held, Taken, Fresh, In
    <3> QED
      BY <2>3, <3>1, PlaceTaken DEF PlaceScan
  <2>4. ASSUME NEW t \in Tries, ClearStale(t) PROVE Kept'
    <3>1. row' = LetGo \/ row' = row
      BY <2>4 DEF ClearStale
    <3>2. Held' \subseteq Held
      BY <3>1, KeysLetGo, NewRows DEF Held, Taken, Fresh, In
    <3> QED
      BY <3>2, FewerHeld
  <2>5. ASSUME NEW t \in Tries, Arrive(t) \/ DatabaseEnds(t) PROVE Kept'
    <3>1. row' = row \/ (row[t].state = "uploading" /\ row' = [row EXCEPT ![t].state = "received"])
      BY <2>5 DEF Arrive, DatabaseEnds, TriesKnow
    <3>2. Held' \subseteq Held
      BY <3>1, SetState, Names DEF Held, Taken, Fresh, In
    <3> QED
      BY <3>2, FewerHeld
  <2>6. ASSUME NEW t \in Tries, Unplace(t) PROVE Kept'
    <3>1. Held' \subseteq Held
      BY <2>6, Removed, NewRows DEF Unplace, Held, Taken, Fresh, In
    <3> QED
      BY <3>1, FewerHeld
  <2>7. ASSUME NEW t \in Tries, Age(t) PROVE Kept'
    <3>1. Held' \subseteq Held
      BY <2>7, SetStale DEF Age, Held, Taken, Fresh, In
    <3> QED
      BY <3>1, FewerHeld
  <2>8. ASSUME NEW t \in Tries, NEW s \in {"accepted", "rejected"}, Decide(t, s) PROVE Kept'
    <3>1. Held' \subseteq Held
      BY <2>8, SetState, Names DEF Decide, Held, Taken, Fresh, In
    <3> QED
      BY <3>1, FewerHeld
  <2>9. ASSUME NEW t \in Tries, Empty(t) PROVE Kept'
    <3>1. Held' \subseteq Held
      BY <2>9, SetEmptied DEF Empty, Held, Taken, Fresh, In
    <3> QED
      BY <3>1, FewerHeld
  <2>10. CASE RemoveFirst
    <3>1. Held' \subseteq Held
      BY <2>10, TakenOut, NewRows DEF RemoveFirst, Held, Taken, Fresh, In
    <3> QED
      BY <3>1, FewerHeld
  <2>11. CASE RemoveLast
    <3>1. Held' \subseteq Held
      BY <2>11, Removed, NewRows DEF RemoveLast, Held, Taken, Fresh, In
    <3> QED
      BY <3>1, FewerHeld
  <2>12. CASE SweepBatch
    <3>1. PICK out \in SUBSET Tries : row' = row \/ row' = Without(out) \/ row' = Without(Tries)
      BY <2>12 DEF SweepBatch, Undecided, In
    <3>2. Held' \subseteq Held
      BY <3>1, Removed, NewRows DEF Held, Taken, Fresh, In
    <3> QED
      BY <3>2, FewerHeld
  <2>13. ASSUME NEW t \in Tries,
                \/ Refuse(t) \/ Look(t) \/ Later(t) \/ RemoveFile(t) \/ Put(t) \/ Discard(t) \/ Stop(t)
                \/ SweepLeftover(t)
         PROVE  row' = row
    BY <2>13 DEF Refuse, Look, Later, RemoveFile, Put, Discard, Stop, SweepLeftover
  <2>14. Ends \/ UNCHANGED vars => row' = row
    BY DEF Ends, vars
  <2> QED
    BY <2>1, <2>2, <2>3, <2>4, <2>5, <2>6, <2>7, <2>8, <2>9, <2>10, <2>11, <2>12, <2>13, <2>14 DEF Next
<1>3. Kept => PlacesKept
  BY DEF Held, PlacesKept
<1> QED
  BY <1>1, <1>2, <1>3, ArrivalsInvariant, PTL DEF Spec

-----------------------------------------------------------------------------
(* The objects.                                                            *)

\* No bytes stay on storage where nothing will remove them.
THEOREM NothingIsLeft == Spec => []NothingLeft
<1>1. Init => NothingLeft
  BY DEF Init, NothingLeft
<1>2. ArrivalsInv /\ ArrivalsInv' /\ NothingLeft /\ [Next]_vars => NothingLeft'
  <2> SUFFICES ASSUME ArrivalsInv, ArrivalsInv', NothingLeft, [Next]_vars PROVE NothingLeft'
    OBVIOUS
  <2> USE DEF ArrivalsInv, ArrivalsTypeOK, NothingLeft
  <2>1. CASE UNCHANGED vars
    BY <2>1 DEF vars, Named, Writing
  <2>2. ASSUME NEW t \in Tries, Place(t) PROVE NothingLeft'
    <3>1. \A q \in Prior(t) : q \in Tries \ {t} /\ row[q].state = "uploading" /\ ~row[q].emptied
      BY <2>2, NewRows DEF NotYetPlaced, DecidedRows, Place, Prior, Dead
    <3>2. /\ row'[t] = OnItsWay /\ Prior(t) \subseteq owed'
          /\ \A q \in Tries \ {t} : row'[q] = IF q \in Prior(t) THEN NoRow ELSE row[q]
      BY <2>2, <3>1, RemovedAndPlaced DEF Place, Leaves, Prior
    <3>3. at' = [at EXCEPT ![t] = "placed"] /\ at[t] = "idle"
      BY <2>2 DEF Place, Goto
    <3> QED
      BY <2>2, <3>1, <3>2, <3>3, NewRows DEF Place, Named, Writing
  <2>3. ASSUME NEW t \in Tries, Refuse(t) \/ Later(t) \/ RemoveFile(t) \/ Look(t) PROVE NothingLeft'
    BY <2>3 DEF Refuse, Later, RemoveFile, Look, Goto, Named, Writing
  <2>4. ASSUME NEW t \in Tries, ClearStale(t) PROVE NothingLeft'
    <3>1. at' = [at EXCEPT ![t] = "cleared"] \/ at' = [at EXCEPT ![t] = "idle"]
      BY <2>4 DEF ClearStale, Goto
    <3>2. at[t] = "hashed" /\ owed' = owed
      BY <2>4 DEF ClearStale
    <3>3. \/ row' \in {row, LetGo} /\ objects' = objects \ Left /\ astray' = astray
          \/ row' = LetGo /\ objects' = objects /\ astray' = astray \union Left
      BY <2>4 DEF ClearStale
    <3>4. \A q \in Tries \ Left : row'[q].state = row[q].state /\ row'[q].emptied = row[q].emptied
      BY <3>3, KeysLetGo
    <3> QED
      BY <3>1, <3>2, <3>3, <3>4 DEF Named, Writing
  <2>5. ASSUME NEW t \in Tries, PlaceScan(t) PROVE NothingLeft'
    BY <2>5, NewRows DEF PlaceScan, Goto, Named, Writing
  <2>6. ASSUME NEW t \in Tries, Put(t) PROVE NothingLeft'
    BY <2>6 DEF Put, Goto, Named, Writing
  <2>7. ASSUME NEW t \in Tries, Arrive(t) PROVE NothingLeft'
    <3>1. row' = row \/ row' = [row EXCEPT ![t].state = "received"]
      BY <2>7 DEF Arrive
    <3>2. \/ at' = [at EXCEPT ![t] = "discarding"]
          \/ row'[t].state = "received" /\ \E s \in Stages : at' = [at EXCEPT ![t] = s]
      BY <2>7, SetState, Names DEF Arrive, Goto
    <3> QED
      BY <2>7, <3>1, <3>2, SetState, Names DEF Arrive, Named, Writing
  <2>8. ASSUME NEW t \in Tries, DatabaseEnds(t) PROVE NothingLeft'
    <3>1. row' = row \/ row' = [row EXCEPT ![t].state = "received"]
      BY <2>8 DEF DatabaseEnds
    <3> QED
      BY <2>8, <3>1, SetState, Names DEF DatabaseEnds, Named, Writing
  <2>9. ASSUME NEW t \in Tries, Discard(t) PROVE NothingLeft'
    BY <2>9 DEF Discard, Goto, Named, Writing
  <2>10. ASSUME NEW t \in Tries, Unplace(t) PROVE NothingLeft'
    <3>1. \A q \in Tries : row'[q] = IF q = t /\ row[t].state = "uploading" THEN NoRow ELSE row[q]
      BY <2>10, Removed DEF Unplace, In
    <3>2. at' = [at EXCEPT ![t] = "over"] /\ at[t] = "unplacing" /\ owed \subseteq owed'
      BY <2>10 DEF Unplace, Goto
    <3>3. t \in objects => t \in astray
      BY <3>2 DEF TriesKnow
    <3> QED
      BY <2>10, <3>1, <3>2, <3>3 DEF Unplace, Named, Writing
  <2>11. ASSUME NEW t \in Tries, Stop(t) PROVE NothingLeft'
    BY <2>11 DEF Stop, Goto, Named, Writing
  <2>12. ASSUME NEW t \in Tries, Age(t) PROVE NothingLeft'
    BY <2>12, SetStale DEF Age, Named, Writing
  <2>13. ASSUME NEW t \in Tries, NEW s \in {"accepted", "rejected"}, Decide(t, s) PROVE NothingLeft'
    BY <2>13, SetState, Names DEF Decide, Named, Writing, DecidedRows
  <2>14. ASSUME NEW t \in Tries, Empty(t) PROVE NothingLeft'
    BY <2>14, SetEmptied DEF Empty, Named, Writing
  <2>15. ASSUME NEW t \in Tries, SweepLeftover(t) PROVE NothingLeft'
    BY <2>15 DEF SweepLeftover, Named, Writing
  <2>16. CASE RemoveFirst
    <3>1. In({"uploading"}) \subseteq owed'
      BY <2>16 DEF RemoveFirst, Leaves, In, DecidedRows
    <3>2. \A q \in Tries :
            IF row[q].state = "uploading" THEN q \in owed'
            ELSE /\ row'[q].state = IF row[q].state = "received" THEN "rejected" ELSE row[q].state
                 /\ row'[q].emptied = row[q].emptied
      BY <2>16, <3>1, TakenOut DEF RemoveFirst, In
    <3> QED
      BY <2>16, <3>2 DEF RemoveFirst, Named, Writing, DecidedRows
  <2>17. CASE RemoveLast
    <3>1. \A q \in Tries : Named(q) => q \in owed'
      BY <2>17 DEF RemoveLast, Leaves, Named, DecidedRows
    <3> QED
      BY <2>17, <3>1 DEF RemoveLast, Named, Writing
  <2>18. CASE Ends
    BY <2>18 DEF Ends, Named, Writing
  <2>19. CASE SweepBatch
    <3>1. PICK out \in SUBSET Undecided :
            /\ objects' = objects \ out
            /\ \/ /\ out = Undecided /\ owed' = owed \union Leaves(In({"accepted", "rejected"}))
               \/ row' \in {row, Without(out)} /\ owed' = owed
      BY <2>19 DEF SweepBatch
    <3>2. CASE out = Undecided /\ owed' = owed \union Leaves(In({"accepted", "rejected"}))
      BY <2>19, <3>1, <3>2 DEF SweepBatch, Leaves, Undecided, In, Named, Writing
    <3>3. CASE row' \in {row, Without(out)} /\ owed' = owed
      <4>1. \A q \in Tries \ out : row'[q] = row[q]
        BY <3>3, Removed
      <4> QED
        BY <2>19, <3>1, <3>3, <4>1 DEF SweepBatch, Named, Writing
    <3> QED
      BY <3>1, <3>2, <3>3
  <2> QED
    BY <2>1, <2>2, <2>3, <2>4, <2>5, <2>6, <2>7, <2>8, <2>9, <2>10, <2>11, <2>12, <2>13, <2>14, <2>15,
       <2>16, <2>17, <2>18, <2>19 DEF Next
<1> QED
  BY <1>1, <1>2, ArrivalsInvariant, PTL DEF Spec
=============================================================================
