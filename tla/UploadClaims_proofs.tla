------------------------- MODULE UploadClaims_proofs -------------------------
(***************************************************************************)
(* Theorems about UploadClaims, for any number of tries, failures and      *)
(* changes of who the document is for.                                     *)
(***************************************************************************)
EXTENDS UploadClaims, FiniteSetTheorems, TLAPS

LEMMA ObjectsDiffer ==
  \A t, u \in Tries : Temp(t) # Kept(u) /\ (Kept(t) = Kept(u) => t = u)
BY DEF Temp, Kept

LEMMA InitInv == Init => UploadsInv
<1> SUFFICES ASSUME Init PROVE UploadsInv
  OBVIOUS
<1>1. TypeOK
  <2>1. claim \in Claims
    BY DEF Init, NoClaim, Claims, Fresh, Expired
  <2>2. try \in [Tries -> TryRecords]
    BY DEF Init, TryRecords, Stages
  <2>3. wrapped \in [Tries -> Scopes \union {NoOne}] /\ sweep \in Sweeps
    BY DEF Init, NoOne, Sweeps, NoSweep
  <2>4. faults \in 0..MaxFaults /\ moves \in 0..MaxMoves
    BY TriesAssumption DEF Init
  <2>5. lock \in Tries \union {NoTry} /\ sent \in BOOLEAN /\ forgotten \in BOOLEAN /\ doc \in Scopes
    BY DEF Init
  <2>6. objects \subseteq Objects
    BY DEF Init
  <2> QED
    BY <2>1, <2>2, <2>3, <2>4, <2>5, <2>6 DEF TypeOK
<1>2. Versions = {}
  BY DEF Init, Versions, NoOne
<1> QED
  BY <1>1, <1>2 DEF Init, UploadsInv, LockHeld, CommitSound, KeyRemembers, VersionHasObject,
     WrappedForItsReaders

\* A step of one try that takes, keeps or gives back no lock, and takes nothing
\* that a version or a commit under way needs, keeps the invariant.
LEMMA QuietTry ==
  ASSUME UploadsInv, NEW t \in Tries, NEW r \in TryRecords,
         try' = [try EXCEPT ![t] = r],
         try[t].at \notin {"committing", "placed"},
         r.at \notin {"new", "committing", "placed"},
         lock # NoTry => lock # t \/ r.scope = try[t].scope,
         UNCHANGED <<lock, sent, wrapped, doc>>,
         claim' \in Claims, objects' \subseteq Objects,
         sweep' \in Sweeps, faults' \in 0..MaxFaults, moves' \in 0..MaxMoves, forgotten' \in BOOLEAN,
         \A u \in Versions : Kept(u) \in objects',
         \A u \in Tries : Kept(u) \in objects /\ (try[u].at = "placed" \/ lock = u) => Kept(u) \in objects',
         KeyRemembers'
  PROVE  UploadsInv'
<1> USE DEF UploadsInv
<1>1. TypeOK'
  BY DEF TypeOK
<1>2. /\ try'[t] = r
      /\ \A u \in Tries \ {t} : try'[u] = try[u]
  BY DEF TypeOK
<1>3. LockHeld'
  BY <1>2 DEF LockHeld, TypeOK
<1>4. CommitSound'
  <2>1. \A u \in Tries : try'[u].at = "placed" => Kept(u) \in objects'
    BY <1>2 DEF CommitSound
  <2>2. sent' => Kept(lock') \in objects' /\ try'[lock'].at # "new"
    BY <1>2 DEF CommitSound, LockHeld, TypeOK
  <2>3. lock' # NoTry => SameScope(lock)'
    BY <1>2 DEF CommitSound, SameScope, TypeOK
  <2> QED
    BY <2>1, <2>2, <2>3 DEF CommitSound, SameScope
<1>5. VersionHasObject' /\ WrappedForItsReaders'
  BY DEF VersionHasObject, WrappedForItsReaders, Versions
<1> QED
  BY <1>1, <1>3, <1>4, <1>5

\* Deleting a temporary object takes nothing a version needs.
LEMMA TempsAreNotKept ==
  ASSUME NEW t \in Tries, objects' = objects \/ objects' = objects \ {Temp(t)}
                          \/ objects' = objects \union {Temp(t)}
  PROVE  /\ \A u \in Tries : Kept(u) \in objects => Kept(u) \in objects'
         /\ objects \subseteq Objects => objects' \subseteq Objects
BY ObjectsDiffer DEF Objects

LEMMA StageType ==
  ASSUME TypeOK, NEW t \in Tries, NEW stage \in Stages
  PROVE  /\ [try[t] EXCEPT !.at = stage] \in TryRecords
         /\ [try[t] EXCEPT !.at = stage].at = stage
         /\ [try[t] EXCEPT !.at = stage].scope = try[t].scope
         /\ [try EXCEPT ![t].at = stage] = [try EXCEPT ![t] = [try[t] EXCEPT !.at = stage]]
BY DEF TypeOK, TryRecords

-----------------------------------------------------------------------------
(* The steps of a try outside its commit.                                  *)

LEMMA ClaimKeeps ==
  ASSUME UploadsInv, NEW t \in Tries, ClaimKey(t) \/ ReplayKey(t)
  PROVE  UploadsInv'
<1> USE DEF UploadsInv
<1>1. CASE ClaimKey(t)
  <2> DEFINE r == [at |-> IF TakenOver THEN "taking" ELSE "streaming", scope |-> doc,
                   leftover |-> IF TakenOver THEN claim.nonce ELSE NoTry, moved |-> FALSE]
  <2>1. r \in TryRecords /\ claim' \in Claims
    BY <1>1 DEF ClaimKey, TypeOK, TryRecords, Stages, Claims, Fresh, Expired
  <2>2. KeyRemembers'
    BY <1>1 DEF ClaimKey, KeyRemembers, TakenOver, Versions, LockHeld
  <2>3. r.at \notin {"new", "committing", "placed"} /\ try[t].at = "new"
    BY <1>1 DEF ClaimKey
  <2>4. try' = [try EXCEPT ![t] = r] /\ lock = NoTry
    BY <1>1 DEF ClaimKey
  <2> HIDE DEF r
  <2> QED
    BY <1>1, <2>1, <2>2, <2>3, <2>4, QuietTry DEF ClaimKey, TypeOK, VersionHasObject
<1>2. CASE ReplayKey(t)
  <2>1. KeyRemembers'
    BY <1>2 DEF ReplayKey, KeyRemembers, Versions, Mine
  <2> QED
    BY <1>2, <2>1, QuietTry, StageType DEF ReplayKey, Goto, TypeOK, Stages, VersionHasObject
<1> QED
  BY <1>1, <1>2

LEMMA FaultType ==
  ASSUME TypeOK, Fault \/ faults' = faults
  PROVE  faults' \in 0..MaxFaults
BY TriesAssumption DEF TypeOK, Fault

LEMMA KeyLeftAlone ==
  ASSUME UploadsInv, UNCHANGED <<claim, lock, sent, wrapped, forgotten>>
  PROVE  KeyRemembers'
BY DEF UploadsInv, KeyRemembers, Versions, Mine

\* A try goes on with its file, or cleans up after it.
LEMMA FileStepKeeps ==
  ASSUME UploadsInv, NEW t \in Tries,
         DropLeftover(t) \/ Stream(t) \/ Learn(t) \/ CleanUp(t)
  PROVE  UploadsInv'
<1> USE DEF UploadsInv
<1>1. PICK stage \in Stages \ {"new", "committing", "placed"} :
        try' = [try EXCEPT ![t].at = stage]
  BY DEF DropLeftover, Stream, Learn, CleanUp, Goto, Stages
<1>2. /\ try[t].at \notin {"committing", "placed"}
      /\ UNCHANGED <<claim, lock, sent, wrapped, doc, sweep, moves, forgotten>>
      /\ Fault \/ faults' = faults
  BY DEF DropLeftover, Stream, Learn, CleanUp
<1>3. /\ \A u \in Tries : Kept(u) \in objects => Kept(u) \in objects'
      /\ objects' \subseteq Objects
  <2>1. CASE DropLeftover(t)
    BY <2>1, ObjectsDiffer DEF DropLeftover, TypeOK, TryRecords, Temp, Kept
  <2>2. CASE Stream(t) \/ CleanUp(t)
    BY <2>2, TempsAreNotKept DEF Stream, CleanUp, TypeOK
  <2>3. CASE Learn(t)
    BY <2>3 DEF Learn, TypeOK
  <2> QED
    BY <2>1, <2>2, <2>3
<1>4. KeyRemembers' /\ faults' \in 0..MaxFaults
  BY <1>2, KeyLeftAlone, FaultType
<1> QED
  BY <1>1, <1>2, <1>3, <1>4, QuietTry, StageType DEF TypeOK, VersionHasObject, Versions

LEMMA ReleaseKeeps ==
  ASSUME UploadsInv, NEW t \in Tries, Release(t) \/ ReleaseFails(t)
  PROVE  UploadsInv'
<1> DEFINE r == [try[t] EXCEPT !.at = "failed"]
<1>1. /\ try[t].at = "releasing"
      /\ objects' # objects => lock = NoTry
      /\ objects' = objects \/ objects' = objects \ MovedInVain(t)
      /\ UNCHANGED <<lock, sent, wrapped, doc, sweep, moves, forgotten>>
  BY DEF Release, ReleaseFails
<1>2. /\ \A u \in Tries : Kept(u) \in objects /\ (u \in Versions \/ u # t) => Kept(u) \in objects'
      /\ objects' \subseteq Objects
  BY <1>1, ObjectsDiffer DEF UploadsInv, MovedInVain, Unused, Versions, TypeOK
<1>3. KeyRemembers'
  <2>1. CASE Release(t)
    BY <2>1 DEF UploadsInv, Release, KeyRemembers, Versions, Mine, NoClaim, LockHeld
  <2>2. CASE ReleaseFails(t)
    BY <1>1, <2>2, KeyLeftAlone DEF ReleaseFails
  <2> QED
    BY <2>1, <2>2
<1>4. claim' \in Claims /\ faults' \in 0..MaxFaults
  BY FaultType DEF UploadsInv, Release, ReleaseFails, TypeOK, Claims, NoClaim, Fresh, Expired
<1>5. "failed" \in Stages
  BY DEF Stages
<1>6. r \in TryRecords /\ r.at = "failed" /\ r.scope = try[t].scope /\ try' = [try EXCEPT ![t] = r]
  BY <1>5, StageType DEF UploadsInv, Release, ReleaseFails, Goto
<1>7. \A u \in Versions : Kept(u) \in objects'
  BY <1>2 DEF UploadsInv, VersionHasObject, Versions
<1>8. \A u \in Tries : Kept(u) \in objects /\ (try[u].at = "placed" \/ lock = u) => Kept(u) \in objects'
  BY <1>1, <1>2, TriesAssumption
<1>9. sweep' \in Sweeps /\ moves' \in 0..MaxMoves /\ forgotten' \in BOOLEAN
  BY <1>1 DEF UploadsInv, TypeOK
<1> HIDE DEF r
<1> QED
  BY <1>1, <1>2, <1>3, <1>4, <1>6, <1>7, <1>8, <1>9, QuietTry

-----------------------------------------------------------------------------
(* The commit.                                                             *)

LEMMA CheckKeeps ==
  ASSUME UploadsInv, NEW t \in Tries, Check(t)
  PROVE  UploadsInv'
<1>1. /\ try[t].at = "stored" /\ lock = NoTry /\ ~sent
      /\ UNCHANGED <<claim, sent, objects, wrapped, doc, sweep, faults, moves, forgotten>>
      /\ KeyRemembers'
  <2>1. UNCHANGED <<claim, sent, wrapped, forgotten>> /\ ~sent /\ lock = NoTry
    BY DEF Check, UploadsInv, LockHeld
  <2>2. lock' # NoTry => Mine(lock)'
    BY <2>1, TriesAssumption DEF Check, StillMine, Mine
  <2> QED
    BY <2>1, <2>2 DEF Check, UploadsInv, KeyRemembers, Versions
<1>2. CASE StillMine(t) /\ SameScope(t)
  <2>1. lock' = t /\ try' = [try EXCEPT ![t].at = "committing"]
    BY <1>2 DEF Check, Goto
  <2>2. /\ try'[t].at = "committing" /\ try'[t].scope = try[t].scope
        /\ \A u \in Tries \ {t} : try'[u] = try[u]
        /\ try' \in [Tries -> TryRecords]
    BY <2>1 DEF UploadsInv, TypeOK, TryRecords, Stages
  <2>3. TypeOK'
    BY <1>1, <2>1, <2>2 DEF UploadsInv, TypeOK
  <2>4. LockHeld'
    <3>1. t # NoTry /\ \A u \in Tries : try[u].at \notin {"committing", "placed"}
      BY <1>1, TriesAssumption DEF UploadsInv, LockHeld
    <3> QED
      BY <1>1, <2>1, <2>2, <3>1 DEF LockHeld
  <2>5. CommitSound'
    BY <1>1, <1>2, <2>1, <2>2 DEF UploadsInv, CommitSound, SameScope
  <2> QED
    BY <1>1, <2>3, <2>4, <2>5 DEF UploadsInv, VersionHasObject, WrappedForItsReaders, Versions
<1>3. CASE ~(StillMine(t) /\ SameScope(t))
  <2>1. lock' = lock /\ try' = [try EXCEPT ![t] = [try[t] EXCEPT !.at = "cleaning"]]
    BY <1>3, StageType DEF Check, Goto, UploadsInv, Stages
  <2> QED
    BY <1>1, <2>1, QuietTry, StageType DEF UploadsInv, TypeOK, VersionHasObject, Stages
<1> QED
  BY <1>2, <1>3

LEMMA PlaceKeeps ==
  ASSUME UploadsInv, NEW t \in Tries, Place(t)
  PROVE  UploadsInv'
<1>1. /\ try[t].at = "committing" /\ lock = t /\ ~sent
      /\ try' = [try EXCEPT ![t].at = "placed", ![t].moved = TRUE]
      /\ UNCHANGED <<claim, lock, sent, wrapped, doc, sweep, faults, moves, forgotten>>
  BY DEF Place, UploadsInv, LockHeld
<1>2. /\ try'[t].at = "placed" /\ try'[t].scope = try[t].scope
      /\ \A u \in Tries \ {t} : try'[u] = try[u]
      /\ try' \in [Tries -> TryRecords]
  <2> DEFINE r == [try[t] EXCEPT !.at = "placed", !.moved = TRUE]
  <2>1. r \in TryRecords /\ r.at = "placed" /\ r.scope = try[t].scope /\ try' = [try EXCEPT ![t] = r]
    BY <1>1 DEF UploadsInv, TypeOK, TryRecords, Stages
  <2> HIDE DEF r
  <2> QED
    BY <2>1 DEF UploadsInv, TypeOK
<1>3. /\ \A u \in Tries : Kept(u) \in objects => Kept(u) \in objects'
      /\ Kept(t) \in objects'
      /\ objects' \subseteq Objects
  BY ObjectsDiffer DEF Place, Objects, UploadsInv, TypeOK
<1>4. TypeOK'
  BY <1>1, <1>2, <1>3 DEF UploadsInv, TypeOK
<1>5. LockHeld' /\ KeyRemembers'
  BY <1>1, <1>2, KeyLeftAlone DEF UploadsInv, LockHeld
<1>6. CommitSound'
  BY <1>1, <1>2, <1>3 DEF UploadsInv, CommitSound, SameScope
<1> QED
  BY <1>1, <1>3, <1>4, <1>5, <1>6 DEF UploadsInv, VersionHasObject, WrappedForItsReaders, Versions

\* A try that gives its lock back without committing, what it placed left where
\* it is.
LEMMA LockGivenBack ==
  ASSUME UploadsInv, NEW t \in Tries, NEW r \in TryRecords,
         lock = t, ~sent,
         try' = [try EXCEPT ![t] = r],
         r.at \notin {"new", "committing", "placed"},
         lock' = NoTry,
         \A u \in Tries : Kept(u) \in objects => Kept(u) \in objects',
         objects' \subseteq Objects, faults' \in 0..MaxFaults,
         UNCHANGED <<claim, sent, wrapped, doc, sweep, moves, forgotten>>
  PROVE  UploadsInv'
<1>1. try'[t] = r /\ \A u \in Tries \ {t} : try'[u] = try[u]
  BY DEF UploadsInv, TypeOK
<1>2. TypeOK'
  BY DEF UploadsInv, TypeOK
<1>3. LockHeld'
  BY <1>1 DEF UploadsInv, LockHeld
<1>4. CommitSound'
  BY <1>1 DEF UploadsInv, CommitSound
<1>5. KeyRemembers'
  BY DEF UploadsInv, KeyRemembers, Versions
<1> QED
  BY <1>2, <1>3, <1>4, <1>5 DEF UploadsInv, VersionHasObject, WrappedForItsReaders, Versions

LEMMA PlaceFailsKeeps ==
  ASSUME UploadsInv, NEW t \in Tries, PlaceFails(t)
  PROVE  UploadsInv'
<1> DEFINE r == [try[t] EXCEPT !.at = "cleaning", !.moved = TRUE]
<1>1. r \in TryRecords /\ r.at = "cleaning" /\ try' = [try EXCEPT ![t] = r]
  BY DEF PlaceFails, UploadsInv, TypeOK, TryRecords, Stages
<1>2. lock = t /\ ~sent /\ lock' = NoTry
  BY DEF PlaceFails, UploadsInv, LockHeld
<1>3. /\ \A u \in Tries : Kept(u) \in objects => Kept(u) \in objects'
      /\ objects' \subseteq Objects
      /\ faults' \in 0..MaxFaults
  BY FaultType DEF PlaceFails, Objects, UploadsInv, TypeOK
<1>4. UNCHANGED <<claim, sent, wrapped, doc, sweep, moves, forgotten>>
  BY DEF PlaceFails
<1> HIDE DEF r
<1> QED
  BY <1>1, <1>2, <1>3, <1>4, LockGivenBack

LEMMA SendCommitKeeps ==
  ASSUME UploadsInv, NEW t \in Tries, SendCommit(t)
  PROVE  UploadsInv'
<1>1. /\ try[t].at = "placed" /\ lock = t /\ ~sent /\ sent' = TRUE
      /\ try' = [try EXCEPT ![t] = [try[t] EXCEPT !.at = "waiting"]]
      /\ forgotten' = (forgotten \/ claim.state = "none")
      /\ UNCHANGED <<claim, lock, objects, wrapped, doc, sweep, faults, moves>>
  BY StageType DEF SendCommit, Goto, Stages, UploadsInv, LockHeld
<1>2. [try[t] EXCEPT !.at = "waiting"] \in TryRecords
  BY StageType DEF UploadsInv, Stages
<1>3. /\ try'[t].at = "waiting" /\ try'[t].scope = try[t].scope
      /\ \A u \in Tries \ {t} : try'[u] = try[u]
      /\ try' \in [Tries -> TryRecords]
  BY <1>1, <1>2, StageType DEF UploadsInv, TypeOK, Stages
<1>4. TypeOK'
  BY <1>1, <1>3 DEF UploadsInv, TypeOK
<1>5. LockHeld'
  BY <1>1, <1>3, TriesAssumption DEF UploadsInv, LockHeld
<1>6. CommitSound'
  BY <1>1, <1>3 DEF UploadsInv, CommitSound, SameScope
<1>7. KeyRemembers'
  BY <1>1 DEF UploadsInv, KeyRemembers, Versions, Mine
<1> QED
  BY <1>1, <1>4, <1>5, <1>6, <1>7 DEF UploadsInv, VersionHasObject, WrappedForItsReaders, Versions

LEMMA DatabaseEndsKeeps ==
  ASSUME UploadsInv, DatabaseEnds
  PROVE  UploadsInv'
<1>1. /\ sent /\ lock \in Tries /\ lock' = NoTry /\ sent' = FALSE
      /\ UNCHANGED <<try, objects, doc, sweep, moves, forgotten>>
      /\ faults' \in 0..MaxFaults
  BY FaultType DEF DatabaseEnds, UploadsInv, TypeOK, LockHeld
<1>2. LockHeld' /\ CommitSound'
  <2>1. \A u \in Tries : try[u].at \notin {"committing", "placed"}
    BY <1>1 DEF UploadsInv, LockHeld
  <2> QED
    BY <1>1, <2>1 DEF LockHeld, CommitSound
<1>3. CASE UNCHANGED <<wrapped, claim>>
  BY <1>1, <1>2, <1>3 DEF UploadsInv, TypeOK, KeyRemembers, VersionHasObject, WrappedForItsReaders,
     Versions
<1>4. CASE /\ wrapped' = [wrapped EXCEPT ![lock] = try[lock].scope]
           /\ claim' = IF claim.state = "none" THEN claim ELSE [claim EXCEPT !.state = "done"]
  <2>1. wrapped' \in [Tries -> Scopes \union {NoOne}] /\ claim' \in Claims
    BY <1>1, <1>4 DEF UploadsInv, TypeOK, TryRecords, Claims
  <2>2. TypeOK'
    BY <1>1, <2>1 DEF UploadsInv, TypeOK
  <2>3. Versions' \subseteq Versions \union {lock}
    BY <1>1, <1>4 DEF Versions, UploadsInv, TypeOK
  <2>4. VersionHasObject'
    BY <1>1, <2>3 DEF UploadsInv, VersionHasObject, CommitSound
  <2>5. WrappedForItsReaders'
    <3> SUFFICES ASSUME ~Capture, NEW t \in Versions' PROVE wrapped'[t] = doc
      BY <1>1 DEF WrappedForItsReaders
    <3>1. CASE t = lock
      BY <1>1, <1>4, <3>1, TriesAssumption DEF UploadsInv, TypeOK, CommitSound, SameScope
    <3>2. CASE t # lock
      BY <1>1, <1>4, <2>3, <3>2 DEF UploadsInv, TypeOK, WrappedForItsReaders
    <3> QED
      BY <3>1, <3>2
  <2>6. KeyRemembers'
    <3>1. ASSUME ~forgotten
          PROVE  claim'.state = "done" /\ claim'.nonce = lock /\ Versions = {}
      <4>1. claim.state = "pending" /\ claim.nonce = lock /\ claim \in Claims
        BY <1>1, <3>1, TriesAssumption DEF UploadsInv, TypeOK, KeyRemembers, Mine
      <4>2. Versions = {}
        BY <3>1, <4>1 DEF UploadsInv, KeyRemembers, Versions
      <4> QED
        BY <1>4, <4>1, <4>2 DEF Claims
    <3> QED
      BY <1>1, <2>3, <3>1, TriesAssumption DEF KeyRemembers
  <2> QED
    BY <1>2, <2>2, <2>4, <2>5, <2>6 DEF UploadsInv
<1> QED
  BY <1>3, <1>4 DEF DatabaseEnds

LEMMA CrashKeeps ==
  ASSUME UploadsInv, NEW t \in Tries, Crash(t)
  PROVE  UploadsInv'
<1> DEFINE r == [try[t] EXCEPT !.at = "dead"]
<1>1. r \in TryRecords /\ r.at = "dead" /\ r.scope = try[t].scope /\ try' = [try EXCEPT ![t] = r]
  BY StageType DEF Crash, Goto, UploadsInv, Stages
<1>2. /\ faults' \in 0..MaxFaults
      /\ UNCHANGED <<claim, sent, objects, wrapped, doc, sweep, moves, forgotten>>
  BY FaultType DEF Crash, UploadsInv
<1> HIDE DEF r
<1>3. CASE lock = t /\ ~sent
  BY <1>1, <1>2, <1>3, LockGivenBack DEF Crash, UploadsInv, TypeOK
<1>4. CASE ~(lock = t /\ ~sent)
  <2>1. lock' = lock /\ try[t].at \notin {"committing", "placed"}
    BY <1>4 DEF Crash, UploadsInv, LockHeld
  <2>2. KeyRemembers'
    BY <1>2, <2>1, KeyLeftAlone
  <2> QED
    BY <1>1, <1>2, <2>1, <2>2, QuietTry DEF UploadsInv, TypeOK, VersionHasObject
<1> QED
  BY <1>3, <1>4

-----------------------------------------------------------------------------
(* The sweep, the clock and the document.                                  *)

LEMMA OutsideKeeps ==
  ASSUME UploadsInv,
         UNCHANGED <<try, lock, sent, wrapped, doc, moves>>,
         \A u \in Tries : Kept(u) \in objects => Kept(u) \in objects',
         objects' \subseteq Objects, claim' \in Claims, sweep' \in Sweeps,
         faults' \in 0..MaxFaults, forgotten' \in BOOLEAN,
         KeyRemembers'
  PROVE  UploadsInv'
<1>1. TypeOK' /\ LockHeld'
  BY DEF UploadsInv, TypeOK, LockHeld
<1>2. CommitSound'
  BY DEF UploadsInv, CommitSound, LockHeld, SameScope, TypeOK
<1> QED
  BY <1>1, <1>2 DEF UploadsInv, VersionHasObject, WrappedForItsReaders, Versions

LEMMA SweepKeeps ==
  ASSUME UploadsInv, SweepRead \/ SweepDrop
  PROVE  UploadsInv'
<1>1. UNCHANGED <<claim, try, lock, sent, wrapped, doc, moves, forgotten>>
  BY DEF SweepRead, SweepDrop
<1>2. sweep' \in Sweeps
  <2>1. CASE SweepRead
    <3>1. claim.nonce \in Tries \union {NoTry}
      BY DEF UploadsInv, TypeOK, Claims
    <3> QED
      BY <2>1, <3>1 DEF SweepRead, Sweeps
  <2>2. CASE SweepDrop
    <3>1. sweep \in Sweeps /\ Running(sweep.saw) \in BOOLEAN
      BY DEF Running, UploadsInv, TypeOK
    <3>2. /\ sweep' \in {[sweep EXCEPT !.at = "dropped", !.alive = Running(sweep.saw)],
                        [sweep EXCEPT !.at = "idle"]}
      BY <2>2 DEF SweepDrop, AfterDrop
    <3> QED
      BY <3>1, <3>2 DEF Sweeps
  <2> QED
    BY <2>1, <2>2
<1>3. /\ \A u \in Tries : Kept(u) \in objects => Kept(u) \in objects'
      /\ objects' \subseteq Objects
  BY ObjectsDiffer DEF SweepRead, SweepDrop, Temp, Kept, UploadsInv, TypeOK
<1>4. faults' \in 0..MaxFaults
  BY FaultType DEF SweepRead, SweepDrop, UploadsInv
<1> QED
  BY <1>1, <1>2, <1>3, <1>4, KeyLeftAlone, OutsideKeeps DEF UploadsInv, TypeOK

LEMMA KeyGoesKeeps ==
  ASSUME UploadsInv, PruneDone \/ SweepDelete \/ Tick
  PROVE  UploadsInv'
<1>1. /\ UNCHANGED <<try, lock, sent, objects, wrapped, doc, faults, moves>>
      /\ sweep' \in Sweeps /\ forgotten' \in BOOLEAN
  <2>1. NoSweep \in Sweeps
    BY DEF NoSweep, Sweeps
  <2> QED
    BY <2>1 DEF PruneDone, SweepDelete, Tick, UploadsInv, TypeOK
<1>2. claim' \in Claims
  <2>1. NoClaim \in Claims
    BY DEF NoClaim, Claims, Fresh, Expired
  <2> QED
    <3>1. CASE Tick
      <4>1. claim.age + 1 \in Fresh..Expired
        BY <3>1 DEF Tick, UploadsInv, TypeOK, Claims, Fresh, Expired
      <4> QED
        BY <3>1, <4>1 DEF Tick, UploadsInv, TypeOK, Claims
    <3> QED
      BY <2>1, <3>1 DEF PruneDone, SweepDelete, UploadsInv, TypeOK
<1>3. KeyRemembers'
  <2>1. CASE PruneDone
    BY <2>1 DEF PruneDone, UploadsInv, KeyRemembers, NoClaim
  <2>2. CASE SweepDelete
    BY <2>2 DEF SweepDelete, Prunable, RowFree, UploadsInv, KeyRemembers, NoClaim, Mine, Versions
  <2>3. CASE Tick
    BY <2>3 DEF Tick, UploadsInv, TypeOK, Claims, KeyRemembers, Mine, Versions
  <2> QED
    BY <2>1, <2>2, <2>3
<1> QED
  BY <1>1, <1>2, <1>3, OutsideKeeps DEF UploadsInv, TypeOK

LEMMA ChangeVisibilityKeeps ==
  ASSUME UploadsInv, ChangeVisibility
  PROVE  UploadsInv'
<1>1. PICK s \in Scopes :
        /\ doc' = s
        /\ wrapped' = [t \in Tries |-> IF wrapped[t] = NoOne THEN NoOne ELSE s]
  BY DEF ChangeVisibility
<1>2. /\ lock = NoTry /\ lock' = NoTry /\ ~sent /\ ~sent'
      /\ UNCHANGED <<claim, try, sent, objects, sweep, faults, forgotten>>
      /\ moves' \in 0..MaxMoves
  BY TriesAssumption DEF ChangeVisibility, UploadsInv, LockHeld, TypeOK
<1>3. Versions' \subseteq Versions /\ \A t \in Versions' : wrapped'[t] = doc'
  BY <1>1 DEF Versions
<1>4. TypeOK'
  BY <1>1, <1>2 DEF UploadsInv, TypeOK
<1>5. LockHeld' /\ CommitSound'
  BY <1>2 DEF UploadsInv, LockHeld, CommitSound
<1>6. KeyRemembers' /\ VersionHasObject' /\ WrappedForItsReaders'
  BY <1>2, <1>3 DEF UploadsInv, KeyRemembers, VersionHasObject, WrappedForItsReaders
<1> QED
  BY <1>4, <1>5, <1>6 DEF UploadsInv

-----------------------------------------------------------------------------

LEMMA NextKeepsUploads == UploadsInv /\ [Next]_vars => UploadsInv'
<1> SUFFICES ASSUME UploadsInv, [Next]_vars PROVE UploadsInv'
  OBVIOUS
<1>1. ASSUME NEW t \in Tries, TryStep(t) PROVE UploadsInv'
  BY <1>1, ClaimKeeps, FileStepKeeps, ReleaseKeeps, CheckKeeps, PlaceKeeps, PlaceFailsKeeps,
     SendCommitKeeps, CrashKeeps DEF TryStep
<1>2. CASE UNCHANGED vars
  BY <1>2 DEF vars, UploadsInv, TypeOK, LockHeld, CommitSound, SameScope, KeyRemembers, Mine,
     VersionHasObject, WrappedForItsReaders, Versions
<1> QED
  BY <1>1, <1>2, DatabaseEndsKeeps, SweepKeeps, KeyGoesKeeps, ChangeVisibilityKeeps DEF Next, Sweep

\* The whole invariant of uploads holds of every behaviour, whatever the number
\* of tries, failures and changes of visibility.
THEOREM UploadsInvariant == Spec => []UploadsInv
BY InitInv, NextKeepsUploads, PTL DEF Spec

\* A version's object is on storage: no release, whatever its try believed of
\* the commit, and no sweep takes it.
THEOREM VersionsHaveObjects == Spec => []VersionHasObject
<1>1. UploadsInv => VersionHasObject
  BY DEF UploadsInv
<1> QED
  BY <1>1, UploadsInvariant, PTL

\* Every version of a document is wrapped for the people the document is for.
THEOREM VersionsWrappedForReaders == Spec => []WrappedForItsReaders
<1>1. UploadsInv => WrappedForItsReaders
  BY DEF UploadsInv
<1> QED
  BY <1>1, UploadsInvariant, PTL

\* A file sent any number of times under one key is filed at most once while
\* the key is remembered.
THEOREM FiledOnce == Spec => []OneFileOneVersion
<1>1. UploadsInv => OneFileOneVersion
  <2> SUFFICES ASSUME UploadsInv, ~forgotten PROVE Cardinality(Versions) <= 1
    BY DEF OneFileOneVersion
  <2>1. Versions \subseteq {claim.nonce}
    BY DEF UploadsInv, KeyRemembers
  <2>2. IsFiniteSet({claim.nonce}) /\ Cardinality({claim.nonce}) = 1
    BY FS_Singleton
  <2> QED
    BY <2>1, <2>2, FS_Subset
<1> QED
  BY <1>1, UploadsInvariant, PTL

-----------------------------------------------------------------------------
(* What the sweep forgets.                                                 *)

\* A try the sweep found dead stays so, and puts nothing back on storage.
SweptSound ==
  /\ claim.state = "pending" => claim.nonce \in Tries /\ try[claim.nonce].at # "new"
  /\ sweep.at # "idle" => sweep.saw \in Tries /\ try[sweep.saw].at # "new"
  /\ sweep.at = "dropped" /\ ~sweep.alive =>
       ~Running(sweep.saw) /\ Temp(sweep.saw) \notin objects

\* A try moves only while it runs, or begins.
LEMMA OneTryMoves ==
  ASSUME UploadsInv, NEW t \in Tries, TryStep(t)
  PROVE  /\ Running(t) \/ try[t].at = "new"
         /\ \A u \in Tries \ {t} : try'[u] = try[u]
         /\ try'[t].at # "new"
         /\ \A u \in Tries : Temp(u) \in objects' => Temp(u) \in objects \/ u = t
         /\ UNCHANGED sweep
         /\ claim'.state = "pending" => claim' = claim \/ claim'.nonce = t
<1>1. Running(t) \/ try[t].at = "new"
  BY DEF TryStep, Running, ClaimKey, ReplayKey, DropLeftover, Stream, Check, Place, PlaceFails,
         SendCommit, Learn, CleanUp, Release, ReleaseFails, Crash
<1>2. (\A u \in Tries \ {t} : try'[u] = try[u]) /\ try'[t].at # "new"
  <2>1. try \in [Tries -> TryRecords]
    BY DEF UploadsInv, TypeOK
  <2>2. ASSUME NEW stage \in Stages \ {"new"}, Goto(t, stage)
        PROVE  (\A u \in Tries \ {t} : try'[u] = try[u]) /\ try'[t].at # "new"
    BY <2>1, <2>2 DEF Goto, TryRecords
  <2>3. CASE \E stage \in Stages \ {"new"} : Goto(t, stage)
    BY <2>2, <2>3
  <2>4. CASE ClaimKey(t) \/ Place(t) \/ PlaceFails(t)
    BY <2>1, <2>4 DEF ClaimKey, Place, PlaceFails, TryRecords
  <2>5. CASE Check(t)
    BY <2>2, <2>5 DEF Check, Stages
  <2>6. CASE Learn(t)
    BY <2>2, <2>6 DEF Learn, Stages
  <2>7. ReplayKey(t) \/ DropLeftover(t) \/ Stream(t) \/ SendCommit(t) \/ CleanUp(t) \/ Release(t)
          \/ ReleaseFails(t) \/ Crash(t) => \E stage \in Stages \ {"new"} : Goto(t, stage)
    BY DEF ReplayKey, DropLeftover, Stream, SendCommit, CleanUp, Release, ReleaseFails, Crash, Stages
  <2> QED
    BY <2>3, <2>4, <2>5, <2>6, <2>7 DEF TryStep
<1>3. objects' \subseteq objects \union {Temp(t), Kept(t)}
  BY DEF TryStep, ClaimKey, ReplayKey, DropLeftover, Stream, Check, Place, PlaceFails,
         SendCommit, Learn, CleanUp, Release, ReleaseFails, Crash
<1>4. \A u \in Tries : Temp(u) \in objects' => Temp(u) \in objects \/ u = t
  BY <1>3 DEF Temp, Kept
<1>5. UNCHANGED sweep /\ (claim'.state = "pending" => claim' = claim \/ claim'.nonce = t)
  BY DEF NoClaim, TryStep, ClaimKey, ReplayKey, DropLeftover, Stream, Check, Place, PlaceFails,
         SendCommit, Learn, CleanUp, Release, ReleaseFails, Crash
<1> QED
  BY <1>1, <1>2, <1>4, <1>5

LEMMA SweptStep ==
  ASSUME UploadsInv, SweptSound, [Next]_vars
  PROVE  SweptSound'
<1>1. ASSUME NEW t \in Tries, TryStep(t) PROVE SweptSound'
  BY <1>1, OneTryMoves DEF SweptSound, Running
<1>2. CASE UNCHANGED <<try, objects>> /\ UNCHANGED sweep /\ (claim'.state = "pending" =>
             claim.state = "pending" /\ claim'.nonce = claim.nonce)
  BY <1>2 DEF SweptSound, Running
<1>3. CASE SweepRead
  BY <1>3 DEF SweepRead, SweptSound
<1>4. CASE SweepDrop
  <2>1. sweep'.saw = sweep.saw /\ sweep'.at \in {"dropped", "idle"} /\ sweep.at = "read"
    BY <1>4 DEF SweepDrop, AfterDrop, UploadsInv, TypeOK, Sweeps
  <2>2. sweep'.at = "dropped" => sweep'.alive = Running(sweep.saw) /\ Temp(sweep.saw) \notin objects'
    BY <1>4 DEF SweepDrop, AfterDrop, UploadsInv, TypeOK, Sweeps
  <2>3. UNCHANGED <<claim, try>>
    BY <1>4 DEF SweepDrop
  <2> QED
    BY <2>1, <2>2, <2>3 DEF SweptSound, Running
<1>5. CASE SweepDelete
  BY <1>5 DEF SweepDelete, SweptSound, NoSweep, NoClaim
<1>6. DatabaseEnds \/ PruneDone \/ ChangeVisibility \/ Tick \/ UNCHANGED vars =>
        /\ UNCHANGED <<try, objects>> /\ UNCHANGED sweep
        /\ claim'.state = "pending" => claim.state = "pending" /\ claim'.nonce = claim.nonce
  BY DEF DatabaseEnds, PruneDone, ChangeVisibility, Tick, vars, NoClaim, UploadsInv, TypeOK, Claims
<1> QED
  BY <1>1, <1>2, <1>3, <1>4, <1>5, <1>6 DEF Next, Sweep

\* The sweep lets a claim go only when its object is gone, unless the try it took
\* for dead was still running.
THEOREM SweepForgetsNothingHolds == Spec => SweepForgetsNothing
<1>1. Init => SweptSound
  BY DEF Init, SweptSound, NoClaim, NoSweep
<1>2. SweptSound /\ [Next]_vars =>
        [SweepDelete /\ claim.state = "pending" /\ claim'.state = "none" =>
           Temp(claim.nonce) \notin objects \/ sweep.alive]_vars
  BY DEF SweptSound, SweepDelete, Prunable, Mine
<1>3. UploadsInv /\ SweptSound /\ [Next]_vars => SweptSound'
  BY SweptStep
<1> QED
  BY <1>1, <1>2, <1>3, UploadsInvariant, PTL DEF Spec, SweepForgetsNothing
=============================================================================
