------------------------ MODULE SessionClients_proofs ------------------------
(***************************************************************************)
(* What holds of a refresh-token family for every number of clients,       *)
(* tokens, ticks and remembered hashes, and for apps and browsers alike;   *)
(* and of the contexts of one client that share its stored session, for    *)
(* every number of contexts, of losses, and with the lock or without.      *)
(***************************************************************************)
EXTENDS SessionClients, SequenceTheorems, FiniteSetTheorems, TLAPS

\* slice(-GRACE_HASHES_KEPT) returns a list of the same tokens, no longer than
\* GRACE_HASHES_KEPT.
LEMMA MostRecentBounded ==
  ASSUME NEW s \in Seq(Tokens)
  PROVE  /\ MostRecent(s) \in Seq(Tokens)
         /\ Len(MostRecent(s)) <= GraceHashesKept
<1>1. CASE Len(s) <= GraceHashesKept
  BY <1>1, TimesAssumption DEF MostRecent
<1>2. CASE ~(Len(s) <= GraceHashesKept)
  <2> DEFINE from == Len(s) - GraceHashesKept + 1
  <2>1. /\ Len(s) \in Nat
        /\ from \in 1..Len(s)
        /\ Len(s) - from + 1 = GraceHashesKept
    BY <1>2, TimesAssumption
  <2>2. SubSeq(s, from, Len(s)) \in Seq(Tokens)
    BY <2>1, SubSeqProperties
  <2>3. Len(SubSeq(s, from, Len(s))) = Len(s) - from + 1
    BY <2>1, SubSeqProperties
  <2> QED
    BY <1>2, <2>1, <2>2, <2>3, TimesAssumption DEF MostRecent
<1> QED
  BY <1>1, <1>2

LEMMA InitInv == Init => FamilyInv
<1> SUFFICES ASSUME Init PROVE FamilyInv
  OBVIOUS
<1>1. session \in Sessions
  BY ClientsAssumption, TimesAssumption DEF Init, Sessions, Tokens, Never, NoToken
<1>2. TypeOK
  BY <1>1, ClientsAssumption, TimesAssumption
  DEF Init, TypeOK, Tokens, Memberships, Kinds, Spend
<1> QED
  BY <1>2, TimesAssumption
  DEF Init, FamilyInv, CurrentIsLast, CurrentUnspent, PreviousSpentOnce,
      OneLineOfDescent, PromiseWithinSession, Tokens, NoToken

\* A step that leaves the tokens and what they bought alone keeps the invariant.
LEMMA QuietStep ==
  ASSUME FamilyInv,
         session' \in Sessions,
         session'.cur = session.cur, session'.prev = session.prev,
         session'.grace = session.grace, session'.graceUsed = session.graceUsed,
         session'.rotatedAt = session.rotatedAt, session'.client = session.client,
         session'.expiresAt = session.expiresAt,
         issued' = issued, spends' = spends,
         membership' \in Memberships, now' \in 0..MaxTime,
         spent' \subseteq Tokens \union {Forged}, refused' \subseteq Kinds
  PROVE  FamilyInv'
<1>1. TypeOK'
  BY DEF FamilyInv, TypeOK
<1>2. (CurrentIsLast /\ CurrentUnspent /\ PreviousSpentOnce)'
  BY DEF FamilyInv, CurrentIsLast, CurrentUnspent, PreviousSpentOnce
<1>3. (OneLineOfDescent /\ PromiseWithinSession)'
  BY DEF FamilyInv, OneLineOfDescent, PromiseWithinSession
<1> QED
  BY <1>1, <1>2, <1>3 DEF FamilyInv

\* A revocation touches nothing of the row but why it ended.
LEMMA RevokeTouchesOnlyReason ==
  ASSUME session \in Sessions, NEW why \in Reasons
  PROVE  /\ Revoke(why) \in Sessions
         /\ Revoke(why).cur = session.cur /\ Revoke(why).prev = session.prev
         /\ Revoke(why).grace = session.grace
         /\ Revoke(why).graceUsed = session.graceUsed
         /\ Revoke(why).rotatedAt = session.rotatedAt
         /\ Revoke(why).client = session.client
         /\ Revoke(why).expiresAt = session.expiresAt
BY DEF Revoke, Sessions, Reasons

\* The history of the token answered for grows by this answer; no other does.
LEMMA HandRecords ==
  ASSUME TypeOK, NEW c \in Clients, NEW t \in Tokens, Hand(c, t)
  PROVE  /\ spends' \in [Tokens -> Seq(Spend)]
         /\ issued' \in Tokens /\ issued' = issued + 1
         /\ membership' \in Memberships /\ now' \in 0..MaxTime /\ now' = now
         /\ spent' \subseteq Tokens \union {Forged} /\ refused' \subseteq Kinds
         /\ \A u \in Tokens \ {t} : spends'[u] = spends[u]
         /\ Len(spends'[t]) = Len(spends[t]) + 1
         /\ \A i \in 1..Len(spends[t]) : spends'[t][i] = spends[t][i]
         /\ spends'[t][Len(spends[t]) + 1] = [by |-> c, at |-> now]
<1> DEFINE new == [by |-> c, at |-> now]
<1>1. new \in Spend
  BY TimesAssumption DEF TypeOK, Spend
<1>2. spends[t] \in Seq(Spend)
  BY DEF TypeOK
<1>3. /\ Append(spends[t], new) \in Seq(Spend)
      /\ Len(Append(spends[t], new)) = Len(spends[t]) + 1
      /\ \A i \in 1..Len(spends[t]) : Append(spends[t], new)[i] = spends[t][i]
      /\ Append(spends[t], new)[Len(spends[t]) + 1] = new
  BY <1>1, <1>2, AppendProperties
<1>4. spends' = [spends EXCEPT ![t] = Append(spends[t], new)]
  BY DEF Hand
<1>5. issued' \in Tokens /\ issued' = issued + 1
  BY TimesAssumption DEF Hand, TypeOK, Tokens
<1> QED
  BY <1>3, <1>4, <1>5 DEF Hand, TypeOK

\* Sliding keeps the promise: the new expiry is a time, within the session.
LEMMA SlidToBounded ==
  ASSUME now \in 0..MaxTime
  PROVE  SlidTo \in Nat /\ SlidTo <= SessionMax
BY TimesAssumption DEF SlidTo, Least

\* A rotation: the presented token, unspent until now, is spent once, and the
\* row says when and by whom.
LEMMA RotateKeeps ==
  ASSUME FamilyInv, NEW c \in Clients, NEW t \in Tokens, Rotate(c, t)
  PROVE  FamilyInv'
<1> USE DEF FamilyInv
<1>1. TypeOK /\ Hand(c, t) /\ t = session.cur
  BY DEF Rotate
<1>2. /\ spends' \in [Tokens -> Seq(Spend)]
      /\ issued' \in Tokens /\ issued' = issued + 1
      /\ membership' \in Memberships /\ now' \in 0..MaxTime /\ now' = now
      /\ spent' \subseteq Tokens \union {Forged} /\ refused' \subseteq Kinds
      /\ \A u \in Tokens \ {t} : spends'[u] = spends[u]
      /\ Len(spends'[t]) = Len(spends[t]) + 1
      /\ spends'[t][Len(spends[t]) + 1] = [by |-> c, at |-> now]
  BY <1>1, HandRecords
<1>3. session.grace \in Seq(Tokens) /\ Append(session.grace, t) \in Seq(Tokens)
  BY <1>1, AppendProperties DEF TypeOK, Sessions
<1>4. KeptOnRotate(t) \in Seq(Tokens) /\ Len(KeptOnRotate(t)) <= GraceHashesKept
  BY <1>1, <1>3, MostRecentBounded DEF KeptOnRotate, TypeOK
<1>5. SlidTo \in Nat /\ SlidTo <= SessionMax
  BY <1>1, SlidToBounded DEF TypeOK
<1>6. /\ session'.cur = issued + 1 /\ session'.prev = t
      /\ session'.grace = KeptOnRotate(t) /\ session'.graceUsed = FALSE
      /\ session'.rotatedAt = now /\ session'.expiresAt = SlidTo
      /\ session'.client = c /\ session'.revoked = session.revoked
      /\ session' \in Sessions
  <2>1. issued + 1 \in Tokens /\ now \in Nat /\ session \in Sessions
    BY <1>1, <1>2, TimesAssumption DEF TypeOK
  <2> QED
    BY <2>1, <1>1, <1>4, <1>5 DEF Rotate, Sessions
<1>7. TypeOK'
  BY <1>2, <1>4, <1>6 DEF TypeOK
<1>8. CurrentIsLast'
  BY <1>1, <1>2, <1>6 DEF CurrentIsLast, TypeOK, Tokens
<1>9. CurrentUnspent'
  BY <1>1, <1>2, <1>6 DEF CurrentUnspent, CurrentIsLast, TypeOK, Sessions, Tokens
<1>10. spends[t] = <<>> /\ Len(spends[t]) = 0
  BY <1>1 DEF CurrentUnspent, Tokens
<1>11. PreviousSpentOnce'
  BY <1>1, <1>2, <1>6, <1>10 DEF PreviousSpentOnce, TypeOK, Tokens
<1>12. OneLineOfDescent'
  <2> SUFFICES ASSUME NEW u \in Tokens
               PROVE  /\ Len(spends'[u]) <= 2
                      /\ Len(spends'[u]) = 2 => ReplayFits(spends'[u][1], spends'[u][2])
    BY DEF OneLineOfDescent, ReplayFits
  <2>1. CASE u = t
    BY <2>1, <1>2, <1>10
  <2>2. CASE u # t
    BY <2>2, <1>2 DEF OneLineOfDescent
  <2> QED
    BY <2>1, <2>2
<1>13. PromiseWithinSession'
  BY <1>5, <1>6 DEF PromiseWithinSession
<1> QED
  BY <1>7, <1>8, <1>9, <1>11, <1>12, <1>13

\* A replay: the presented token was spent exactly once, by the client the
\* grace compares with, and the grace is used up from here.
LEMMA ReplayKeeps ==
  ASSUME FamilyInv, NEW c \in Clients, NEW t \in Tokens, Replay(c, t)
  PROVE  FamilyInv'
<1> USE DEF FamilyInv
<1>1. TypeOK /\ Hand(c, t) /\ t = session.prev /\ GraceAllows(c)
  BY DEF Replay
<1>2. /\ spends' \in [Tokens -> Seq(Spend)]
      /\ issued' \in Tokens /\ issued' = issued + 1
      /\ membership' \in Memberships /\ now' \in 0..MaxTime /\ now' = now
      /\ spent' \subseteq Tokens \union {Forged} /\ refused' \subseteq Kinds
      /\ \A u \in Tokens \ {t} : spends'[u] = spends[u]
      /\ Len(spends'[t]) = Len(spends[t]) + 1
      /\ \A i \in 1..Len(spends[t]) : spends'[t][i] = spends[t][i]
      /\ spends'[t][Len(spends[t]) + 1] = [by |-> c, at |-> now]
  BY <1>1, HandRecords
<1>3. <<t, session.cur>> \in Seq(Tokens) /\ session.grace \in Seq(Tokens)
  BY <1>1 DEF TypeOK, Sessions
<1>4. session.grace \o <<t, session.cur>> \in Seq(Tokens)
  BY <1>3, ConcatProperties
<1>5. KeptOnReplay(t) \in Seq(Tokens) /\ Len(KeptOnReplay(t)) <= GraceHashesKept
  BY <1>4, MostRecentBounded DEF KeptOnReplay
<1>6. SlidTo \in Nat /\ SlidTo <= SessionMax
  BY <1>1, SlidToBounded DEF TypeOK
<1>7. /\ session'.cur = issued + 1 /\ session'.prev = session.cur
      /\ session'.grace = KeptOnReplay(t) /\ session'.graceUsed = TRUE
      /\ session'.rotatedAt = now /\ session'.expiresAt = SlidTo
      /\ session'.client = c /\ session'.revoked = session.revoked
      /\ session' \in Sessions
  <2>1. issued + 1 \in Tokens /\ now \in Nat /\ session \in Sessions
    BY <1>1, <1>2, TimesAssumption DEF TypeOK
  <2> QED
    BY <2>1, <1>1, <1>5, <1>6 DEF Replay, Sessions
<1>8. TypeOK'
  BY <1>2, <1>5, <1>7 DEF TypeOK
<1>9. CurrentIsLast'
  BY <1>1, <1>2, <1>7 DEF CurrentIsLast, TypeOK, Tokens
<1>10. t < session.cur
  BY <1>1 DEF CurrentIsLast
<1>11. CurrentUnspent'
  BY <1>1, <1>2, <1>7, <1>10 DEF CurrentUnspent, CurrentIsLast, TypeOK, Sessions, Tokens
<1>12. PreviousSpentOnce'
  BY <1>7 DEF PreviousSpentOnce
<1>13. /\ Len(spends[t]) = 1
       /\ spends[t][1].at = session.rotatedAt
       /\ spends[t][1].by = session.client
  BY <1>1 DEF PreviousSpentOnce, GraceAllows, NoToken, Tokens
<1>14. /\ Len(spends'[t]) = 2
       /\ spends'[t][1] = spends[t][1]
       /\ spends'[t][2] = [by |-> c, at |-> now]
  BY <1>2, <1>13
<1>15. ReplayFits(spends'[t][1], spends'[t][2])
  BY <1>1, <1>13, <1>14 DEF ReplayFits, GraceAllows, SameClient
<1>16. OneLineOfDescent'
  <2> SUFFICES ASSUME NEW u \in Tokens
               PROVE  /\ Len(spends'[u]) <= 2
                      /\ Len(spends'[u]) = 2 => ReplayFits(spends'[u][1], spends'[u][2])
    BY DEF OneLineOfDescent, ReplayFits
  <2>1. CASE u = t
    BY <2>1, <1>14, <1>15
  <2>2. CASE u # t
    BY <2>2, <1>2 DEF OneLineOfDescent
  <2> QED
    BY <2>1, <2>2
<1>17. PromiseWithinSession'
  BY <1>6, <1>7 DEF PromiseWithinSession
<1> QED
  BY <1>8, <1>9, <1>11, <1>12, <1>16, <1>17

LEMMA NextKeeps == FamilyInv /\ [Next]_vars => FamilyInv'
<1> SUFFICES ASSUME FamilyInv, [Next]_vars PROVE FamilyInv'
  OBVIOUS
<1> USE DEF Memberships, Reasons
<1>0. TypeOK /\ session \in Sessions
  BY DEF FamilyInv, TypeOK
<1>1. ASSUME NEW c \in Clients, Present(c) PROVE FamilyInv'
  <2>1. PICK t \in (1..issued) \union {Forged} :
             Rotate(c, t) \/ Replay(c, t) \/ NotAccepted(c, t)
    BY <1>1 DEF Present
  <2>2. t \in Tokens \union {Forged}
    BY <1>0, TimesAssumption DEF TypeOK, Tokens
  <2>3. CASE Rotate(c, t)
    BY <2>2, <2>3, <1>0, RotateKeeps, TimesAssumption DEF Rotate, Sessions
  <2>4. CASE Replay(c, t)
    <3>1. t \in Tokens
      BY <2>2, <2>4, <1>0, TimesAssumption DEF Replay, Sessions, Tokens, Forged, NoToken
    <3> QED
      BY <3>1, <2>4, ReplayKeeps
  <2>5. CASE NotAccepted(c, t)
    BY <2>2, <2>5, <1>0, QuietStep DEF NotAccepted, TypeOK
  <2> QED
    BY <2>1, <2>3, <2>4, <2>5
<1>2. ASSUME NEW t \in Tokens \union {Forged}, EndSpent(t) PROVE FamilyInv'
  <2>1. refused' \subseteq Kinds
    BY <1>0, <1>2 DEF EndSpent, TypeOK, Kind, Kinds
  <2> QED
    BY <1>0, <1>2, <2>1, QuietStep, RevokeTouchesOnlyReason DEF EndSpent, TypeOK
<1>3. CASE Crash
  BY <1>0, <1>3, QuietStep DEF Crash, TypeOK
<1>4. CASE SignOut
  BY <1>0, <1>4, QuietStep, RevokeTouchesOnlyReason DEF SignOut, TypeOK
<1>5. CASE Lock
  BY <1>0, <1>5, QuietStep, RevokeTouchesOnlyReason DEF Lock, TypeOK
<1>6. CASE Unlock
  BY <1>0, <1>6, QuietStep DEF Unlock, TypeOK
<1>7. CASE RemoveSignIn
  BY <1>0, <1>7, QuietStep, RevokeTouchesOnlyReason DEF RemoveSignIn, TypeOK
<1>8. CASE AccessEnds
  BY <1>0, <1>8, QuietStep DEF AccessEnds, TypeOK
<1>9. CASE AccessExtended
  BY <1>0, <1>9, QuietStep DEF AccessExtended, TypeOK
<1>10. CASE Tick
  BY <1>0, <1>10, QuietStep, TimesAssumption DEF Tick, TypeOK
<1>11. CASE UNCHANGED vars
  BY <1>0, <1>11, QuietStep DEF vars, TypeOK
<1> QED
  BY <1>1, <1>2, <1>3, <1>4, <1>5, <1>6, <1>7, <1>8, <1>9, <1>10, <1>11 DEF Next

\* The inductive invariant holds of every reachable state.
THEOREM FamilyInvariant == Spec => []FamilyInv
<1>1. Init => FamilyInv
  BY InitInv
<1>2. FamilyInv /\ [Next]_vars => FamilyInv'
  BY NextKeeps
<1> QED
  BY <1>1, <1>2, PTL DEF Spec

\* No token buys more than one rotation and one replay within the grace, for
\* the same client: what the grace gives up is never more than that.
THEOREM OneLineOfDescentHolds == Spec => []OneLineOfDescent
<1>1. FamilyInv => OneLineOfDescent
  BY DEF FamilyInv
<1> QED
  BY <1>1, FamilyInvariant, PTL

\* Only a presentation of a token changes what tokens have bought.
LEMMA OnlyPresentSpends ==
  ASSUME [Next]_vars, spends' # spends
  PROVE  \E c \in Clients, t \in (1..issued) \union {Forged} :
           Rotate(c, t) \/ Replay(c, t)
BY DEF Next, vars, Present, NotAccepted, EndSpent, Crash, SignOut, Lock, Unlock,
       RemoveSignIn, AccessEnds, AccessExtended, Tick

\* A token a replay displaced unused never buys anything.
THEOREM DisplacedStaysDeadHolds == Spec => DisplacedStaysDead
<1>1. FamilyInv /\ [Next]_vars =>
        [\A t \in Tokens :
           spends'[t] # spends[t] => t = session.cur \/ Len(spends[t]) = 1]_vars
  <2> SUFFICES ASSUME FamilyInv, [Next]_vars, NEW u \in Tokens, spends'[u] # spends[u]
               PROVE  u = session.cur \/ Len(spends[u]) = 1
    OBVIOUS
  <2>1. PICK c \in Clients, t \in (1..issued) \union {Forged} :
             Rotate(c, t) \/ Replay(c, t)
    BY OnlyPresentSpends
  <2>2. spends' = [spends EXCEPT ![t] = Append(@, [by |-> c, at |-> now])]
    BY <2>1 DEF Rotate, Replay, Hand
  <2>3. u = t
    BY <2>2 DEF FamilyInv, TypeOK
  <2>4. CASE Rotate(c, t)
    BY <2>3, <2>4 DEF Rotate
  <2>5. CASE Replay(c, t)
    BY <2>3, <2>5 DEF Replay, GraceAllows, FamilyInv, PreviousSpentOnce, Tokens, NoToken
  <2> QED
    BY <2>1, <2>4, <2>5
<1> QED
  BY <1>1, FamilyInvariant, PTL DEF Spec, DisplacedStaysDead

\* A refused token of the family means an ended session: the answer never
\* leaves before the revocation.
THEOREM RefusedMeansEndedHolds == Spec => []RefusedMeansEnded
<1>1. Init => RefusedMeansEnded
  BY DEF Init, RefusedMeansEnded
<1>2. FamilyInv /\ RefusedMeansEnded /\ [Next]_vars => RefusedMeansEnded'
  <2> SUFFICES ASSUME FamilyInv, RefusedMeansEnded, [Next]_vars
               PROVE  RefusedMeansEnded'
    OBVIOUS
  <2>1. CASE \E t \in Tokens \union {Forged} : EndSpent(t)
    <3>1. PICK t \in Tokens \union {Forged} : EndSpent(t)
      BY <2>1
    <3>2. CASE Kind(t) = "family"
      <4>1. BelongsHere(t)
        BY <3>2, TimesAssumption DEF Kind, BelongsHere, Names, Forged, Tokens
      <4> QED
        BY <3>1, <4>1 DEF EndSpent, Revoke, RefusedMeansEnded, FamilyInv, TypeOK, Sessions
    <3>3. CASE Kind(t) # "family"
      BY <3>1, <3>3 DEF EndSpent, Revoke, RefusedMeansEnded, FamilyInv, TypeOK, Sessions
    <3> QED
      BY <3>2, <3>3
  <2>2. CASE ~\E t \in Tokens \union {Forged} : EndSpent(t)
    <3>1. refused' = refused
      BY <2>2 DEF Next, vars, Present, Rotate, Replay, Hand, NotAccepted, Crash, SignOut,
                  Lock, Unlock, RemoveSignIn, AccessEnds, AccessExtended, Tick
    <3>2. session.revoked # "no" => session'.revoked # "no"
      BY <2>2 DEF Next, vars, Present, Rotate, Replay, MayRefresh, NotAccepted, Crash,
                  SignOut, Lock, Unlock, RemoveSignIn, AccessEnds, AccessExtended, Tick,
                  Revoke
    <3> QED
      BY <3>1, <3>2 DEF RefusedMeansEnded
  <2> QED
    BY <2>1, <2>2
<1> QED
  BY <1>1, <1>2, FamilyInvariant, PTL DEF Spec

\* What waits for its second transaction has been replaced since it was made:
\* a current token is never on its way to ending its session.
SpentRetired == \A t \in spent : t \in Tokens => t < session.cur

LEMMA SpentRetiredInvariant == Spec => []SpentRetired
<1>1. Init => SpentRetired
  BY DEF Init, SpentRetired
<1>2. FamilyInv /\ SpentRetired /\ [Next]_vars => SpentRetired'
  <2> SUFFICES ASSUME FamilyInv, SpentRetired, [Next]_vars,
                      NEW u \in spent', u \in Tokens
               PROVE  u < session'.cur
    BY DEF SpentRetired
  <2>0. session.cur \in Nat /\ session.cur = issued /\ issued \in Nat /\ u \in Nat
    BY TimesAssumption DEF FamilyInv, TypeOK, Sessions, CurrentIsLast, Tokens
  <2>1. CASE \E c \in Clients : Present(c)
    <3>1. PICK c \in Clients, t \in (1..issued) \union {Forged} :
               Rotate(c, t) \/ Replay(c, t) \/ NotAccepted(c, t)
      BY <2>1 DEF Present
    <3>2. CASE Rotate(c, t) \/ Replay(c, t)
      <4>1. session'.cur = issued + 1 /\ spent' = spent
        BY <3>2, <2>0 DEF Rotate, Replay, Hand, FamilyInv, TypeOK, Sessions
      <4> QED
        BY <4>1, <2>0 DEF SpentRetired
    <3>3. CASE NotAccepted(c, t)
      BY <3>3, <2>0, TimesAssumption DEF NotAccepted, SpentRetired, Forged, Tokens
    <3> QED
      BY <3>1, <3>2, <3>3
  <2>2. CASE ~\E c \in Clients : Present(c)
    <3>1. spent' \subseteq spent
      BY <2>2 DEF Next, vars, EndSpent, Crash, SignOut, Lock, Unlock, RemoveSignIn,
                  AccessEnds, AccessExtended, Tick
    <3>2. session'.cur = session.cur
      BY <2>2, RevokeTouchesOnlyReason
      DEF Next, vars, EndSpent, Crash, SignOut, Lock, Unlock, RemoveSignIn,
          AccessEnds, AccessExtended, Tick, FamilyInv, TypeOK, Reasons
    <3> QED
      BY <3>1, <3>2 DEF SpentRetired
  <2> QED
    BY <2>1, <2>2
<1> QED
  BY <1>1, <1>2, FamilyInvariant, PTL DEF Spec

\* Once ended, a session keeps its reason and hands out nothing; only a token
\* the vault made and has replaced since ends it as reused.
THEOREM EndedOnceForCauseHolds == Spec => EndedOnceForCause
<1>1. FamilyInv /\ SpentRetired /\ [Next]_vars =>
        [/\ session.revoked # "no" =>
              session'.revoked = session.revoked /\ spends' = spends
         /\ session.revoked = "no" /\ session'.revoked = "reuse" =>
              \E t \in spent : t < session.cur]_vars
  <2> SUFFICES ASSUME FamilyInv, SpentRetired, [Next]_vars
               PROVE  /\ session.revoked # "no" =>
                           session'.revoked = session.revoked /\ spends' = spends
                      /\ session.revoked = "no" /\ session'.revoked = "reuse" =>
                           \E t \in spent : t < session.cur
    OBVIOUS
  <2>0. session \in Sessions
    BY DEF FamilyInv, TypeOK
  <2>1. CASE \E c \in Clients : Present(c)
    BY <2>0, <2>1 DEF Present, Rotate, Replay, MayRefresh, NotAccepted, Sessions
  <2>2. CASE \E t \in Tokens \union {Forged} : EndSpent(t)
    <3>1. PICK t \in Tokens \union {Forged} : EndSpent(t)
      BY <2>2
    <3>2. session.revoked # "no" =>
            session'.revoked = session.revoked /\ spends' = spends
      BY <3>1 DEF EndSpent, Revoke
    <3>3. ASSUME session.revoked = "no", session'.revoked = "reuse"
          PROVE  \E u \in spent : u < session.cur
      <4>1. t \in spent /\ BelongsHere(t)
        BY <3>1, <3>3 DEF EndSpent
      <4>2. t \in Tokens
        <5>1. Remembered \subseteq Tokens
          BY <2>0 DEF Remembered, Sessions
        <5> QED
          BY <4>1, <5>1, <2>0, TimesAssumption
          DEF BelongsHere, Names, Sessions, Forged, Tokens, NoToken
      <4> QED
        BY <4>1, <4>2 DEF SpentRetired
    <3> QED
      BY <3>2, <3>3
  <2>3. CASE Crash \/ SignOut \/ Lock \/ Unlock \/ RemoveSignIn \/ AccessEnds
               \/ AccessExtended \/ Tick \/ UNCHANGED vars
    BY <2>0, <2>3 DEF Crash, SignOut, Lock, Unlock, RemoveSignIn, AccessEnds,
                      AccessExtended, Tick, vars, Revoke, Sessions
  <2> QED
    BY <2>1, <2>2, <2>3 DEF Next
<1> QED
  BY <1>1, FamilyInvariant, SpentRetiredInvariant, PTL DEF Spec, EndedOnceForCause

-----------------------------------------------------------------------------
(* The contexts that share a stored session.                               *)

\* What holds of the contexts whether or not their platform has a lock.
SharedInv ==
  /\ FamilyInv
  /\ ClientsTypeOK
  /\ OnlyMadeTokens
  /\ RenewalsHoldLock
  /\ LossesCounted

LEMMA StoredValues ==
  /\ SignedOut \notin Tokens /\ NewSignIn \notin Tokens /\ Ended \notin Tokens
  /\ NoToken \notin Tokens /\ Forged \notin Tokens
  /\ SignedOut # NewSignIn /\ Ended # NoToken
BY TimesAssumption DEF SignedOut, NewSignIn, Ended, NoToken, Forged, Tokens

\* A set without two different members has at most one.
LEMMA AtMostOne ==
  ASSUME NEW S, \A p, q \in S : p = q
  PROVE  Cardinality(S) <= 1
<1>1. CASE S = {}
  BY <1>1, FS_EmptySet
<1>2. CASE S # {}
  <2>1. PICK p \in S : TRUE
    BY <1>2
  <2>2. S = {p}
    BY <2>1
  <2>3. Cardinality({p}) = 1
    BY FS_Singleton
  <2> QED
    BY <2>2, <2>3
<1> QED
  BY <1>1, <1>2

\* Goto moves one context's renewal and no other's.
LEMMA GotoMovesOne ==
  ASSUME NEW p \in Contexts, NEW r \in Renewals, Goto(p, r),
         renewal \in [Contexts -> Renewals]
  PROVE  /\ renewal' \in [Contexts -> Renewals]
         /\ renewal'[p] = r
         /\ \A q \in Contexts \ {p} : renewal'[q] = renewal[q]
BY DEF Goto

LEMMA IdleIsRenewal ==
  /\ Idle \in Renewals /\ Idle.at = "idle" /\ Idle.using = NoToken
  /\ Idle.answer = NoToken
BY ContextsAssumption DEF Idle, Renewals

\* Every step of the contexts is a step of the family, or leaves it alone.
LEMMA ContextsMoveFamily ==
  ASSUME SharedInv, [ClientsNext]_allVars
  PROVE  [Next]_vars
<1> USE DEF SharedInv
<1>0. TypeOK /\ issued \in Nat /\ Browser \in Clients
  BY ClientsAssumption, TimesAssumption DEF ClientsTypeOK, TypeOK, Tokens, Browser
<1>1. ASSUME NEW t \in Tokens, t <= issued,
             Rotate(Browser, t) \/ Replay(Browser, t) \/ NotAccepted(Browser, t)
      PROVE  Next
  <2>1. t \in 1..issued
    BY <1>0, <1>1 DEF Tokens
  <2> QED
    BY <1>0, <1>1, <2>1 DEF Next, Present
<1>2. ASSUME NEW p \in Contexts, Presenting(p)
      PROVE  renewal[p].using \in Tokens /\ renewal[p].using <= issued
  BY <1>2 DEF RenewalsHoldLock, OnlyMadeTokens
<1>3. ASSUME NEW p \in Contexts, Serve(p) PROVE [Next]_vars
  BY <1>1, <1>2, <1>3 DEF Serve, Presenting
<1>4. ASSUME NEW p \in Contexts, ServeSpent(p) PROVE Next
  BY <1>2, <1>4 DEF ServeSpent, Next, Presenting
<1>5. ASSUME NEW t \in Tokens, ServeLate(t) PROVE [Next]_vars
  BY <1>1, <1>5 DEF ServeLate, OnlyMadeTokens
<1>6. ASSUME NEW t \in Tokens, LateSpent(t) PROVE Next
  BY <1>6 DEF LateSpent, Next
<1>7. ASSUME EndedElsewhere \/ TimePasses PROVE Next
  BY <1>7 DEF EndedElsewhere, TimePasses, Next
<1>8. ASSUME NEW p \in Contexts,
             Begin(p) \/ Load(p) \/ AnswerLost(p) \/ RequestLost(p) \/ Answer(p)
               \/ TooMany(p) \/ WaitedOut(p) \/ Reload(p)
               \/ ClearHere(p) \/ SignInHere(p)
      PROVE  [Next]_vars
  BY <1>8 DEF Begin, Load, AnswerLost, RequestLost, Answer, TooMany, WaitedOut, Reload,
              ClearHere, SignInHere, Next
<1>9. CASE UNCHANGED allVars
  BY <1>9 DEF allVars
<1> QED
  BY <1>3, <1>4, <1>5, <1>6, <1>7, <1>8, <1>9 DEF ClientsNext

\* The vault's side of every step: more tokens are made, never fewer.
LEMMA FamilyGrows ==
  ASSUME FamilyInv, [Next]_vars
  PROVE  FamilyInv' /\ TypeOK' /\ issued <= issued' /\ issued \in Nat /\ issued' \in Nat
<1>1. FamilyInv' /\ TypeOK /\ TypeOK'
  BY NextKeeps DEF FamilyInv
<1>2. issued' = issued \/ issued' = issued + 1
  BY DEF Next, vars, Present, Rotate, Replay, Hand, NotAccepted, EndSpent, Crash, SignOut,
         Lock, Unlock, RemoveSignIn, AccessEnds, AccessExtended, Tick
<1> QED
  BY <1>1, <1>2, TimesAssumption DEF TypeOK, Tokens

\* The invariant from its parts, after a step whose contexts hold the lock one
\* at a time.
LEMMA SharedFromParts ==
  ASSUME FamilyInv', store' \in Stored, mem' \in [Contexts -> Stored],
         renewal' \in [Contexts -> Renewals], late' \subseteq Tokens, notBefore' \in Nat,
         lost' \in 0..MaxLost, inARow' \in 0..MaxLost, overtaken' \in BOOLEAN,
         OnlyMadeTokens', RenewalsHoldLock', LossesCounted'
  PROVE  SharedInv'
<1>1. lock' \subseteq Contexts
  BY DEF RenewalsHoldLock
<1>2. HasLock => Cardinality(lock') <= 1
  BY AtMostOne DEF RenewalsHoldLock
<1> QED
  BY <1>1, <1>2 DEF SharedInv, ClientsTypeOK, FamilyInv

LEMMA ClientsInitShared == ClientsInit => SharedInv
<1> SUFFICES ASSUME ClientsInit PROVE SharedInv
  OBVIOUS
<1> USE DEF ClientsInit
<1>1. FamilyInv
  BY InitInv
<1>2. 1 \in Tokens /\ issued = 1
  BY TimesAssumption DEF Init, Tokens
<1>3. Cardinality(lock) <= 1
  BY AtMostOne
<1>4. ClientsTypeOK
  <2>1. mem \in [Contexts -> Stored] /\ store \in Stored
    BY <1>2 DEF Stored
  <2>2. renewal \in [Contexts -> Renewals]
    BY IdleIsRenewal
  <2>3. lost \in 0..MaxLost /\ inARow \in 0..MaxLost
    BY ContextsAssumption
  <2>4. overtaken \in BOOLEAN /\ late \subseteq Tokens /\ lock \subseteq Contexts
        /\ notBefore \in Nat
    OBVIOUS
  <2> HIDE DEF ClientsInit
  <2> QED
    BY <1>1, <1>3, <2>1, <2>2, <2>3, <2>4 DEF ClientsTypeOK, FamilyInv
<1>5. OnlyMadeTokens
  BY <1>2, StoredValues, IdleIsRenewal DEF OnlyMadeTokens, Tokens
<1>6. RenewalsHoldLock
  BY IdleIsRenewal DEF RenewalsHoldLock, Presenting
<1>7. LossesCounted
  BY DEF LossesCounted
<1> QED
  BY <1>1, <1>4, <1>5, <1>6, <1>7 DEF SharedInv

Resting == {"idle", "waiting"}

\* A renewal that may follow: it presents a token, or is about another session.
Sound(r) ==
  /\ r.at # "idle" => r.using \in Tokens \union {NewSignIn}
  /\ r.at \in {"asking", "spent", "answered"} => r.using \in Tokens
  /\ r.at = "answered" => r.answer # NoToken
  /\ r.at = "waiting" => r.retried < RenewalRetries

\* The lock after a context takes it, keeps it or leaves it.
LockStep(p, r) ==
  \/ renewal[p].at \in Resting /\ LockFree /\ lock' = lock \union {p} /\ r.at \notin Resting
  \/ renewal[p].at \notin Resting /\ r.at \notin Resting /\ lock' = lock
  \/ r.at \in Resting /\ lock' = lock \ {p}

LEMMA LockMoves ==
  ASSUME SharedInv, NEW p \in Contexts, NEW r \in Renewals, Goto(p, r),
         Sound(r), LockStep(p, r)
  PROVE  RenewalsHoldLock'
<1> USE DEF SharedInv, Resting
<1>1. /\ renewal' \in [Contexts -> Renewals] /\ renewal'[p] = r
      /\ \A q \in Contexts \ {p} : renewal'[q] = renewal[q]
  BY GotoMovesOne DEF ClientsTypeOK
<1>2. lock' = {q \in Contexts : renewal'[q].at \notin Resting}
  BY <1>1 DEF RenewalsHoldLock, LockStep
<1>3. HasLock => \A q, u \in lock' : q = u
  BY <1>1 DEF RenewalsHoldLock, LockFree, LockStep
<1>4. ASSUME NEW q \in Contexts PROVE Sound(renewal'[q])
  <2>1. CASE q = p
    BY <1>1, <2>1
  <2>2. CASE q # p
    BY <1>1, <2>2 DEF RenewalsHoldLock, Presenting, Sound
  <2> QED
    BY <2>1, <2>2
<1> QED
  BY <1>2, <1>3, <1>4 DEF RenewalsHoldLock, Presenting, Sound

LEMMA MadeStays ==
  ASSUME SharedInv, issued \in Nat, issued' \in Nat, issued <= issued',
         \A t \in Tokens :
           \/ t = store' \/ t \in late' \/ \E p \in Contexts : t \in {mem'[p], renewal'[p].using, renewal'[p].answer}
           => \/ t = store \/ t \in late \/ t <= issued'
              \/ \E p \in Contexts : t \in {mem[p], renewal[p].using, renewal[p].answer}
  PROVE  OnlyMadeTokens'
<1> SUFFICES ASSUME NEW t \in Tokens,
                    \/ t = store' \/ t \in late'
                    \/ \E p \in Contexts : t \in {mem'[p], renewal'[p].using, renewal'[p].answer}
             PROVE  t <= issued'
  BY DEF OnlyMadeTokens
<1>1. CASE t <= issued'
  BY <1>1
<1>2. CASE \/ t = store \/ t \in late
           \/ \E p \in Contexts : t \in {mem[p], renewal[p].using, renewal[p].answer}
  <2>1. t <= issued
    BY <1>2 DEF SharedInv, OnlyMadeTokens
  <2> QED
    BY <2>1, TimesAssumption DEF Tokens
<1> QED
  BY <1>1, <1>2

\* A step in which one context's renewal moves, whatever it keeps of what it
\* knew or was answered.
LEMMA ContextMoves ==
  ASSUME SharedInv, FamilyInv', issued \in Nat, issued' \in Nat, issued <= issued',
         NEW p \in Contexts, NEW r \in Renewals, Goto(p, r), Sound(r), LockStep(p, r),
         r.using \in Tokens => r.using \in {renewal[p].using, mem[p], store},
         r.answer \in Tokens => r.answer = renewal[p].answer \/ r.answer <= issued',
         store' \in Stored, mem' \in [Contexts -> Stored], notBefore' \in Nat,
         store' \in Tokens => store' \in {store, renewal[p].using} \/ store' <= issued',
         \A q \in Contexts :
           mem'[q] \in Tokens => mem'[q] \in {mem[q], store} \/ mem'[q] <= issued',
         late' \subseteq Tokens, late' \subseteq late \union {renewal[p].using},
         lost' \in 0..MaxLost, inARow' \in 0..MaxLost, overtaken' \in BOOLEAN,
         LossesCounted'
  PROVE  SharedInv'
<1>1. /\ renewal' \in [Contexts -> Renewals] /\ renewal'[p] = r
      /\ \A q \in Contexts \ {p} : renewal'[q] = renewal[q]
  BY GotoMovesOne DEF SharedInv, ClientsTypeOK
<1>2. RenewalsHoldLock'
  BY LockMoves
<1>3. OnlyMadeTokens'
  BY <1>1, MadeStays
<1> QED
  BY <1>1, <1>2, <1>3, SharedFromParts

\* The same, when nothing is lost or given up on.
LEMMA ContextMovesOn ==
  ASSUME SharedInv, FamilyInv', issued \in Nat, issued' \in Nat, issued <= issued',
         NEW p \in Contexts, NEW r \in Renewals, Goto(p, r), Sound(r), LockStep(p, r),
         r.using \in Tokens => r.using \in {renewal[p].using, mem[p], store},
         r.answer \in Tokens => r.answer = renewal[p].answer \/ r.answer <= issued',
         store' \in Stored, mem' \in [Contexts -> Stored], notBefore' \in Nat,
         store' \in Tokens => store' \in {store, renewal[p].using} \/ store' <= issued',
         \A q \in Contexts :
           mem'[q] \in Tokens => mem'[q] \in {mem[q], store} \/ mem'[q] <= issued',
         late' = late, lost' = lost, inARow' \in {inARow, 0}, overtaken' = overtaken
  PROVE  SharedInv'
<1>1. /\ late' \subseteq Tokens /\ lost' \in 0..MaxLost /\ inARow' \in 0..MaxLost
      /\ overtaken' \in BOOLEAN
  BY ContextsAssumption DEF SharedInv, ClientsTypeOK
<1>2. LossesCounted'
  BY <1>1 DEF SharedInv, LossesCounted
<1> QED
  BY <1>1, <1>2, ContextMoves

\* What a step leaves, by the step.
LEMMA SharedStep ==
  ASSUME SharedInv, [ClientsNext]_allVars
  PROVE  SharedInv'
<1> USE DEF SharedInv
<1>0. FamilyInv' /\ TypeOK' /\ issued <= issued' /\ issued \in Nat /\ issued' \in Nat
  BY ContextsMoveFamily, FamilyGrows
<1>1. /\ store \in Stored /\ mem \in [Contexts -> Stored] /\ notBefore \in Nat
      /\ renewal \in [Contexts -> Renewals] /\ late \subseteq Tokens
      /\ lost \in 0..MaxLost /\ inARow \in 0..MaxLost /\ overtaken \in BOOLEAN
      /\ NoToken \notin Tokens /\ now \in Nat /\ Tokens \subseteq Stored
  BY StoredValues, TimesAssumption DEF ClientsTypeOK, TypeOK, Stored
<1>r. Sound(Idle) /\ Idle \in Renewals /\ Idle.at \in Resting /\ Idle.using \notin Tokens
      /\ Idle.answer \notin Tokens
  BY <1>1, IdleIsRenewal DEF Sound, Resting
<1>2. ASSUME NEW p \in Contexts, Begin(p) PROVE SharedInv'
  <2> DEFINE r == [Idle EXCEPT !.at = "begun", !.using = mem[p]]
  <2>1. r \in Renewals /\ r.at = "begun" /\ r.using = mem[p] /\ r.answer = NoToken
    BY <1>1, IdleIsRenewal DEF Renewals
  <2>2. mem[p] \in Tokens \union {NewSignIn}
    BY <1>1, <1>2 DEF Begin, Stored
  <2>3. Goto(p, r)
    BY <1>2 DEF Begin
  <2> HIDE DEF r
  <2>4. Sound(r) /\ LockStep(p, r)
    BY <1>2, <2>1, <2>2 DEF Begin, Sound, LockStep, Resting
  <2> QED
    BY <1>0, <1>1, <1>2, <2>1, <2>3, <2>4, ContextMovesOn DEF Begin
<1>3. ASSUME NEW p \in Contexts, Load(p) PROVE SharedInv'
  <2>1. /\ renewal[p].at = "begun" /\ store' = store /\ late' = late /\ lost' = lost
        /\ inARow' = inARow /\ overtaken' = overtaken /\ notBefore' = notBefore
    BY <1>3 DEF Load
  <2>2. mem' = mem \/ mem' = [mem EXCEPT ![p] = store]
    BY <1>3 DEF Load, Latest
  <2>3. CASE Finish(p)
    BY <1>0, <1>1, <1>r, <2>1, <2>2, <2>3, ContextMovesOn DEF Finish, LockStep
  <2>4. ASSUME store \in Tokens, UNCHANGED lock,
               Goto(p, [renewal[p] EXCEPT !.at = "asking", !.using = store])
        PROVE  SharedInv'
    <3> DEFINE r == [renewal[p] EXCEPT !.at = "asking", !.using = store]
    <3>1. /\ r \in Renewals /\ r.at = "asking" /\ r.using = store
          /\ r.answer = renewal[p].answer
      BY <1>1 DEF Renewals
    <3>2. Goto(p, r)
      BY <2>4
    <3> HIDE DEF r
    <3>3. Sound(r) /\ LockStep(p, r)
      BY <2>1, <2>4, <3>1 DEF Sound, LockStep, Resting
    <3> QED
      BY <1>0, <1>1, <2>1, <2>2, <3>1, <3>2, <3>3, ContextMovesOn
  <2> QED
    BY <1>3, <2>3, <2>4 DEF Load, Latest
<1>4. ASSUME NEW p \in Contexts, Serve(p) PROVE SharedInv'
  <2> DEFINE b == [renewal[p] EXCEPT !.at = "answered", !.answer = issued']
             d == [renewal[p] EXCEPT !.at = "spent"]
             e == [renewal[p] EXCEPT !.at = "answered", !.answer = Ended]
  <2>1. /\ renewal[p].at = "asking" /\ store' = store /\ mem' = mem /\ lock' = lock
        /\ late' = late /\ lost' = lost /\ inARow' = inARow /\ overtaken' = overtaken
        /\ notBefore' = notBefore
    BY <1>4 DEF Serve
  <2>2. renewal[p] \in Renewals /\ renewal[p].using \in Tokens /\ issued' \in Tokens
    BY <1>0, <1>1, <2>1 DEF RenewalsHoldLock, TypeOK, Presenting
  <2>3. /\ b \in Renewals /\ b.at = "answered" /\ b.using = renewal[p].using
        /\ b.answer = issued'
        /\ d \in Renewals /\ d.at = "spent" /\ d.using = renewal[p].using
        /\ d.answer = renewal[p].answer
        /\ e \in Renewals /\ e.at = "answered" /\ e.using = renewal[p].using
        /\ e.answer = Ended
        /\ issued' # NoToken
    BY <2>2, StoredValues DEF Renewals
  <2>4. Goto(p, b) \/ Goto(p, d) \/ Goto(p, e)
    BY <1>4 DEF Serve
  <2> HIDE DEF b, d, e
  <2>5. \A r \in {b, d, e} : Sound(r) /\ LockStep(p, r)
    BY <2>1, <2>2, <2>3, StoredValues DEF Sound, LockStep, Resting
  <2>6. \A r \in {b, d, e} : Goto(p, r) => SharedInv'
    BY <1>0, <1>1, <2>1, <2>3, <2>5, StoredValues, ContextMovesOn
  <2> QED
    BY <2>4, <2>6
<1>5. ASSUME NEW p \in Contexts, ServeSpent(p) PROVE SharedInv'
  <2> DEFINE e == [renewal[p] EXCEPT !.at = "answered", !.answer = Ended]
  <2>1. /\ renewal[p].at = "spent" /\ store' = store /\ mem' = mem /\ lock' = lock
        /\ late' = late /\ lost' = lost /\ inARow' = inARow /\ overtaken' = overtaken
        /\ notBefore' = notBefore /\ Goto(p, e)
    BY <1>5 DEF ServeSpent
  <2>2. renewal[p] \in Renewals /\ renewal[p].using \in Tokens
    BY <1>1, <2>1 DEF RenewalsHoldLock, Presenting
  <2>3. /\ e \in Renewals /\ e.at = "answered" /\ e.using = renewal[p].using
        /\ e.answer = Ended
    BY <2>2 DEF Renewals
  <2> HIDE DEF e
  <2>4. Sound(e) /\ LockStep(p, e)
    BY <2>1, <2>2, <2>3, StoredValues DEF Sound, LockStep, Resting
  <2> QED
    BY <1>0, <1>1, <2>1, <2>3, <2>4, StoredValues, ContextMovesOn
<1>6. ASSUME NEW p \in Contexts, Answer(p) PROVE SharedInv'
  <2>1. /\ renewal[p].at = "answered" /\ Finish(p)
        /\ late' = late /\ lost' = lost /\ overtaken' = overtaken
        /\ inARow' \in {inARow, 0} /\ notBefore' \in {notBefore, 0}
    BY <1>6 DEF Answer
  <2>2. ASSUME store' \in Stored, mem' \in [Contexts -> Stored],
               store' \in Tokens => store' = store \/ store' <= issued',
               \A q \in Contexts : mem'[q] \in Tokens => mem'[q] = mem[q] \/ mem'[q] <= issued'
        PROVE  SharedInv'
    BY <1>0, <1>1, <1>r, <2>1, <2>2, ContextMovesOn DEF Finish, LockStep
  <2>3. renewal[p].answer # Ended =>
          /\ renewal[p].answer \in Tokens /\ renewal[p].answer <= issued'
    <3>1. renewal[p].answer # NoToken
      BY <2>1 DEF RenewalsHoldLock
    <3>2. renewal[p] \in Renewals
      BY <1>1
    <3>3. renewal[p].answer \in Tokens \union {NoToken, Ended}
      BY <3>2 DEF Renewals
    <3>4. renewal[p].answer \in Tokens => renewal[p].answer <= issued
      BY DEF OnlyMadeTokens
    <3> QED
      BY <1>0, <3>1, <3>3, <3>4, TimesAssumption DEF Tokens
  <2>4. SignedOut \in Stored /\ SignedOut \notin Tokens
    BY StoredValues DEF Stored
  <2>5. CASE UNCHANGED <<mem, store>>
    BY <1>1, <2>2, <2>5
  <2>6. CASE \E s \in Stored : /\ s \in Tokens => s <= issued'
                               /\ mem' = [mem EXCEPT ![p] = s] /\ store' = s
    BY <1>1, <2>2, <2>6
  <2> QED
    BY <1>1, <1>6, <2>3, <2>4, <2>5, <2>6 DEF Answer
<1>7. ASSUME NEW p \in Contexts, AnswerLost(p) \/ RequestLost(p) PROVE SharedInv'
  <2>1. /\ Presenting(p) /\ Finish(p) /\ store' = store /\ mem' = mem
        /\ overtaken' = overtaken /\ lost < MaxLost /\ lost' = lost + 1
        /\ inARow' \in {inARow, inARow + 1} /\ notBefore' = notBefore
        /\ late' \subseteq late \union {renewal[p].using}
    BY <1>7 DEF AnswerLost, RequestLost, Presenting
  <2>2. lost' \in 0..MaxLost /\ inARow' \in 0..MaxLost /\ LossesCounted'
    BY <1>1, <2>1, ContextsAssumption DEF LossesCounted
  <2>3. late' \subseteq Tokens
    BY <1>1, <2>1 DEF RenewalsHoldLock
  <2> QED
    BY <1>0, <1>1, <1>r, <2>1, <2>2, <2>3, ContextMoves DEF Finish, LockStep
<1>8. ASSUME NEW p \in Contexts, TooMany(p) PROVE SharedInv'
  <2>1. /\ renewal[p].at = "asking" /\ mem' = mem /\ late' = late /\ lost' = lost
        /\ inARow' = inARow /\ overtaken' = overtaken /\ lock' = lock \ {p}
    BY <1>8 DEF TooMany
  <2>2. renewal[p] \in Renewals /\ renewal[p].using \in Tokens
    BY <1>1, <2>1 DEF RenewalsHoldLock, Presenting
  <2>w. \A wait \in RetryAfter : now + wait \in Nat
    BY <1>1, ContextsAssumption DEF RetryAfter
  <2>3. store' \in {store, renewal[p].using} /\ notBefore' \in Nat
    BY <1>1, <1>8, <2>w DEF TooMany
  <2>4. CASE Goto(p, Idle)
    BY <1>0, <1>1, <1>r, <2>1, <2>2, <2>3, <2>4, ContextMovesOn DEF LockStep
  <2>5. ASSUME NEW wait \in RetryAfter,
               Goto(p, [renewal[p] EXCEPT !.at = "waiting", !.until = now + wait]),
               renewal[p].retried < RenewalRetries
        PROVE  SharedInv'
    <3> DEFINE r == [renewal[p] EXCEPT !.at = "waiting", !.until = now + wait]
    <3>1. /\ r \in Renewals /\ r.at = "waiting" /\ r.using = renewal[p].using
          /\ r.answer = renewal[p].answer /\ r.retried = renewal[p].retried
      BY <1>1, <2>2, <2>w DEF Renewals
    <3>2. Goto(p, r)
      BY <2>5
    <3> HIDE DEF r
    <3>3. Sound(r) /\ LockStep(p, r)
      BY <2>1, <2>2, <2>5, <3>1 DEF Sound, LockStep, Resting
    <3> QED
      BY <1>0, <1>1, <2>1, <2>2, <2>3, <3>1, <3>2, <3>3, ContextMovesOn
  <2> QED
    BY <1>8, <2>4, <2>5 DEF TooMany
<1>9. ASSUME NEW p \in Contexts, WaitedOut(p) PROVE SharedInv'
  <2>1. /\ renewal[p].at = "waiting" /\ store' = store /\ mem' = mem /\ late' = late
        /\ lost' = lost /\ inARow' = inARow /\ overtaken' = overtaken
        /\ notBefore' = notBefore
    BY <1>9 DEF WaitedOut
  <2>2. CASE Goto(p, Idle) /\ UNCHANGED lock
    <3>1. LockStep(p, Idle)
      BY <1>r, <2>1, <2>2 DEF LockStep, RenewalsHoldLock
    <3> QED
      BY <1>0, <1>1, <1>r, <2>1, <2>2, <3>1, ContextMovesOn
  <2>3. ASSUME mem[p] = renewal[p].using, LockFree, lock' = lock \union {p},
               Goto(p, [Idle EXCEPT !.at = "begun", !.using = mem[p],
                                    !.retried = renewal[p].retried + 1])
        PROVE  SharedInv'
    <3> DEFINE r == [Idle EXCEPT !.at = "begun", !.using = mem[p],
                                 !.retried = renewal[p].retried + 1]
    <3>1. Goto(p, r)
      BY <2>3
    <3>2. r.at = "begun" /\ r.using = mem[p] /\ r.answer = NoToken
      BY DEF Idle
    <3>3. r \in Renewals
      <4>1. renewal[p] \in Renewals /\ renewal[p].retried < RenewalRetries
        BY <1>1, <2>1 DEF RenewalsHoldLock
      <4>2. renewal[p].retried + 1 \in 0..RenewalRetries /\ mem[p] \in Stored
        BY <1>1, <4>1, ContextsAssumption DEF Renewals
      <4> QED
        BY <4>2, IdleIsRenewal DEF Renewals
    <3> HIDE DEF r
    <3>4. Sound(r) /\ LockStep(p, r)
      BY <2>1, <2>3, <3>2 DEF Sound, LockStep, Resting, RenewalsHoldLock
    <3> QED
      BY <1>0, <1>1, <2>1, <3>1, <3>2, <3>3, <3>4, ContextMovesOn
  <2> QED
    BY <1>9, <2>2, <2>3 DEF WaitedOut
<1>10. ASSUME NEW p \in Contexts, Reload(p) PROVE SharedInv'
  <2>1. /\ Finish(p) /\ store' = store /\ mem' = [mem EXCEPT ![p] = store]
        /\ notBefore' = notBefore
        /\ \/ renewal[p].at \notin {"asking", "spent", "answered"} /\ lost' = lost
                /\ late' = late /\ inARow' = inARow /\ overtaken' = overtaken
           \/ renewal[p].at = "asking" /\ lost < MaxLost /\ lost' = lost + 1
                /\ late' \subseteq late \union {renewal[p].using} /\ inARow' = inARow
                /\ overtaken' = overtaken
           \/ renewal[p].at \in {"spent", "answered"} /\ lost < MaxLost /\ lost' = lost + 1
                /\ late' = late /\ inARow' \in {inARow, inARow + 1}
                /\ overtaken' \in BOOLEAN
    BY <1>1, <1>10 DEF Reload
  <2>2. lost' \in 0..MaxLost /\ inARow' \in 0..MaxLost /\ LossesCounted'
        /\ overtaken' \in BOOLEAN
    BY <1>1, <2>1, ContextsAssumption DEF LossesCounted
  <2>3. late' \subseteq Tokens /\ late' \subseteq late \union {renewal[p].using}
    BY <1>1, <2>1 DEF RenewalsHoldLock, Presenting
  <2> QED
    BY <1>0, <1>1, <1>r, <2>1, <2>2, <2>3, ContextMoves DEF Finish, LockStep
<1>11. ASSUME renewal' = renewal, lock' = lock, inARow' = inARow, lost' = lost,
             store' \in Stored, mem' \in [Contexts -> Stored], notBefore' \in Nat,
             store' \in Tokens => store' = store,
             \A q \in Contexts : mem'[q] \in Tokens => mem'[q] = mem[q],
             late' \subseteq late, overtaken' \in BOOLEAN,
             overtaken' # overtaken => late # {}
      PROVE  SharedInv'
  <2>1. RenewalsHoldLock' /\ LossesCounted'
    BY <1>1, <1>11 DEF RenewalsHoldLock, LossesCounted, Presenting
  <2>2. OnlyMadeTokens'
    BY <1>0, <1>1, <1>11, MadeStays
  <2> QED
    BY <1>0, <1>1, <1>11, <2>1, <2>2, SharedFromParts
<1>12. ASSUME NEW p \in Contexts, ClearHere(p) \/ SignInHere(p) PROVE SharedInv'
  <2>1. /\ SignedOut \in Stored /\ SignedOut \notin Tokens
        /\ NewSignIn \in Stored /\ NewSignIn \notin Tokens
    BY StoredValues DEF Stored
  <2> QED
    BY <1>1, <1>11, <1>12, <2>1 DEF ClearHere, SignInHere
<1>13. ASSUME NEW t \in Tokens, ServeLate(t) PROVE SharedInv'
  BY <1>1, <1>11, <1>13 DEF ServeLate
<1>14. ASSUME NEW t \in Tokens, LateSpent(t) PROVE SharedInv'
  BY <1>1, <1>11, <1>14 DEF LateSpent, clientVars
<1>15. CASE EndedElsewhere \/ TimePasses \/ UNCHANGED allVars
  BY <1>1, <1>11, <1>15 DEF EndedElsewhere, TimePasses, clientVars, allVars
<1> QED
  BY <1>2, <1>3, <1>4, <1>5, <1>6, <1>7, <1>8, <1>9, <1>10, <1>12, <1>13, <1>14, <1>15
  DEF ClientsNext

\* What the contexts hold was made by the vault, with a lock or without: the
\* first half of the inductive invariant.
THEOREM SharedInvariant == ClientsSpec => []SharedInv
<1>1. ClientsInit => SharedInv
  BY ClientsInitShared
<1>2. SharedInv /\ [ClientsNext]_allVars => SharedInv'
  BY SharedStep
<1> QED
  BY <1>1, <1>2, PTL DEF ClientsSpec

\* The contexts of a browser, over the vault's side, implement the family: what
\* is proved of it for every client holds of them.
THEOREM ClientsImplementFamily == ClientsSpec => Spec
<1>1. ClientsInit => Init
  BY DEF ClientsInit
<1>2. SharedInv /\ [ClientsNext]_allVars => [Next]_vars
  BY ContextsMoveFamily
<1> QED
  BY <1>1, <1>2, SharedInvariant, PTL DEF ClientsSpec, Spec

\* Somebody who signed out in a context is not signed back in there by a
\* renewal that was in the air.
THEOREM OwnSignOutStandsHolds == ClientsSpec => OwnSignOutStands
<1>1. SharedInv /\ [ClientsNext]_allVars =>
        [\A p \in Contexts :
           mem[p] = SignedOut /\ mem'[p] \in Tokens => Reload(p)]_allVars
  <2> SUFFICES ASSUME SharedInv, [ClientsNext]_allVars,
                      NEW q \in Contexts, mem[q] = SignedOut, mem'[q] \in Tokens
               PROVE  Reload(q)
    OBVIOUS
  <2>0. mem \in [Contexts -> Stored] /\ SignedOut \notin Tokens /\ NewSignIn \notin Tokens
        /\ SignedOut # NewSignIn
    BY StoredValues DEF SharedInv, ClientsTypeOK
  <2>1. CASE mem' = mem
    BY <2>0, <2>1
  <2>2. ASSUME NEW p \in Contexts, Load(p) \/ Answer(p), mem' # mem
        PROVE  FALSE
    <3>1. mem[p] = renewal[p].using /\ renewal[p].at # "idle"
      BY <2>2 DEF Load, Answer, StillWanted
    <3>2. mem[p] \in Tokens \union {NewSignIn}
      BY <3>1 DEF SharedInv, RenewalsHoldLock
    <3>3. p # q
      BY <3>2, <2>0
    <3>4. mem'[q] = mem[q]
      BY <2>0, <2>2, <3>3 DEF Load, Answer
    <3> QED
      BY <3>4, <2>0
  <2>3. ASSUME NEW p \in Contexts, ClearHere(p) \/ SignInHere(p)
        PROVE  FALSE
    BY <2>0, <2>3 DEF ClearHere, SignInHere
  <2>4. ASSUME NEW p \in Contexts, Reload(p) PROVE Reload(q)
    <3>1. mem' = [mem EXCEPT ![p] = store]
      BY <2>4 DEF Reload
    <3>2. p = q
      BY <2>0, <3>1
    <3> QED
      BY <2>4, <3>2
  <2> QED
    BY <2>1, <2>2, <2>3, <2>4
    DEF ClientsNext, Begin, Serve, ServeSpent, AnswerLost, RequestLost, TooMany,
        WaitedOut, ServeLate, LateSpent, EndedElsewhere, TimePasses, clientVars, allVars
<1> QED
  BY <1>1, SharedInvariant, PTL DEF ClientsSpec, OwnSignOutStands

-----------------------------------------------------------------------------
(* With a lock: one renewal at a time.                                     *)

LEMMA Alone ==
  ASSUME HasLock, SharedInv, NEW p \in Contexts, renewal[p].at \notin Resting
  PROVE  \A q \in Contexts \ {p} : renewal[q].at \in Resting /\ ~Presenting(q)
BY DEF SharedInv, RenewalsHoldLock, Resting, Presenting

LEMMA VaultSideStep ==
  ASSUME SharedInv, VaultSide, [ClientsNext]_allVars
  PROVE  VaultSide'
<1>0. session \in Sessions
  BY DEF SharedInv, FamilyInv, TypeOK
<1>1. ASSUME NEW t, Rotate(Browser, t) \/ Replay(Browser, t) PROVE VaultSide'
  BY <1>0, <1>1 DEF Rotate, Replay, Hand, MayRefresh, VaultSide, Sessions
<1>2. ASSUME NEW t, NotAccepted(Browser, t) \/ EndSpent(t) PROVE VaultSide'
  BY <1>0, <1>2 DEF NotAccepted, EndSpent, Revoke, VaultSide, Sessions
<1>3. CASE SignOut \/ Lock \/ Tick \/ UNCHANGED vars
  BY <1>0, <1>3 DEF SignOut, Lock, Tick, Revoke, VaultSide, Sessions, vars
<1> QED
  BY <1>1, <1>2, <1>3
  DEF ClientsNext, Begin, Load, Serve, ServeSpent, AnswerLost, RequestLost, Answer,
      TooMany, WaitedOut, Reload, ClearHere, SignInHere, ServeLate, LateSpent,
      EndedElsewhere, TimePasses, allVars

\* Past Load, store and token presented agree, or the store has no token.
LEMMA OneTokenStep ==
  ASSUME HasLock, SharedInv, OneTokenHere, [ClientsNext]_allVars
  PROVE  OneTokenHere'
<1>0. /\ renewal \in [Contexts -> Renewals] /\ mem \in [Contexts -> Stored]
      /\ SignedOut \notin Tokens /\ NewSignIn \notin Tokens
      /\ SharedInv' /\ renewal' \in [Contexts -> Renewals]
  BY StoredValues, SharedStep DEF SharedInv, ClientsTypeOK
<1>1. ASSUME NEW p \in Contexts,
             \A q \in Contexts \ {p} : renewal'[q] = renewal[q] /\ mem'[q] = mem[q],
             store' # store => renewal[p].at \notin Resting,
             \/ ~Presenting(p)'
             \/ store' = store /\ mem' = mem /\ Presenting(p)
                  /\ renewal'[p].using = renewal[p].using
      PROVE  OneTokenHere'
  <2> SUFFICES ASSUME NEW q \in Contexts, Presenting(q)'
               PROVE  /\ store' \in Tokens => store' = renewal'[q].using
                      /\ mem'[q] # renewal'[q].using =>
                           mem'[q] \notin Tokens /\ store' \notin Tokens
    BY DEF OneTokenHere
  <2>1. CASE q = p
    BY <1>1, <2>1 DEF OneTokenHere
  <2>2. CASE q # p
    <3>1. renewal'[q] = renewal[q] /\ mem'[q] = mem[q] /\ Presenting(q)
      BY <1>1, <2>2 DEF Presenting
    <3>2. store' = store
      BY <1>1, <2>2, <3>1, Alone
    <3> QED
      BY <3>1, <3>2 DEF OneTokenHere
  <2> QED
    BY <2>1, <2>2
<1>2. ASSUME NEW p \in Contexts, NEW r, Goto(p, r)
      PROVE  /\ renewal'[p] = r
             /\ \A q \in Contexts \ {p} : renewal'[q] = renewal[q]
  BY <1>0, <1>2 DEF Goto
<1>3. ASSUME NEW p \in Contexts, Begin(p) PROVE OneTokenHere'
  <2>1. renewal'[p].at = "begun"
    BY <1>0, <1>3 DEF Begin, Idle, Goto
  <2> QED
    BY <1>0, <1>1, <1>3, <2>1 DEF Begin, Presenting, Goto
<1>4. ASSUME NEW p \in Contexts, Load(p) PROVE OneTokenHere'
  <2>1. renewal[p].at = "begun" /\ store' = store
        /\ \A q \in Contexts \ {p} : mem'[q] = mem[q]
    BY <1>0, <1>4 DEF Load
  <2>2. CASE Finish(p)
    BY <1>1, <1>2, <2>1, <2>2, IdleIsRenewal DEF Finish, Presenting
  <2>3. CASE ~Finish(p)
    <3>1. /\ Goto(p, [renewal[p] EXCEPT !.at = "asking", !.using = store])
          /\ mem'[p] = store /\ store \in Tokens
      BY <1>0, <1>4, <2>3 DEF Load, Latest
    <3>2. renewal[p] \in Renewals
      BY <1>0
    <3>3. /\ renewal'[p].using = store
          /\ \A q \in Contexts \ {p} : renewal'[q] = renewal[q]
      BY <1>0, <3>1, <3>2 DEF Renewals, Goto
    <3>4. \A q \in Contexts \ {p} : ~Presenting(q)
      BY <2>1, Alone DEF Resting
    <3> QED
      BY <2>1, <3>1, <3>3, <3>4 DEF OneTokenHere, Presenting
  <2> QED
    BY <2>2, <2>3
<1>5. ASSUME NEW p \in Contexts, Serve(p) \/ ServeSpent(p) PROVE OneTokenHere'
  <2>1. Presenting(p) /\ store' = store /\ mem' = mem
    BY <1>5 DEF Serve, ServeSpent, Presenting
  <2>2. renewal[p] \in Renewals
    BY <1>0
  <2>3. \/ Goto(p, [renewal[p] EXCEPT !.at = "answered", !.answer = issued'])
        \/ Goto(p, [renewal[p] EXCEPT !.at = "spent"])
        \/ Goto(p, [renewal[p] EXCEPT !.at = "answered", !.answer = Ended])
    BY <1>5 DEF Serve, ServeSpent
  <2>4. \A q \in Contexts \ {p} : renewal'[q] = renewal[q]
    BY <1>0, <2>3 DEF Goto
  <2>5. \/ renewal'[p] = [renewal[p] EXCEPT !.at = "answered", !.answer = issued']
        \/ renewal'[p] = [renewal[p] EXCEPT !.at = "spent"]
        \/ renewal'[p] = [renewal[p] EXCEPT !.at = "answered", !.answer = Ended]
    BY <1>0, <2>3 DEF Goto
  <2>6. renewal'[p].using = renewal[p].using
    BY <2>2, <2>5 DEF Renewals
  <2> QED
    BY <1>1, <2>1, <2>4, <2>6
<1>6. ASSUME NEW p \in Contexts, Goto(p, Idle),
             store' # store => renewal[p].at \notin Resting,
             \A q \in Contexts \ {p} : mem'[q] = mem[q]
      PROVE  OneTokenHere'
  BY <1>1, <1>2, <1>6, IdleIsRenewal DEF Presenting
<1>7. ASSUME NEW p \in Contexts, AnswerLost(p) \/ RequestLost(p) \/ Answer(p) \/ Reload(p)
      PROVE  OneTokenHere'
  <2>1. Goto(p, Idle) /\ (store' # store => renewal[p].at \notin Resting)
        /\ \A q \in Contexts \ {p} : mem'[q] = mem[q]
    BY <1>0, <1>7 DEF AnswerLost, RequestLost, Answer, Reload, Finish, Resting
  <2> QED
    BY <1>6, <2>1
<1>8. ASSUME NEW p \in Contexts, TooMany(p) PROVE OneTokenHere'
  <2>1. renewal[p].at \notin Resting /\ mem' = mem /\ renewal[p] \in Renewals
    BY <1>0, <1>8 DEF TooMany, Resting
  <2>2. CASE Goto(p, Idle)
    BY <1>6, <2>1, <2>2
  <2>3. CASE ~Goto(p, Idle)
    <3>1. \E wait \in RetryAfter :
            Goto(p, [renewal[p] EXCEPT !.at = "waiting", !.until = now + wait])
      BY <1>8, <2>3 DEF TooMany
    <3>2. /\ renewal'[p].at = "waiting"
          /\ \A q \in Contexts \ {p} : renewal'[q] = renewal[q]
      BY <1>0, <2>1, <3>1 DEF Renewals, Goto
    <3> QED
      BY <1>1, <2>1, <3>2 DEF Presenting
  <2> QED
    BY <2>2, <2>3
<1>9. ASSUME NEW p \in Contexts, WaitedOut(p) PROVE OneTokenHere'
  <2>1. store' = store /\ mem' = mem
    BY <1>9 DEF WaitedOut
  <2>2. CASE Goto(p, Idle)
    BY <1>6, <2>1, <2>2
  <2>3. CASE ~Goto(p, Idle)
    <3>1. renewal'[p].at = "begun"
          /\ \A q \in Contexts \ {p} : renewal'[q] = renewal[q]
      BY <1>0, <1>9, <2>3 DEF WaitedOut, Idle, Goto
    <3> QED
      BY <1>1, <2>1, <3>1 DEF Presenting
  <2> QED
    BY <2>2, <2>3
<1>10. ASSUME NEW p \in Contexts, ClearHere(p) \/ SignInHere(p)
      PROVE  OneTokenHere'
  BY <1>0, <1>10 DEF ClearHere, SignInHere, OneTokenHere, Presenting
<1>11. CASE UNCHANGED <<store, mem, renewal>>
  BY <1>11 DEF OneTokenHere, Presenting
<1> QED
  BY <1>3, <1>4, <1>5, <1>7, <1>8, <1>9, <1>10, <1>11
  DEF ClientsNext, ServeLate, LateSpent, EndedElsewhere, TimePasses, clientVars, allVars

\* A live session answers the current token, and the previous one while its
\* grace lasts, with a token.
LEMMA LiveVaultAnswers ==
  ASSUME SharedInv, VaultSide, NEW t \in Tokens
  PROVE  /\ session.revoked = "no" /\ Fits(t) /\ NotAccepted(Browser, t) =>
              inARow >= 2 \/ (inARow = 1 /\ GraceOver)
         /\ Rotate(Browser, t) \/ Replay(Browser, t) =>
              /\ session.revoked = "no" /\ session'.revoked = "no" /\ spent' = spent
              /\ session'.cur = issued'
              /\ inARow = 0 /\ Fits(t) =>
                   session'.prev = t /\ ~session'.graceUsed
<1> USE DEF SharedInv, FamilyInv
<1>0. /\ session \in Sessions /\ now \in Nat /\ RefreshGrace \in Nat
      /\ inARow \in Nat /\ TypeOK
  BY TimesAssumption, ContextsAssumption DEF TypeOK, ClientsTypeOK
<1>1. SameClient(Browser)
  BY ClientsAssumption DEF SameClient, VaultSide, Browser
<1>2. ASSUME session.revoked = "no", t = session.prev, ~session.graceUsed, ~GraceOver
      PROVE  GraceAllows(Browser)
  <2>1. /\ session.prev \in Tokens /\ Len(spends[session.prev]) = 1
        /\ spends[session.prev][1].at = session.rotatedAt
    BY <1>2, StoredValues DEF PreviousSpentOnce
  <2>2. spends[session.prev] \in Seq(Spend) /\ 1 \in 1..Len(spends[session.prev])
    BY <1>0, <2>1 DEF TypeOK
  <2>3. spends[session.prev][1] \in Spend
    BY <2>2
  <2>4. session.rotatedAt \in Nat
    BY <2>1, <2>3 DEF Spend
  <2> QED
    BY <1>0, <1>1, <1>2, <2>4 DEF GraceAllows, GraceOver, Never
<1>3. ASSUME session.revoked = "no", Fits(t), NotAccepted(Browser, t)
      PROVE  inARow >= 2 \/ (inARow = 1 /\ GraceOver)
  <2>1. t # session.cur /\ ~(t = session.prev /\ GraceAllows(Browser))
    BY <1>3 DEF NotAccepted
  <2> QED
    BY <1>0, <1>2, <1>3, <2>1 DEF Fits
<1>4. ASSUME Rotate(Browser, t)
      PROVE  /\ session.revoked = "no" /\ session'.revoked = "no" /\ spent' = spent
             /\ session'.cur = issued' /\ session'.prev = t /\ ~session'.graceUsed
  BY <1>0, <1>4 DEF Rotate, Hand, MayRefresh, Sessions
<1>5. ASSUME Replay(Browser, t)
      PROVE  /\ session.revoked = "no" /\ session'.revoked = "no" /\ spent' = spent
             /\ session'.cur = issued' /\ t # session.cur
  BY <1>0, <1>5 DEF Replay, Hand, MayRefresh, Sessions, CurrentIsLast, Tokens
<1> QED
  BY <1>3, <1>4, <1>5 DEF Fits

\* What a late answer, or a request given up on, could disturb.
OnTimeInv == KeepsFit /\ SpentHere /\ NoFalseAlarm /\ NoAnswerOutlivesReuse

\* The vault's side without an answer: a session that ends keeps its tokens, and
\* the grace does not come back.
LEMMA EndingKeepsRow ==
  ASSUME SharedInv,
         SignOut \/ Lock \/ Tick \/ UNCHANGED vars \/ \E t \in Tokens : EndSpent(t)
  PROVE  /\ session'.revoked = "no" => session.revoked = "no"
         /\ session.revoked # "no" => session'.revoked = session.revoked
         /\ session'.cur = session.cur /\ session'.prev = session.prev
         /\ session'.graceUsed = session.graceUsed
         /\ session'.revoked = "reuse" =>
              session.revoked = "reuse" \/ \E t \in Tokens : EndSpent(t)
         /\ spent' \subseteq spent
         /\ GraceOver => GraceOver'
<1>0. /\ session \in Sessions /\ now \in Nat /\ session.rotatedAt \in Int
      /\ RefreshGrace \in Nat
  BY TimesAssumption DEF SharedInv, FamilyInv, TypeOK, Sessions, Never
<1>1. /\ session'.revoked = "no" => session.revoked = "no"
      /\ session.revoked # "no" => session'.revoked = session.revoked
      /\ session'.cur = session.cur /\ session'.prev = session.prev
      /\ session'.graceUsed = session.graceUsed
      /\ session'.revoked = "reuse" =>
           session.revoked = "reuse" \/ \E t \in Tokens : EndSpent(t)
      /\ spent' \subseteq spent
  BY <1>0 DEF SignOut, Lock, Tick, EndSpent, Revoke, vars, Sessions
<1>2. session'.rotatedAt = session.rotatedAt /\ (now' = now \/ now' = now + 1)
  BY <1>0 DEF SignOut, Lock, Tick, EndSpent, Revoke, vars, Sessions
<1>3. GraceOver => GraceOver'
  BY <1>0, <1>2 DEF GraceOver
<1> QED
  BY <1>1, <1>3

\* A step in which no renewal that presents a token moves.
LEMMA QuietKeeps ==
  ASSUME SharedInv, OnTimeInv, SignOut \/ Lock \/ Tick \/ UNCHANGED vars,
         \A p \in Contexts :
           renewal'[p] = renewal[p] \/ (~Presenting(p) /\ ~Presenting(p)'),
         store' \in Tokens => store' = store,
         inARow' = inARow, overtaken' = overtaken
  PROVE  OnTimeInv'
<1> USE DEF OnTimeInv
<1>0. /\ session'.revoked = "no" => session.revoked = "no"
      /\ session.revoked # "no" => session'.revoked = session.revoked
      /\ session'.cur = session.cur /\ session'.prev = session.prev
      /\ session'.graceUsed = session.graceUsed
      /\ GraceOver => GraceOver'
  BY EndingKeepsRow
<1>1. /\ session'.revoked = "reuse" => session.revoked = "reuse"
      /\ spent' = spent
  BY DEF SignOut, Lock, Tick, Revoke, vars, SharedInv, FamilyInv, TypeOK, Sessions
<1>2. \A p \in Contexts : Presenting(p) \/ Presenting(p)' => renewal'[p] = renewal[p]
  OBVIOUS
<1>3. KeepsFit'
  <2> SUFFICES ASSUME session'.revoked = "no", ~overtaken'
               PROVE  /\ store' \in Tokens /\ NoneServed' => Fits(store)'
                      /\ \A p \in Contexts : RenewalFits(p)'
    BY DEF KeepsFit
  <2>1. NoneServed' => NoneServed
    BY <1>2 DEF NoneServed, Presenting
  <2>2. \A t : Fits(t) => Fits(t)'
    BY <1>0 DEF Fits
  <2>3. store' \in Tokens /\ NoneServed' => Fits(store)'
    BY <1>0, <2>1, <2>2 DEF KeepsFit, Fits
  <2>4. ASSUME NEW p \in Contexts PROVE RenewalFits(p)'
    <3>1. RenewalFits(p)
      BY <1>0 DEF KeepsFit
    <3>2. CASE Presenting(p)'
      BY <1>0, <1>2, <3>1, <3>2 DEF RenewalFits, Fits
    <3>3. CASE ~Presenting(p)'
      BY <3>3 DEF RenewalFits, Presenting
    <3> QED
      BY <3>2, <3>3
  <2> QED
    BY <2>3, <2>4
<1>4. SpentHere'
  BY <1>1, <1>2 DEF SpentHere, Presenting
<1>5. NoFalseAlarm' /\ NoAnswerOutlivesReuse'
  BY <1>0, <1>1, <1>2 DEF NoFalseAlarm, NoAnswerOutlivesReuse, Presenting
<1> QED
  BY <1>3, <1>4, <1>5

\* With the other contexts at rest, the invariant is about one renewal.
LEMMA AboutOne ==
  ASSUME NEW p \in Contexts, \A q \in Contexts \ {p} : renewal'[q].at \in Resting,
         session'.revoked = "no" /\ ~overtaken' =>
           /\ RenewalFits(p)'
           /\ store' \in Tokens /\ renewal'[p].at \notin {"spent", "answered"} => Fits(store)',
         ~overtaken' => \A t \in spent' : renewal'[p].at = "spent" /\ renewal'[p].using = t,
         NoFalseAlarm',
         session'.revoked = "reuse" /\ ~overtaken' /\ renewal'[p].at = "answered" =>
           renewal'[p].answer = Ended
  PROVE  OnTimeInv'
<1> USE DEF Resting
<1>1. KeepsFit'
  <2> SUFFICES ASSUME session'.revoked = "no", ~overtaken'
               PROVE  /\ store' \in Tokens /\ NoneServed' => Fits(store)'
                      /\ \A q \in Contexts : RenewalFits(q)'
    BY DEF KeepsFit
  <2>1. store' \in Tokens /\ NoneServed' => Fits(store)'
    BY DEF NoneServed
  <2>2. ASSUME NEW q \in Contexts PROVE RenewalFits(q)'
    BY DEF RenewalFits
  <2> QED
    BY <2>1, <2>2
<1>2. SpentHere'
  BY DEF SpentHere
<1>3. NoAnswerOutlivesReuse'
  BY DEF NoAnswerOutlivesReuse
<1> QED
  BY <1>1, <1>2, <1>3 DEF OnTimeInv

LEMMA OnTimeStep ==
  ASSUME HasLock, SharedInv, VaultSide, OneTokenHere, OnTimeInv, [ClientsNext]_allVars
  PROVE  OnTimeInv'
<1>0. /\ renewal \in [Contexts -> Renewals] /\ mem \in [Contexts -> Stored]
      /\ SignedOut \notin Tokens /\ NewSignIn \notin Tokens /\ Ended \notin Tokens
      /\ inARow \in Nat /\ overtaken \in BOOLEAN /\ SharedInv'
  BY StoredValues, SharedStep DEF SharedInv, ClientsTypeOK
<1>1. CASE overtaken'
  BY <1>1 DEF OnTimeInv, KeepsFit, SpentHere, NoFalseAlarm, NoAnswerOutlivesReuse
<1>2. ASSUME NEW p \in Contexts, UNCHANGED vars, ~Presenting(p), ~Presenting(p)',
             \A q \in Contexts \ {p} : renewal'[q] = renewal[q],
             store' = store, inARow' = inARow, overtaken' = overtaken
      PROVE  OnTimeInv'
  BY <1>2, QuietKeeps
<1>3. ASSUME NEW p \in Contexts, UNCHANGED vars, ~Presenting(p), Goto(p, Idle),
             store' = store, inARow' = inARow, overtaken' = overtaken
      PROVE  OnTimeInv'
  BY <1>0, <1>2, <1>3, IdleIsRenewal DEF Goto, Presenting
<1>4. ASSUME NEW p \in Contexts, Begin(p) \/ WaitedOut(p) PROVE OnTimeInv'
  <2>1. /\ renewal[p].at \in Resting /\ UNCHANGED vars /\ store' = store
        /\ inARow' = inARow /\ overtaken' = overtaken
    BY <1>4 DEF Begin, WaitedOut, Resting
  <2>2. CASE Goto(p, Idle)
    BY <1>3, <2>1, <2>2 DEF Presenting, Resting
  <2>3. CASE ~Goto(p, Idle)
    <3>1. CASE Begin(p)
      <4>1. renewal'[p].at = "begun"
            /\ \A q \in Contexts \ {p} : renewal'[q] = renewal[q]
        BY <1>0, <3>1 DEF Begin, Idle, Goto
      <4> QED
        BY <1>2, <2>1, <4>1 DEF Presenting, Resting
    <3>2. CASE WaitedOut(p)
      <4>1. renewal'[p].at = "begun"
            /\ \A q \in Contexts \ {p} : renewal'[q] = renewal[q]
        BY <1>0, <2>3, <3>2 DEF WaitedOut, Idle, Goto
      <4> QED
        BY <1>2, <2>1, <4>1 DEF Presenting, Resting
    <3> QED
      BY <1>4, <3>1, <3>2
  <2> QED
    BY <2>2, <2>3
<1>5. ASSUME NEW p \in Contexts, NEW r \in Renewals, Goto(p, r),
             renewal[p].at \in {"begun", "asking", "answered"}, UNCHANGED vars,
             overtaken' = overtaken, NoFalseAlarm',
             r.at \in {"idle", "asking", "waiting"},
             session.revoked = "no" /\ ~overtaken =>
               /\ store' \in Tokens => Fits(store)'
               /\ r.at = "asking" => r.using = store'
      PROVE  OnTimeInv'
  <2>1. /\ renewal'[p] = r
        /\ \A q \in Contexts \ {p} : renewal'[q] = renewal[q]
    BY <1>0, <1>5, GotoMovesOne
  <2>2. \A q \in Contexts \ {p} : renewal[q].at \in Resting
    BY <1>5, Alone DEF Resting
  <2>3. ~overtaken => spent = {}
    BY <1>5, <2>2 DEF OnTimeInv, SpentHere, Resting
  <2>4. r.at = "asking" => r.using \in Tokens
    BY <1>0, <2>1 DEF SharedInv, RenewalsHoldLock, Presenting
  <2>5. session'.revoked = "no" /\ ~overtaken' => RenewalFits(p)'
    BY <1>5, <2>1, <2>4 DEF RenewalFits, Fits, vars
  <2> QED
    BY <1>5, <2>1, <2>2, <2>3, <2>5, AboutOne DEF vars
<1>6. ASSUME NEW p \in Contexts, Load(p) PROVE OnTimeInv'
  <2>1. /\ renewal[p].at = "begun" /\ store' = store /\ UNCHANGED vars
        /\ inARow' = inARow /\ overtaken' = overtaken
    BY <1>6 DEF Load
  <2>2. CASE Goto(p, Idle)
    BY <1>3, <2>1, <2>2 DEF Presenting
  <2>3. CASE ~Goto(p, Idle)
    <3> DEFINE r == [renewal[p] EXCEPT !.at = "asking", !.using = store]
    <3>1. Goto(p, r) /\ store \in Tokens
      BY <1>6, <2>3 DEF Load, Latest, Finish
    <3>2. renewal[p] \in Renewals
      BY <1>0
    <3>3. r \in Renewals /\ r.at = "asking" /\ r.using = store
      BY <3>1, <3>2 DEF Renewals, Stored
    <3> HIDE DEF r
    <3>4. \A q \in Contexts \ {p} : renewal[q].at \in Resting
      BY <2>1, Alone DEF Resting
    <3>5. NoneServed
      BY <2>1, <3>4 DEF NoneServed, Resting
    <3>6. session.revoked = "no" /\ ~overtaken /\ store' \in Tokens => Fits(store)'
      BY <2>1, <3>5 DEF OnTimeInv, KeepsFit, Fits, vars
    <3>7. NoFalseAlarm'
      BY <2>1 DEF OnTimeInv, NoFalseAlarm, GraceOver, vars
    <3> QED
      BY <1>5, <2>1, <3>1, <3>3, <3>6, <3>7
  <2> QED
    BY <2>2, <2>3
<1>7. ASSUME NEW p \in Contexts, NEW r \in Renewals, renewal[p].at = "asking", Goto(p, r),
             r.at \in {"idle", "waiting"}, UNCHANGED vars,
             store' \in {store, renewal[p].using}, inARow' = inARow, overtaken' = overtaken
      PROVE  OnTimeInv'
  <2>1. \A q \in Contexts \ {p} : renewal[q].at \in Resting
    BY <1>7, Alone DEF Resting
  <2>2. NoneServed
    BY <1>7, <2>1 DEF NoneServed, Resting
  <2>3. session.revoked = "no" /\ ~overtaken /\ store' \in Tokens => Fits(store)'
    BY <1>7, <2>2 DEF OnTimeInv, KeepsFit, RenewalFits, Fits, vars
  <2>4. NoFalseAlarm'
    BY <1>7 DEF OnTimeInv, NoFalseAlarm, GraceOver, vars
  <2> QED
    BY <1>5, <1>7, <2>3, <2>4
<1>8. ASSUME NEW p \in Contexts, renewal[p].at = "answered", store' = store,
             UNCHANGED vars, Goto(p, Idle), overtaken' = overtaken,
             inARow' = IF renewal[p].answer \in Tokens THEN inARow + 1 ELSE inARow
      PROVE  OnTimeInv'
  <2>1. NoFalseAlarm'
    BY <1>0, <1>8 DEF OnTimeInv, NoFalseAlarm, GraceOver, vars
  <2>2. ASSUME session.revoked = "no", ~overtaken, store' \in Tokens PROVE Fits(store)'
    <3>1. store = renewal[p].using
      BY <1>8, <2>2 DEF OneTokenHere, Presenting
    <3>2. RenewalFits(p)
      BY <2>2 DEF OnTimeInv, KeepsFit
    <3>3. CASE renewal[p].answer = Ended
      BY <1>0, <1>8, <3>1, <3>2, <3>3 DEF RenewalFits, Fits, vars
    <3>4. CASE renewal[p].answer # Ended
      <4>1. renewal[p].answer = session.cur
        BY <1>8, <3>2, <3>4 DEF RenewalFits
      <4>2. renewal[p].answer \in Tokens
        BY <4>1 DEF SharedInv, FamilyInv, TypeOK, Sessions
      <4> QED
        BY <1>0, <1>8, <3>1, <3>2, <3>4, <4>2 DEF RenewalFits, Fits, vars
    <3> QED
      BY <3>3, <3>4
  <2> QED
    BY <1>5, <1>8, <2>1, <2>2, IdleIsRenewal
<1>9. ASSUME NEW p \in Contexts, AnswerLost(p) \/ RequestLost(p) \/ Reload(p),
             ~overtaken'
      PROVE  OnTimeInv'
  <2>1. store' = store /\ UNCHANGED vars /\ Goto(p, Idle)
    BY <1>9 DEF AnswerLost, RequestLost, Reload, Finish
  <2>2. CASE ~Presenting(p)
    <3>1. inARow' = inARow /\ overtaken' = overtaken
      BY <1>0, <1>9, <2>2 DEF AnswerLost, RequestLost, Reload, Presenting
    <3> QED
      BY <1>3, <2>1, <2>2, <3>1
  <2>3. CASE renewal[p].at = "asking"
    <3>1. inARow' = inARow /\ overtaken' = overtaken
      BY <1>0, <1>9, <2>3 DEF AnswerLost, RequestLost, Reload
    <3> QED
      BY <1>7, <2>1, <2>3, <3>1, IdleIsRenewal
  <2>4. CASE renewal[p].at = "answered"
    <3>1. /\ inARow' = IF renewal[p].answer \in Tokens THEN inARow + 1 ELSE inARow
          /\ overtaken' = overtaken
      BY <1>0, <1>9, <2>4 DEF AnswerLost, RequestLost, Reload
    <3> QED
      BY <1>8, <2>1, <2>4, <3>1
  <2>5. renewal[p].at # "spent"
    BY <1>9 DEF AnswerLost, RequestLost, Reload
  <2> QED
    BY <2>2, <2>3, <2>4, <2>5 DEF Presenting
<1>10. ASSUME NEW p \in Contexts, TooMany(p) PROVE OnTimeInv'
  <2>1. /\ renewal[p].at = "asking" /\ UNCHANGED vars /\ inARow' = inARow
        /\ overtaken' = overtaken /\ store' \in {store, renewal[p].using}
        /\ renewal[p] \in Renewals
    BY <1>0, <1>10 DEF TooMany
  <2>2. CASE Goto(p, Idle)
    BY <1>7, <2>1, <2>2, IdleIsRenewal
  <2>3. ASSUME NEW wait \in RetryAfter,
               Goto(p, [renewal[p] EXCEPT !.at = "waiting", !.until = now + wait])
        PROVE  OnTimeInv'
    <3> DEFINE r == [renewal[p] EXCEPT !.at = "waiting", !.until = now + wait]
    <3>1. now + wait \in Nat
      BY TimesAssumption, ContextsAssumption
      DEF SharedInv, FamilyInv, TypeOK, RetryAfter
    <3>2. r \in Renewals /\ r.at = "waiting"
      BY <2>1, <3>1 DEF Renewals
    <3>3. Goto(p, r)
      BY <2>3
    <3> HIDE DEF r
    <3> QED
      BY <1>7, <2>1, <3>2, <3>3
  <2> QED
    BY <1>10, <2>2, <2>3 DEF TooMany
<1>11. ASSUME NEW p \in Contexts, Answer(p) PROVE OnTimeInv'
  <2>1. /\ renewal[p].at = "answered" /\ UNCHANGED vars /\ Goto(p, Idle)
        /\ overtaken' = overtaken
        /\ inARow' = IF renewal[p].answer \in Tokens THEN 0 ELSE inARow
    BY <1>11 DEF Answer, Finish
  <2>2. NoFalseAlarm'
    BY <1>0, <2>1 DEF OnTimeInv, NoFalseAlarm, NoAnswerOutlivesReuse, GraceOver, vars
  <2>3. ASSUME session.revoked = "no", ~overtaken, store' \in Tokens PROVE Fits(store)'
    <3>1. StillWanted(p)
      <4>1. ~StillWanted(p) => store \notin Tokens /\ store' = store
        BY <1>11, <2>1 DEF Answer, OneTokenHere, Presenting, StillWanted
      <4> QED
        BY <4>1, <2>3
    <3>2. renewal[p].answer # Ended /\ store' = renewal[p].answer
      BY <1>0, <1>11, <2>3, <3>1 DEF Answer
    <3>3. renewal[p].answer = session.cur
      BY <2>1, <2>3, <3>2 DEF OnTimeInv, KeepsFit, RenewalFits
    <3> QED
      BY <2>1, <2>3, <3>2, <3>3 DEF Fits, vars
  <2> QED
    BY <1>5, <2>1, <2>2, <2>3, IdleIsRenewal
<1>12. ASSUME NEW p \in Contexts, Serve(p), ~overtaken' PROVE OnTimeInv'
  <2> DEFINE t == renewal[p].using
             b == [renewal[p] EXCEPT !.at = "answered", !.answer = issued']
             d == [renewal[p] EXCEPT !.at = "spent"]
             e == [renewal[p] EXCEPT !.at = "answered", !.answer = Ended]
  <2>1. /\ renewal[p].at = "asking" /\ store' = store
        /\ inARow' = inARow /\ overtaken' = overtaken
    BY <1>12 DEF Serve
  <2>2. renewal[p] \in Renewals /\ t \in Tokens /\ issued' \in Tokens
    BY <1>0, <2>1, ContextsMoveFamily, FamilyGrows
    DEF SharedInv, RenewalsHoldLock, TypeOK, Presenting
  <2>3. /\ b \in Renewals /\ b.at = "answered" /\ b.using = t /\ b.answer = issued'
        /\ d \in Renewals /\ d.at = "spent" /\ d.using = t
        /\ e \in Renewals /\ e.at = "answered" /\ e.using = t /\ e.answer = Ended
    BY <2>2 DEF Renewals
  <2>4. \A q \in Contexts \ {p} : renewal[q].at \in Resting
    BY <2>1, Alone DEF Resting
  <2>5. spent = {}
    BY <1>12, <2>1, <2>4 DEF OnTimeInv, SpentHere, Resting
  <2>6. session.revoked = "no" => Fits(t)
    BY <1>12, <2>1 DEF OnTimeInv, KeepsFit, RenewalFits
  <2>7. CASE (Rotate(Browser, t) \/ Replay(Browser, t)) /\ Goto(p, b)
    <3>1. /\ session.revoked = "no" /\ session'.revoked = "no" /\ spent' = spent
          /\ session'.cur = issued'
          /\ inARow = 0 => session'.prev = t /\ ~session'.graceUsed
      BY <2>2, <2>6, <2>7, LiveVaultAnswers
    <3> HIDE DEF b, t
    <3>2. /\ renewal'[p] = b
          /\ \A q \in Contexts \ {p} : renewal'[q] = renewal[q]
      BY <1>0, <2>3, <2>7, GotoMovesOne
    <3>3. RenewalFits(p)'
      BY <1>0, <2>1, <2>2, <2>3, <3>1, <3>2 DEF RenewalFits
    <3> QED
      BY <2>1, <2>3, <2>4, <2>5, <3>1, <3>2, <3>3, AboutOne DEF NoFalseAlarm
  <2>8. CASE NotAccepted(Browser, t) /\ Goto(p, d)
    <3>1. session.revoked = "no" => inARow >= 2 \/ (inARow = 1 /\ GraceOver)
      BY <2>2, <2>6, <2>8, LiveVaultAnswers
    <3>2. session' = session /\ now' = now /\ spent' = spent \union {t}
      BY <2>8 DEF NotAccepted
    <3> HIDE DEF d, t
    <3>4. /\ renewal'[p] = d
          /\ \A q \in Contexts \ {p} : renewal'[q] = renewal[q]
      BY <1>0, <2>3, <2>8, GotoMovesOne
    <3>5. session'.revoked = "no" => RenewalFits(p)'
      BY <2>1, <2>3, <2>6, <3>1, <3>2, <3>4 DEF RenewalFits, Fits, GraceOver
    <3>6. NoFalseAlarm'
      BY <2>1, <3>2 DEF OnTimeInv, NoFalseAlarm, GraceOver
    <3> QED
      BY <2>1, <2>3, <2>4, <2>5, <3>2, <3>4, <3>5, <3>6, AboutOne
  <2>9. CASE Refuses(Browser, t) /\ UNCHANGED vars /\ Goto(p, e)
    <3>1. session' = session /\ now' = now /\ spent' = spent
      BY <2>9 DEF vars
    <3> HIDE DEF e, t
    <3>2. /\ renewal'[p] = e
          /\ \A q \in Contexts \ {p} : renewal'[q] = renewal[q]
      BY <1>0, <2>3, <2>9, GotoMovesOne
    <3>3. NoFalseAlarm'
      BY <2>1, <3>1 DEF OnTimeInv, NoFalseAlarm, GraceOver
    <3>4. session'.revoked = "no" => RenewalFits(p)'
      BY <2>1, <2>3, <2>6, <3>1, <3>2 DEF RenewalFits, Fits
    <3> QED
      BY <2>1, <2>3, <2>4, <2>5, <3>1, <3>2, <3>3, <3>4, AboutOne
  <2> QED
    BY <1>12, <2>7, <2>8, <2>9 DEF Serve
<1>13. ASSUME NEW p \in Contexts, ServeSpent(p), ~overtaken' PROVE OnTimeInv'
  <2> DEFINE t == renewal[p].using
             e == [renewal[p] EXCEPT !.at = "answered", !.answer = Ended]
  <2>1. /\ renewal[p].at = "spent" /\ store' = store /\ EndSpent(t) /\ Goto(p, e)
        /\ inARow' = inARow /\ overtaken' = overtaken
    BY <1>13 DEF ServeSpent
  <2>2. renewal[p] \in Renewals /\ t \in Tokens
    BY <1>0, <2>1 DEF SharedInv, RenewalsHoldLock, Presenting
  <2>3. e \in Renewals /\ e.at = "answered" /\ e.using = t /\ e.answer = Ended
    BY <2>2 DEF Renewals
  <2>4. \A q \in Contexts \ {p} : renewal[q].at \in Resting
    BY <2>1, Alone DEF Resting
  <2>5. spent' = {}
    <3>1. spent' = spent \ {t}
      BY <2>1 DEF EndSpent
    <3> QED
      BY <1>13, <2>1, <2>4, <3>1 DEF OnTimeInv, SpentHere, Resting
  <2>6. session.revoked = "no" =>
          (inARow >= 2 \/ (inARow = 1 /\ GraceOver)) /\ Fits(t)
    BY <1>13, <2>1 DEF OnTimeInv, KeepsFit, RenewalFits
  <2>7. /\ session'.revoked = "no" => session.revoked = "no"
        /\ session.revoked # "no" => session'.revoked = session.revoked
        /\ session'.cur = session.cur /\ session'.prev = session.prev
        /\ session'.graceUsed = session.graceUsed
        /\ GraceOver => GraceOver'
    BY <2>1, <2>2, EndingKeepsRow
  <2> HIDE DEF e, t
  <2>8. /\ renewal'[p] = e
        /\ \A q \in Contexts \ {p} : renewal'[q] = renewal[q]
    BY <1>0, <2>1, <2>3, GotoMovesOne
  <2>9. NoFalseAlarm'
    BY <1>13, <2>1, <2>6, <2>7 DEF OnTimeInv, NoFalseAlarm
  <2>10. session'.revoked = "no" => RenewalFits(p)'
    BY <2>1, <2>3, <2>6, <2>7, <2>8 DEF RenewalFits, Fits
  <2> QED
    BY <2>3, <2>4, <2>5, <2>8, <2>9, <2>10, AboutOne
<1>14. ASSUME NEW p \in Contexts, ClearHere(p) \/ SignInHere(p) PROVE OnTimeInv'
  BY <1>0, <1>14, QuietKeeps DEF ClearHere, SignInHere
<1>15. CASE EndedElsewhere \/ TimePasses \/ UNCHANGED allVars
  BY <1>15, QuietKeeps DEF EndedElsewhere, TimePasses, clientVars, allVars
<1>16. ASSUME NEW t \in Tokens, ServeLate(t) PROVE OnTimeInv'
  BY <1>1, <1>16 DEF ServeLate
<1>17. ASSUME NEW t \in Tokens, LateSpent(t) PROVE OnTimeInv'
  <2>1. t \in spent /\ overtaken' = overtaken
    BY <1>17 DEF LateSpent, EndSpent, clientVars
  <2>2. overtaken
    BY <1>17, <2>1 DEF LateSpent, OnTimeInv, SpentHere
  <2> QED
    BY <1>1, <2>1, <2>2
<1> QED
  BY <1>1, <1>4, <1>6, <1>9, <1>10, <1>11, <1>12, <1>13, <1>14, <1>15, <1>16, <1>17
  DEF ClientsNext

\* What is left of the invariant follows: no answer lost, the store has the
\* current token, or the answer that brings it is under way.
LEMMA KeepsUp ==
  ASSUME HasLock, SharedInv, OneTokenHere, KeepsFit
  PROVE  StoreKeepsUp
<1> SUFFICES ASSUME session.revoked = "no", lost = 0, store \in Tokens,
                    store # session.cur
             PROVE  \E p \in Contexts :
                      renewal[p].at = "answered" /\ renewal[p].answer = session.cur
  BY DEF StoreKeepsUp
<1>1. inARow = 0 /\ ~overtaken
  BY ContextsAssumption DEF SharedInv, LossesCounted, ClientsTypeOK
<1>2. ~NoneServed
  BY <1>1 DEF KeepsFit, Fits
<1>3. PICK p \in Contexts : renewal[p].at \in {"spent", "answered"}
  BY <1>2 DEF NoneServed
<1>4. RenewalFits(p) /\ store = renewal[p].using
  BY <1>1, <1>3 DEF KeepsFit, OneTokenHere, Presenting
<1> QED
  BY <1>1, <1>3, <1>4 DEF RenewalFits, Fits

\* One renewal at a time: a browser whose contexts share a lock is taken for a
\* thief only after two answers in a row lost, or one and the grace gone by, or a
\* request it had given up on; and it does not lose its session.
THEOREM ClientsInvariant == HasLock => (ClientsSpec => []ClientsInv)
<1> SUFFICES ASSUME HasLock PROVE ClientsSpec => []ClientsInv
  OBVIOUS
<1> DEFINE IInv == VaultSide /\ OneTokenHere /\ OnTimeInv
<1>1. ClientsInit => IInv
  <2> SUFFICES ASSUME ClientsInit PROVE IInv
    OBVIOUS
  <2>1. \A p \in Contexts : renewal[p].at = "idle"
    BY IdleIsRenewal DEF ClientsInit
  <2>2. VaultSide /\ session.cur = store /\ inARow = 0 /\ spent = {}
        /\ session.revoked = "no"
    BY DEF ClientsInit, Init, VaultSide, Browser
  <2>3. OneTokenHere
    BY <2>1 DEF OneTokenHere, Presenting
  <2>4. OnTimeInv
    BY <2>1, <2>2 DEF OnTimeInv, KeepsFit, Fits, RenewalFits, SpentHere, NoFalseAlarm,
                      NoAnswerOutlivesReuse
  <2> QED
    BY <2>2, <2>3, <2>4
<1>2. SharedInv /\ IInv /\ [ClientsNext]_allVars => IInv'
  BY VaultSideStep, OneTokenStep, OnTimeStep
<1>3. SharedInv /\ IInv => ClientsInv
  BY KeepsUp DEF ClientsInv, SharedInv, OnTimeInv
<1> QED
  BY <1>1, <1>2, <1>3, SharedInvariant, PTL DEF ClientsSpec

\* The family's promises, for the contexts of a browser: no token is worth more
\* to them than one rotation and one replay, and none is refused them as spent
\* while the session goes on.
COROLLARY ClientsKeepFamily ==
  ClientsSpec => [](OneLineOfDescent /\ RefusedMeansEnded)
BY ClientsImplementFamily, OneLineOfDescentHolds, RefusedMeansEndedHolds, PTL

=============================================================================
