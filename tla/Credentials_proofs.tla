------------------------- MODULE Credentials_proofs -------------------------
(***************************************************************************)
(* Theorems about Credentials, for any number of requests, sessions, links *)
(* and credentials.                                                        *)
(***************************************************************************)
EXTENDS Credentials, TLAPS

USE CredentialsAssumption

LEMMA InitInv == Init => CredentialsInv
<1> SUFFICES ASSUME Init PROVE CredentialsInv
  OBVIOUS
<1>1. NoCall \in CallRecords /\ NoSession \in SessionRecords
  BY DEF NoCall, CallRecords, Kinds, Ways, People, NoSession, SessionRecords
<1>2. TypeOK
  <2>1. /\ made \in Numbers /\ secret \in 0..made /\ handover \in 0..made /\ passkeys \subseteq 1..made
        /\ resets \in Nat
    BY DEF Init, Numbers
  <2>2. /\ chose \in [Numbers -> People]
        /\ links \in [Links -> [at : {"none", "live", "used"}, handover : BOOLEAN]]
    BY DEF Init, People
  <2>3. sessions \in [Sessions -> SessionRecords] /\ calls \in [Calls -> CallRecords]
    BY <1>1 DEF Init
  <2> QED
    BY <2>1, <2>2, <2>3 DEF Init, TypeOK
<1>3. Live = {} /\ \A c \in Calls : calls[c].at = "idle"
  BY DEF Init, Live, NoSession, NoCall
<1>4. \A c \in Calls : CallSound(calls[c])
  BY <1>3 DEF CallSound
<1>5. IntruderLate /\ NobodyElse
  BY <1>3 DEF Init, IntruderLate, NobodyElse, Numbers
<1>6. NothingOutlivesReset /\ CurrentPassword /\ LockedOut /\ NothingPrivateHandedOver
  BY <1>3 DEF Init, NothingOutlivesReset, CurrentPassword, LockedOut, NothingPrivateHandedOver
<1>7. \A s \in before : sessions[s].at = "ended"
  BY DEF Init
<1> QED
  BY <1>2, <1>4, <1>5, <1>6, <1>7 DEF CredentialsInv

\* A step that changes one call and nothing else.
LEMMA CallOnly ==
  ASSUME CredentialsInv, NEW c \in Calls, NEW r \in CallRecords, CallSound(r),
         calls' = [calls EXCEPT ![c] = r],
         UNCHANGED <<account, links, sessions, suspended, private, history>>
  PROVE  CredentialsInv'
<1> USE DEF CredentialsInv, account, history
<1>1. TypeOK'
  BY DEF TypeOK
<1>2. Live' = Live
  BY DEF Live
<1>3. \A call : CallSound(call)' <=> CallSound(call)
  BY <1>2 DEF CallSound, Honest, HandedFirst, HoldsSoundly, ProofHolds, Knows
<1>4. ASSUME NEW d \in Calls PROVE CallSound(calls[d])'
  <2>1. calls'[d] = r \/ calls'[d] = calls[d]
    BY DEF TypeOK
  <2> QED
    BY <1>2, <2>1 DEF CallSound, Honest, HandedFirst, HoldsSoundly, ProofHolds, Knows
<1> QED
  BY <1>1, <1>2, <1>4
  DEF IntruderLate, NothingOutlivesReset, CurrentPassword, LockedOut, NobodyElse,
      NothingPrivateHandedOver

LEMMA BeginType ==
  ASSUME TypeOK, NEW c \in Calls, NEW kind \in Kinds, NEW who \in People,
         NEW of \in Numbers \union Sessions \union Links \union {0},
         Begin(c, kind, who, of)
  PROVE  LET r == [at |-> "asked", kind |-> kind, by |-> who, of |-> of, resets |-> resets]
         IN r \in CallRecords /\ calls' = [calls EXCEPT ![c] = r]
BY DEF Begin, CallRecords, TypeOK

LEMMA EndType ==
  /\ NoCall \in CallRecords
  /\ CallSound(NoCall)
BY DEF NoCall, CallRecords, CallSound, Kinds, Ways, People

\* A request comes in.
LEMMA BeginKeeps ==
  ASSUME CredentialsInv, NEW c \in Calls,
         \/ ProvePassword(c) \/ ProvePasskey(c) \/ Forgot(c)
         \/ \E s \in Sessions : Ask(c, s)
         \/ \E l \in Links : ReadLink(c, l)
  PROVE  CredentialsInv'
<1>1. CASE ProvePassword(c)
  <2>1. PICK who \in People : Knows(who, secret) /\ Begin(c, "password", who, secret)
    BY <1>1 DEF ProvePassword
  <2> DEFINE r == [at |-> "asked", kind |-> "password", by |-> who, of |-> secret, resets |-> resets]
  <2>2. r \in CallRecords /\ calls' = [calls EXCEPT ![c] = r]
    BY <2>1, BeginType DEF CredentialsInv, TypeOK, Kinds, Ways, Numbers
  <2>3. secret \in 1..made
    BY <2>1 DEF Knows, CredentialsInv, TypeOK, Numbers
  <2>4. CallSound(r)
    BY <2>1, <2>3 DEF CallSound, Honest, HandedFirst, Knows, CredentialsInv, IntruderLate
  <2> HIDE DEF r
  <2> QED
    BY <1>1, <2>2, <2>4, CallOnly DEF ProvePassword
<1>2. CASE ProvePasskey(c)
  <2>1. PICK k \in passkeys : Begin(c, "passkey", chose[k], k)
    BY <1>2 DEF ProvePasskey
  <2> DEFINE r == [at |-> "asked", kind |-> "passkey", by |-> chose[k], of |-> k, resets |-> resets]
  <2>2. k \in 1..made /\ k \in Numbers /\ chose[k] \in People
    BY DEF CredentialsInv, TypeOK, Numbers
  <2>3. r \in CallRecords /\ calls' = [calls EXCEPT ![c] = r]
    BY <2>1, <2>2, BeginType DEF CredentialsInv, Kinds, Ways
  <2>4. CallSound(r)
    BY <2>1, <2>2 DEF CallSound, Honest, HandedFirst, CredentialsInv, IntruderLate
  <2> HIDE DEF r
  <2> QED
    BY <1>2, <2>3, <2>4, CallOnly DEF ProvePasskey
<1>3. CASE Forgot(c)
  <2> DEFINE r == [at |-> "asked", kind |-> "issue", by |-> "person", of |-> 0, resets |-> resets]
  <2>1. r \in CallRecords /\ calls' = [calls EXCEPT ![c] = r]
    BY <1>3, BeginType DEF Forgot, CredentialsInv, Kinds, People
  <2>2. CallSound(r)
    BY DEF CallSound, Honest, HandedFirst
  <2> HIDE DEF r
  <2> QED
    BY <1>3, <2>1, <2>2, CallOnly DEF Forgot
<1>4. ASSUME NEW s \in Sessions, Ask(c, s) PROVE CredentialsInv'
  <2>1. PICK kind \in {"change", "add", "keep"} : Begin(c, kind, sessions[s].by, s)
    BY <1>4 DEF Ask
  <2> DEFINE r == [at |-> "asked", kind |-> kind, by |-> sessions[s].by, of |-> s, resets |-> resets]
  <2>2. s \in Live /\ sessions[s].by \in People /\ sessions[s].at = "live"
    BY <1>4 DEF Ask, CredentialsInv, TypeOK, SessionRecords, Live
  <2>3. r \in CallRecords /\ calls' = [calls EXCEPT ![c] = r]
    BY <2>1, <2>2, BeginType DEF CredentialsInv, Kinds
  <2>4. CallSound(r)
    BY <2>2 DEF CallSound, Honest, HandedFirst, CredentialsInv, IntruderLate
  <2> HIDE DEF r
  <2> QED
    BY <1>4, <2>3, <2>4, CallOnly DEF Ask
<1>5. ASSUME NEW l \in Links, ReadLink(c, l) PROVE CredentialsInv'
  <2>1. PICK who \in People : (who = "person" \/ links[l].handover) /\ Begin(c, "reset", who, l)
    BY <1>5 DEF ReadLink
  <2> DEFINE r == [at |-> "asked", kind |-> "reset", by |-> who, of |-> l, resets |-> resets]
  <2>2. r \in CallRecords /\ calls' = [calls EXCEPT ![c] = r]
    BY <2>1, BeginType DEF CredentialsInv, Kinds
  <2>3. CallSound(r)
    BY <1>5, <2>1 DEF ReadLink, CallSound, Honest, HandedFirst
  <2> HIDE DEF r
  <2> QED
    BY <1>5, <2>2, <2>3, CallOnly DEF ReadLink
<1> QED
  BY <1>1, <1>2, <1>3, <1>4, <1>5

\* A request is admitted, or turned away.
LEMMA HoldKeeps ==
  ASSUME CredentialsInv, NEW c \in Calls, HoldToOpen(c) \/ HoldToAdd(c) \/ GiveUp(c)
  PROVE  CredentialsInv'
<1> DEFINE r == [calls[c] EXCEPT !.at = "holding"]
<1>1. UNCHANGED <<account, links, sessions, suspended, private, history>>
  BY DEF HoldToOpen, HoldToAdd, GiveUp
<1>2. CASE calls' = [calls EXCEPT ![c] = NoCall]
  BY <1>1, <1>2, EndType, CallOnly
<1>3. CASE /\ calls' = [calls EXCEPT ![c].at = "holding"]
           /\ \/ HoldToOpen(c) /\ ProofHolds(calls[c]) /\ NotLocked
              \/ HoldToAdd(c) /\ StillSignedIn(calls[c].of)
  <2>1. calls[c] \in CallRecords /\ calls[c].at = "asked" /\ CallSound(calls[c])
    BY <1>3 DEF HoldToOpen, HoldToAdd, CredentialsInv, TypeOK
  <2>2. /\ r \in CallRecords /\ r.at = "holding"
        /\ r.kind = calls[c].kind /\ r.by = calls[c].by
        /\ r.of = calls[c].of /\ r.resets = calls[c].resets
        /\ calls' = [calls EXCEPT ![c] = r]
    BY <1>3, <2>1 DEF CallRecords
  <2> HIDE DEF r
  <2>3. Honest(r) /\ HandedFirst(r)
    BY <2>1, <2>2 DEF CallSound, Honest, HandedFirst
  <2>4. HoldsSoundly(r)
    <3>1. CASE HoldToOpen(c) /\ ProofHolds(calls[c]) /\ NotLocked
      <4>1. r.kind \in Ways /\ ProofHolds(r) /\ ~suspended
        BY <2>2, <3>1 DEF HoldToOpen, ProofHolds, NotLocked
      <4>2. own => r.by = "person"
        BY <2>2, <2>3, <4>1
        DEF Honest, ProofHolds, Ways, Knows, CredentialsInv, NobodyElse, CallRecords, People
      <4> QED
        BY <4>1, <4>2 DEF HoldsSoundly, Ways
    <3>2. CASE HoldToAdd(c) /\ StillSignedIn(calls[c].of)
      <4>1. r.kind \in {"add", "keep"} /\ r.of \in Live
        BY <2>2, <3>2 DEF HoldToAdd, StillSignedIn
      <4>2. own => r.by = "person"
        BY <2>3, <4>1 DEF Honest, CredentialsInv, NobodyElse
      <4>3. r.of \notin before
        BY <4>1 DEF CredentialsInv, Live
      <4> QED
        BY <4>1, <4>2, <4>3 DEF HoldsSoundly, Ways
    <3> QED
      BY <1>3, <3>1, <3>2
  <2> QED
    BY <1>1, <2>2, <2>3, <2>4, CallOnly DEF CallSound
<1> QED
  BY <1>2, <1>3 DEF HoldToOpen, HoldToAdd, GiveUp, End

\* What is left of the calls when one has ended.
LEMMA OtherCalls ==
  ASSUME TypeOK, NEW c \in Calls, End(c)
  PROVE  /\ calls' \in [Calls -> CallRecords]
         /\ \A d \in Calls : d # c => calls'[d] = calls[d]
         /\ calls'[c].at = "idle"
BY EndType DEF TypeOK, End, NoCall

-----------------------------------------------------------------------------
(* What a request does.                                                    *)

LEMMA OpenSessionKeeps ==
  ASSUME CredentialsInv, NEW c \in Calls, NEW s \in Sessions, OpenSession(c, s)
  PROVE  CredentialsInv'
<1> DEFINE r == [at |-> "live", by |-> calls[c].by, way |-> calls[c].kind, of |-> calls[c].of,
                 resets |-> calls[c].resets]
<1>1. /\ sessions' = [sessions EXCEPT ![s] = r]
      /\ sessions[s].at = "none"
      /\ UNCHANGED <<secret, passkeys, made, chose, handover, links, suspended, private,
                     resets, before, own>>
  BY DEF OpenSession, account, history
<1>2. /\ calls[c].at = "holding" /\ calls[c].kind \in Ways /\ calls[c] \in CallRecords
      /\ Honest(calls[c]) /\ HandedFirst(calls[c]) /\ HoldsSoundly(calls[c])
  BY DEF OpenSession, CredentialsInv, TypeOK, CallSound
<1>3. /\ calls[c].of \in 1..made /\ calls[c].resets = resets
      /\ calls[c].kind = "password" => calls[c].of = secret
      /\ own => calls[c].by = "person"
      /\ calls[c].by = "intruder" => handover # 0
      /\ ~suspended
  BY <1>2 DEF Honest, HoldsSoundly, HandedFirst, ProofHolds, Ways
<1>4. r \in SessionRecords
  BY <1>2, <1>3 DEF SessionRecords, CallRecords, CredentialsInv, TypeOK, Numbers
<1>5. /\ r.at = "live" /\ r.by = calls[c].by /\ r.way = calls[c].kind /\ r.of = calls[c].of
      /\ r.resets = calls[c].resets
  OBVIOUS
<1> HIDE DEF r
<1>6. /\ sessions'[s] = r /\ \A t \in Sessions : t # s => sessions'[t] = sessions[t]
      /\ sessions' \in [Sessions -> SessionRecords]
  BY <1>1, <1>4 DEF CredentialsInv, TypeOK
<1>7. Live' = Live \union {s} /\ s \notin Live
  BY <1>1, <1>5, <1>6 DEF Live
<1>8. TypeOK'
  BY <1>1, <1>6, OtherCalls DEF OpenSession, CredentialsInv, TypeOK
<1>9. ASSUME NEW d \in Calls PROVE CallSound(calls[d])'
  <2>1. CASE d = c
    BY <2>1, OtherCalls DEF OpenSession, CredentialsInv, CallSound
  <2>2. CASE d # c
    <3>1. calls'[d] = calls[d] /\ CallSound(calls[d])
      BY <2>2, OtherCalls DEF OpenSession, CredentialsInv
    <3> QED
      BY <1>1, <1>6, <1>7, <3>1 DEF CallSound, Honest, HandedFirst, HoldsSoundly, ProofHolds, Knows
  <2> QED
    BY <2>1, <2>2
<1>10. \A t \in before' : sessions'[t].at = "ended"
  BY <1>1, <1>6 DEF CredentialsInv, TypeOK
<1>11. IntruderLate' /\ NobodyElse' /\ NothingPrivateHandedOver'
  BY <1>1, <1>3, <1>5, <1>6, <1>7
  DEF CredentialsInv, IntruderLate, NobodyElse, NothingPrivateHandedOver, Live
<1>12. NothingOutlivesReset' /\ CurrentPassword' /\ LockedOut'
  BY <1>1, <1>3, <1>5, <1>6, <1>7
  DEF CredentialsInv, NothingOutlivesReset, CurrentPassword, LockedOut, Live
<1> QED
  BY <1>8, <1>9, <1>10, <1>11, <1>12 DEF CredentialsInv

\* Something made from a session: the sessions and the password stay.
LEMMA AddKeeps ==
  ASSUME CredentialsInv, NEW c \in Calls, AddPasskey(c) \/ KeepPrivate(c)
  PROVE  CredentialsInv'
<1>1. /\ calls[c].at = "holding" /\ calls[c].kind \in {"add", "keep"} /\ calls[c] \in CallRecords
      /\ Honest(calls[c]) /\ HandedFirst(calls[c]) /\ HoldsSoundly(calls[c])
      /\ End(c)
  BY DEF AddPasskey, KeepPrivate, CredentialsInv, TypeOK, CallSound
<1>2. /\ UNCHANGED <<secret, handover, links, sessions, suspended, resets, before, own>>
      /\ Live' = Live
  BY DEF AddPasskey, KeepPrivate, account, history, Live
<1>3. /\ own => calls[c].by = "person"
      /\ calls[c].by = "intruder" => handover # 0
      /\ calls[c].of \in Sessions \ before
      /\ calls[c].by \in People
  BY <1>1 DEF HoldsSoundly, HandedFirst, Honest, CallRecords
<1>4. /\ made' \in Numbers /\ made \in 1..made' /\ made \in Numbers
      /\ chose' \in [Numbers -> People] /\ \A n \in 1..made : chose'[n] = chose[n]
      /\ \/ UNCHANGED <<passkeys, chose, made>> /\ private' = private \union {calls[c].of}
         \/ /\ passkeys' = passkeys \union {made + 1} /\ made' = made + 1
            /\ chose'[made + 1] = calls[c].by /\ private' = private
  BY <1>3 DEF AddPasskey, KeepPrivate, Make, account, CredentialsInv, TypeOK, Numbers
<1>5. TypeOK'
  <2>1. passkeys' \subseteq 1..made' /\ 0..made \subseteq 0..made'
    <3>1. CASE UNCHANGED <<passkeys, made>>
      BY <3>1 DEF CredentialsInv, TypeOK
    <3>2. CASE passkeys' = passkeys \union {made + 1} /\ made' = made + 1
      BY <3>2 DEF CredentialsInv, TypeOK, Numbers
    <3> QED
      BY <1>4, <3>1, <3>2
  <2>3. private' \subseteq Sessions /\ secret' \in 0..made' /\ handover' \in 0..made'
    BY <1>2, <1>3, <1>4, <2>1 DEF CredentialsInv, TypeOK
  <2>2. calls' \in [Calls -> CallRecords]
    BY <1>1, OtherCalls DEF CredentialsInv
  <2> QED
    BY <1>2, <1>4, <2>1, <2>2, <2>3 DEF CredentialsInv, TypeOK
<1>6. ASSUME NEW d \in Calls PROVE CallSound(calls[d])'
  <2>1. CASE d = c
    BY <1>1, <2>1, OtherCalls DEF CredentialsInv, CallSound
  <2>2. CASE d # c
    <3>1. calls'[d] = calls[d] /\ CallSound(calls[d]) /\ 1..made \subseteq 1..made'
      BY <1>1, <1>4, <2>2, OtherCalls DEF CredentialsInv, Numbers
    <3>2. calls[d].of \in 1..made => (calls[d].of \in passkeys' => calls[d].of \in passkeys)
      BY <1>4 DEF Numbers
    <3>3. ProofHolds(calls[d]) => ProofHolds(calls[d])'
      BY <1>2, <1>4, <3>1 DEF ProofHolds
    <3> QED
      BY <1>2, <1>4, <3>1, <3>2, <3>3 DEF CallSound, Honest, HandedFirst, HoldsSoundly, Knows
  <2> QED
    BY <2>1, <2>2
<1>7. IntruderLate'
  <2>1. \A n \in 1..made' : chose'[n] = "intruder" => handover # 0
    BY <1>3, <1>4 DEF CredentialsInv, IntruderLate, Numbers
  <2>2. ASSUME NEW k \in passkeys', chose'[k] = "intruder" PROVE k > handover
    <3>1. CASE k \in passkeys
      BY <1>4, <2>2, <3>1 DEF CredentialsInv, IntruderLate, TypeOK
    <3>2. CASE k = made + 1
      BY <1>4, <3>2 DEF CredentialsInv, TypeOK, Numbers
    <3> QED
      BY <1>4, <3>1, <3>2
  <2> QED
    BY <1>2, <2>1, <2>2 DEF CredentialsInv, IntruderLate
<1>8. NobodyElse'
  <2>1. own => (secret # 0 => chose'[secret] = "person")
    BY <1>4 DEF CredentialsInv, NobodyElse, TypeOK, Numbers
  <2>2. own => \A k \in passkeys' : chose'[k] = "person"
    BY <1>3, <1>4 DEF CredentialsInv, NobodyElse, TypeOK
  <2> QED
    BY <1>2, <2>1, <2>2 DEF CredentialsInv, NobodyElse
<1>9. NothingOutlivesReset' /\ CurrentPassword' /\ LockedOut' /\ NothingPrivateHandedOver'
  BY <1>2, <1>3, <1>4
  DEF CredentialsInv, NothingOutlivesReset, CurrentPassword, LockedOut, NothingPrivateHandedOver
<1> QED
  BY <1>2, <1>5, <1>6, <1>7, <1>8, <1>9 DEF CredentialsInv

-----------------------------------------------------------------------------
(* What the other steps keep.                                              *)

LEMMA EndedFacts ==
  ASSUME TypeOK, NEW S \in SUBSET Sessions
  PROVE  /\ Ended(S) \in [Sessions -> SessionRecords]
         /\ \A t \in Sessions : /\ sessions[t].at # "live" => Ended(S)[t] = sessions[t]
                                /\ t \notin S => Ended(S)[t] = sessions[t]
                                /\ t \in S => Ended(S)[t].at # "live"
                                /\ sessions[t].at # "none" => Ended(S)[t].at # "none"
                                /\ Ended(S)[t].at = "live" => Ended(S)[t] = sessions[t]
                                /\ t \in S /\ sessions[t].at = "live" => Ended(S)[t].at = "ended"
<1>1. [NoSession EXCEPT !.at = "ended"] \in SessionRecords
  BY DEF NoSession, SessionRecords, Ways, People
<1>2. [NoSession EXCEPT !.at = "ended"].at = "ended"
  BY DEF NoSession
<1> QED
  BY <1>1, <1>2 DEF Ended, TypeOK

\* What a request proved stays as true as it was.
LEMMA HonestKeeps ==
  ASSUME CredentialsInv, NEW d \in Calls, calls'[d] = calls[d], calls[d].at # "idle",
         \A n \in 1..made : n \in 1..made' /\ chose'[n] = chose[n],
         passkeys' \subseteq passkeys,
         secret' = secret \/ secret' \notin 1..made,
         resets' = resets \/ (passkeys' = {} /\ secret' \notin 1..made),
         handover # 0 => handover' # 0,
         \A l \in Links : links[l].at # "none" =>
           links'[l].at # "none" /\ links'[l].handover = links[l].handover,
         \A t \in Sessions : sessions[t].at # "none" => sessions'[t].at # "none",
         \A t \in Live' : t \in Live /\ sessions'[t].by = sessions[t].by
  PROVE  (Honest(calls[d]) /\ HandedFirst(calls[d]))'
<1>1. Honest(calls[d]) /\ HandedFirst(calls[d])
  BY DEF CredentialsInv, CallSound
<1>2. HandedFirst(calls[d])'
  BY <1>1 DEF HandedFirst, Honest
<1>3. ASSUME calls[d].kind = "password"
      PROVE  calls[d].of \in 1..made' /\ Knows(calls[d].by, calls[d].of)'
             /\ (secret' = calls[d].of => calls[d].resets = resets')
  BY <1>1, <1>3 DEF Honest, Knows
<1>4. ASSUME calls[d].kind = "passkey"
      PROVE  calls[d].of \in 1..made' /\ chose'[calls[d].of] = calls[d].by
             /\ (calls[d].of \in passkeys' => calls[d].resets = resets')
  BY <1>1, <1>4 DEF Honest
<1>5. ASSUME calls[d].kind \in {"change", "add", "keep"}
      PROVE  /\ calls[d].of \in Sessions
             /\ sessions'[calls[d].of].at # "none"
             /\ calls[d].of \in Live' => sessions'[calls[d].of].by = calls[d].by
  BY <1>1, <1>5 DEF Honest
<1>6. calls[d].kind = "reset" => calls[d].of \in Links /\ links'[calls[d].of].at # "none"
  BY <1>1 DEF Honest
<1> QED
  BY <1>2, <1>3, <1>4, <1>5, <1>6 DEF Honest

\* A step that makes no credential and opens no session.
LEMMA QuietKeeps ==
  ASSUME CredentialsInv,
         UNCHANGED <<passkeys, made, chose, handover, private, resets, before, own>>,
         sessions' \in [Sessions -> SessionRecords],
         \A t \in Sessions : /\ sessions'[t] = sessions[t] \/ sessions[t].at = "live"
                             /\ t \in Live' => sessions'[t] = sessions[t],
         secret' = secret \/ (secret' = 0 /\ Live' = {}),
         suspended' => Live' = {}
  PROVE  /\ IntruderLate' /\ NothingOutlivesReset' /\ CurrentPassword' /\ LockedOut'
         /\ NobodyElse' /\ NothingPrivateHandedOver'
         /\ \A s \in before' : sessions'[s].at = "ended"
<1>1. \A t \in Live' : t \in Live /\ sessions'[t] = sessions[t]
  BY DEF Live
<1>2. IntruderLate' /\ NobodyElse' /\ NothingPrivateHandedOver'
  BY <1>1 DEF CredentialsInv, IntruderLate, NobodyElse, NothingPrivateHandedOver
<1>3. NothingOutlivesReset' /\ CurrentPassword' /\ LockedOut'
  BY <1>1 DEF CredentialsInv, NothingOutlivesReset, CurrentPassword, LockedOut
<1>4. \A s \in before' : sessions'[s].at = "ended"
  BY DEF CredentialsInv, TypeOK
<1> QED
  BY <1>2, <1>3, <1>4

LEMMA RemovePasskeyKeeps ==
  ASSUME CredentialsInv, NEW k \in Numbers, RemovePasskey(k)
  PROVE  CredentialsInv'
<1>1. /\ passkeys' \subseteq passkeys /\ passkeys \ passkeys' = {k}
      /\ UNCHANGED <<secret, made, chose, handover, links, sessions, suspended, private, calls,
                     resets, before, own>>
      /\ Live' = Live
  BY DEF RemovePasskey, history, Live
<1>2. TypeOK'
  BY <1>1 DEF CredentialsInv, TypeOK
<1>3. ASSUME NEW d \in Calls PROVE CallSound(calls[d])'
  <2>1. calls'[d] = calls[d] /\ CallSound(calls[d])
    BY <1>1 DEF CredentialsInv
  <2>2. calls[d].at = "holding" /\ ProofHolds(calls[d]) => ProofHolds(calls[d])'
    BY <1>1 DEF RemovePasskey, ProofHolds
  <2> QED
    BY <1>1, <2>1, <2>2 DEF CallSound, Honest, HandedFirst, HoldsSoundly, Knows
<1> QED
  BY <1>1, <1>2, <1>3
  DEF CredentialsInv, IntruderLate, NothingOutlivesReset, CurrentPassword, LockedOut, NobodyElse,
      NothingPrivateHandedOver

\* A link is retired, or made.
LEMMA IssueKeeps ==
  ASSUME CredentialsInv, NEW c \in Calls,
         RetireLinks(c) \/ \E l \in Links : MakeLink(c, l)
  PROVE  CredentialsInv'
<1>1. /\ UNCHANGED <<secret, passkeys, made, chose, handover, sessions, suspended, private,
                     resets, before, own>>
      /\ Live' = Live
  BY DEF RetireLinks, MakeLink, account, history, Live
<1>2. /\ links' \in [Links -> [at : {"none", "live", "used"}, handover : BOOLEAN]]
      /\ \A l \in Links : links[l].at # "none" =>
           links'[l].at # "none" /\ links'[l].handover = links[l].handover
  <2>1. CASE RetireLinks(c)
    BY <2>1 DEF RetireLinks, Retired, CredentialsInv, TypeOK
  <2>2. ASSUME NEW m \in Links, MakeLink(c, m)
        PROVE  /\ links' \in [Links -> [at : {"none", "live", "used"}, handover : BOOLEAN]]
               /\ \A l \in Links : links[l].at # "none" => links'[l] = links[l]
    BY <2>2 DEF MakeLink, CredentialsInv, TypeOK
  <2> QED
    BY <2>1, <2>2
<1>3. /\ calls' \in [Calls -> CallRecords]
      /\ \A d \in Calls : d # c => calls'[d] = calls[d]
      /\ \/ calls'[c].at = "idle"
         \/ calls'[c].at = "retired" /\ calls'[c] = [calls[c] EXCEPT !.at = "retired"]
            /\ calls[c].kind = "issue" /\ calls[c].at = "asked"
  <2>1. CASE RetireLinks(c)
    <3>1. [calls[c] EXCEPT !.at = "retired"] \in CallRecords
      BY DEF CredentialsInv, TypeOK, CallRecords
    <3> QED
      BY <2>1, <3>1 DEF RetireLinks, CredentialsInv, TypeOK, CallRecords
  <2>2. CASE \E l \in Links : MakeLink(c, l)
    BY <2>2, OtherCalls DEF MakeLink, CredentialsInv
  <2> QED
    BY <2>1, <2>2
<1>4. TypeOK'
  BY <1>1, <1>2, <1>3 DEF CredentialsInv, TypeOK
<1>5. ASSUME NEW d \in Calls PROVE CallSound(calls[d])'
  <2>1. CASE d # c
    <3>1. calls'[d] = calls[d] /\ CallSound(calls[d])
      BY <1>3, <2>1 DEF CredentialsInv
    <3>2. calls[d].at # "idle" => (Honest(calls[d]) /\ HandedFirst(calls[d]))'
      BY <1>1, <1>2, <3>1, HonestKeeps
    <3> QED
      BY <1>1, <3>1, <3>2 DEF CallSound, HoldsSoundly, ProofHolds
  <2>2. CASE d = c /\ calls'[c].at = "idle"
    BY <2>2 DEF CallSound
  <2>3. CASE /\ d = c /\ calls'[c].at = "retired" /\ calls[c].kind = "issue" /\ calls[c].at = "asked"
             /\ calls'[c] = [calls[c] EXCEPT !.at = "retired"]
    <3>1. calls'[c].kind = "issue" /\ calls'[c].by = calls[c].by /\ HandedFirst(calls[c])
      BY <2>3 DEF CredentialsInv, CallSound, TypeOK, CallRecords
    <3>2. calls[c].by = "intruder" => handover # 0
      BY <2>3, <3>1 DEF HandedFirst
    <3>3. (Honest(calls[c]) /\ HandedFirst(calls[c]))'
      BY <1>1, <3>1, <3>2 DEF Honest, HandedFirst, Ways
    <3> QED
      BY <2>3, <3>3 DEF CallSound
  <2> QED
    BY <1>3, <2>1, <2>2, <2>3
<1> QED
  BY <1>1, <1>4, <1>5
  DEF CredentialsInv, IntruderLate, NothingOutlivesReset, CurrentPassword, LockedOut, NobodyElse,
      NothingPrivateHandedOver

\* Nobody holds the membership: the steps that wait for that disturb only what
\* was asked for and not yet admitted.
LEMMA NobodyHolds ==
  ASSUME CredentialsInv, MembershipFree, NEW d \in Calls, calls'[d] = calls[d],
         calls[d].at # "idle" => (Honest(calls[d]) /\ HandedFirst(calls[d]))'
  PROVE  CallSound(calls[d])'
BY DEF CallSound, MembershipFree

LEMMA OwnersKeep ==
  ASSUME CredentialsInv, Lock \/ Unlock \/ (\E l \in Links : StartReset(l)) \/ EndSessions
  PROVE  CredentialsInv'
<1>1. /\ UNCHANGED <<passkeys, made, chose, handover, private, calls, resets, before, own>>
      /\ secret' \in {0, secret} /\ suspended' \in BOOLEAN
  BY DEF Lock, Unlock, StartReset, EndSessions, account, history, CredentialsInv, TypeOK
<1>2. PICK S \in SUBSET Sessions : sessions' = Ended(S) \/ sessions' = sessions
  <2>1. CASE sessions' = Ended(Sessions) \/ UNCHANGED sessions
    BY <2>1
  <2>2. CASE EndSessions
    BY <2>2 DEF EndSessions, Live
  <2> QED
    BY <2>1, <2>2 DEF Lock, Unlock, StartReset
<1>3. /\ sessions' \in [Sessions -> SessionRecords]
      /\ \A t \in Sessions : /\ sessions'[t] = sessions[t] \/ sessions[t].at = "live"
                             /\ sessions[t].at # "none" => sessions'[t].at # "none"
                             /\ sessions'[t].at = "live" => sessions'[t] = sessions[t]
  BY <1>2, EndedFacts DEF CredentialsInv, TypeOK
<1>4. \A t \in Live' : t \in Live /\ sessions'[t] = sessions[t]
  BY <1>3 DEF Live
<1>5. sessions' = Ended(Sessions) => Live' = {}
  BY EndedFacts DEF CredentialsInv, Live
<1>6. /\ secret' = secret \/ (secret' = 0 /\ Live' = {})
      /\ suspended' => Live' = {}
  <2>1. suspended => Live' = {}
    BY <1>4 DEF CredentialsInv, LockedOut
  <2> QED
    BY <1>5, <2>1 DEF Lock, Unlock, StartReset, EndSessions, account
<1>7. /\ links' \in [Links -> [at : {"none", "live", "used"}, handover : BOOLEAN]]
      /\ \A l \in Links : links[l].at # "none" =>
           links'[l].at # "none" /\ links'[l].handover = links[l].handover
  <2>1. CASE UNCHANGED links
    BY <2>1 DEF CredentialsInv, TypeOK
  <2>2. CASE Lock
    BY <2>2 DEF Lock, Retired, CredentialsInv, TypeOK
  <2>3. ASSUME NEW m \in Links, StartReset(m)
        PROVE  /\ links' \in [Links -> [at : {"none", "live", "used"}, handover : BOOLEAN]]
               /\ \A l \in Links : links[l].at # "none" =>
                    links'[l].at # "none" /\ links'[l].handover = links[l].handover
    <3>1. /\ Retired \in [Links -> [at : {"none", "live", "used"}, handover : BOOLEAN]]
          /\ \A l \in Links : links[l].at # "none" =>
               Retired[l].at # "none" /\ Retired[l].handover = links[l].handover
      BY DEF Retired, CredentialsInv, TypeOK
    <3>2. /\ links' = [Retired EXCEPT ![m] = [at |-> "live", handover |-> ~OperatorMail]]
          /\ links[m].at = "none"
      BY <2>3 DEF StartReset
    <3> QED
      BY <3>1, <3>2
  <2> QED
    BY <2>1, <2>2, <2>3 DEF Unlock, EndSessions
<1>8. TypeOK'
  <2>1. secret' \in 0..made
    BY <1>1 DEF CredentialsInv, TypeOK, Numbers
  <2> QED
    BY <1>1, <1>3, <1>7, <2>1 DEF CredentialsInv, TypeOK
<1>9. ASSUME NEW d \in Calls PROVE CallSound(calls[d])'
  <2>1. calls'[d] = calls[d] /\ CallSound(calls[d])
    BY <1>1 DEF CredentialsInv
  <2>2. calls[d].at # "idle" => (Honest(calls[d]) /\ HandedFirst(calls[d]))'
    <3>1. secret' = secret \/ secret' \notin 1..made
      BY <1>1
    <3>2. \A n \in 1..made : n \in 1..made' /\ chose'[n] = chose[n]
      BY <1>1
    <3> QED
      BY <1>1, <1>3, <1>4, <1>7, <2>1, <3>1, <3>2, HonestKeeps
  <2>3. CASE MembershipFree
    BY <2>1, <2>2, <2>3, NobodyHolds
  <2>4. CASE EndSessions
    BY <1>1, <2>1, <2>2, <2>4 DEF EndSessions, account, CallSound, HoldsSoundly, ProofHolds
  <2> QED
    BY <2>3, <2>4 DEF Lock, Unlock, StartReset
<1> QED
  BY <1>1, <1>3, <1>4, <1>6, <1>8, <1>9, QuietKeeps DEF CredentialsInv

\* A change of the password: the others' sessions end, and what a handed link
\* added goes.
LEMMA ChangeKeeps ==
  ASSUME CredentialsInv, NEW c \in Calls, Change(c)
  PROVE  CredentialsInv'
<1> DEFINE s == calls[c].of
<1>1. CASE ~StillSignedIn(s)
  BY <1>1, EndType, CallOnly DEF Change, End, account, history
<1>2. CASE StillSignedIn(s)
  <2>1. /\ calls[c].at = "asked" /\ calls[c].kind = "change" /\ calls[c] \in CallRecords
        /\ Honest(calls[c]) /\ HandedFirst(calls[c]) /\ MembershipFree /\ End(c)
    BY DEF Change, CredentialsInv, TypeOK, CallSound
  <2>2. /\ s \in Sessions /\ s \in Live /\ sessions[s] \in SessionRecords
        /\ sessions[s].at = "live" /\ sessions[s].by = calls[c].by
        /\ calls[c].by = "intruder" => handover # 0
        /\ calls[c].by \in People
    BY <1>2, <2>1 DEF StillSignedIn, Honest, HandedFirst, Live, CallRecords, CredentialsInv, TypeOK
  <2>3. /\ made' = made + 1 /\ made' \in Numbers /\ made \in Nat /\ secret' = made'
        /\ chose' = [chose EXCEPT ![made'] = calls[c].by]
        /\ passkeys' = passkeys \ AddedSince
        /\ own' = (own \/ calls[c].by = "person")
        /\ UNCHANGED <<handover, links, suspended, private, resets, before>>
    BY <1>2 DEF Change, Make, CredentialsInv, TypeOK, Numbers
  <2>4. \A n \in 1..made : n \in 1..made' /\ n \in Numbers /\ chose'[n] = chose[n] /\ n # made'
    BY <2>3 DEF CredentialsInv, TypeOK, Numbers
  <2>5. chose' \in [Numbers -> People] /\ chose'[made'] = calls[c].by
    BY <2>2, <2>3 DEF CredentialsInv, TypeOK
  <2> DEFINE E == Ended(Sessions \ {s})
             r == [sessions[s] EXCEPT !.of = IF sessions[s].way = "password" THEN made' ELSE @]
  <2>6. /\ E \in [Sessions -> SessionRecords] /\ E[s] = sessions[s]
        /\ \A t \in Sessions : t # s => /\ E[t].at # "live"
                                        /\ sessions[t].at # "live" => E[t] = sessions[t]
                                        /\ sessions[t].at # "none" => E[t].at # "none"
    BY <2>2, EndedFacts DEF CredentialsInv
  <2>7. sessions' = [E EXCEPT ![s].of = IF sessions[s].way = "password" THEN made' ELSE @]
    BY <1>2, <2>3 DEF Change
  <2>8. /\ r \in SessionRecords /\ r.at = "live" /\ r.by = sessions[s].by /\ r.way = sessions[s].way
        /\ r.resets = sessions[s].resets
        /\ sessions[s].way = "password" => r.of = made'
    BY <2>2, <2>3 DEF SessionRecords
  <2>9. sessions' = [E EXCEPT ![s] = r]
    BY <2>2, <2>6, <2>7
  <2> HIDE DEF E, r, s
  <2>10. /\ sessions' \in [Sessions -> SessionRecords] /\ sessions'[s] = r
         /\ \A t \in Sessions : t # s => sessions'[t] = E[t]
    BY <2>2, <2>6, <2>8, <2>9
  <2>11. Live' = {s}
    BY <2>2, <2>6, <2>8, <2>10 DEF Live
  <2>12. passkeys' \subseteq 1..made' /\ secret' \in 0..made' /\ handover' \in 0..made'
    <3>1. secret' \in 0..made' /\ 0..made \subseteq 0..made'
      BY <2>3
    <3> QED
      BY <2>3, <2>4, <3>1 DEF CredentialsInv, TypeOK
  <2>13. TypeOK'
    BY <2>1, <2>2, <2>3, <2>5, <2>10, <2>12, OtherCalls DEF CredentialsInv, TypeOK
  <2>14. ASSUME NEW d \in Calls PROVE CallSound(calls[d])'
    <3>1. CASE d = c
      BY <2>1, <3>1, OtherCalls DEF CredentialsInv, CallSound
    <3>2. CASE d # c
      <4>1. calls'[d] = calls[d]
        BY <2>1, <3>2, OtherCalls DEF CredentialsInv
      <4>2. \A t \in Sessions : sessions[t].at # "none" => sessions'[t].at # "none"
        BY <2>2, <2>6, <2>8, <2>10
      <4>3. \A t \in Live' : t \in Live /\ sessions'[t].by = sessions[t].by
        BY <2>2, <2>8, <2>10, <2>11
      <4>4. secret' \notin 1..made
        BY <2>3
      <4>5. calls[d].at # "idle" => (Honest(calls[d]) /\ HandedFirst(calls[d]))'
        BY <2>3, <2>4, <4>1, <4>2, <4>3, <4>4, HonestKeeps
      <4> QED
        BY <2>1, <4>1, <4>5, NobodyHolds
    <3> QED
      BY <3>1, <3>2
  <2>15. IntruderLate'
    <3>1. \A n \in 1..made' : n \in 1..made \/ n = made'
      BY <2>3
    <3>2. \A n \in 1..made' : chose'[n] = "intruder" => handover # 0
      BY <2>2, <2>4, <2>5, <3>1 DEF CredentialsInv, IntruderLate
    <3>3. \A k \in passkeys' : chose'[k] = "intruder" => k > handover
      BY <2>3, <2>4 DEF CredentialsInv, IntruderLate, TypeOK
    <3> QED
      BY <2>2, <2>3, <2>8, <2>10, <2>11, <3>2, <3>3 DEF IntruderLate
  <2>16. \A t \in before' : sessions'[t].at = "ended"
    BY <2>2, <2>3, <2>6, <2>10 DEF CredentialsInv, TypeOK
  <2>17. NothingOutlivesReset' /\ CurrentPassword' /\ LockedOut' /\ NothingPrivateHandedOver'
    <3>1. NothingOutlivesReset'
      BY <2>2, <2>3, <2>8, <2>10, <2>11 DEF CredentialsInv, NothingOutlivesReset
    <3>2. CurrentPassword'
      BY <2>3, <2>8, <2>10, <2>11 DEF CurrentPassword
    <3>3. LockedOut' /\ NothingPrivateHandedOver'
      BY <2>2, <2>3 DEF CredentialsInv, LockedOut, NothingPrivateHandedOver
    <3> QED
      BY <3>1, <3>2, <3>3
  <2>18. NobodyElse'
    <3> SUFFICES ASSUME own'
                 PROVE  /\ chose'[made'] = "person"
                        /\ \A k \in passkeys' : chose'[k] = "person"
                        /\ \A t \in Live' : sessions'[t].by = "person"
      BY <2>3 DEF NobodyElse
    <3>1. calls[c].by = "person"
      BY <2>2, <2>3 DEF CredentialsInv, NobodyElse
    <3>2. ASSUME NEW k \in passkeys' PROVE chose'[k] = "person"
      <4>1. k \in passkeys /\ k \in 1..made /\ (handover # 0 => ~(k > handover))
        BY <2>3 DEF AddedSince, CredentialsInv, TypeOK
      <4>2. chose[k] # "intruder"
        BY <4>1 DEF CredentialsInv, IntruderLate
      <4> QED
        BY <2>4, <4>1, <4>2 DEF CredentialsInv, TypeOK, People
    <3> QED
      BY <2>2, <2>5, <2>8, <2>10, <2>11, <3>1, <3>2
  <2> QED
    BY <2>13, <2>14, <2>15, <2>16, <2>17, <2>18 DEF CredentialsInv
<1> QED
  BY <1>1, <1>2

\* A link is spent.
LEMMA ResetKeeps ==
  ASSUME CredentialsInv, NEW c \in Calls, Reset(c)
  PROVE  CredentialsInv'
<1> DEFINE l == calls[c].of
<1>1. /\ calls[c].at = "asked" /\ calls[c].kind = "reset" /\ calls[c] \in CallRecords
      /\ Honest(calls[c]) /\ HandedFirst(calls[c]) /\ MembershipFree /\ End(c)
      /\ UNCHANGED <<suspended, private>>
  BY DEF Reset, CredentialsInv, TypeOK, CallSound
<1>2. /\ l \in Links /\ calls[c].by \in People
      /\ calls[c].by = "intruder" => handover # 0 \/ links[l].handover
  BY <1>1 DEF Honest, HandedFirst, CallRecords
<1>3. links' = IF Claimed(l) THEN [links EXCEPT ![l].at = "used"] ELSE links
  BY DEF Reset
<1> HIDE DEF l
<1>4. /\ links' \in [Links -> [at : {"none", "live", "used"}, handover : BOOLEAN]]
      /\ \A m \in Links : links[m].at # "none" =>
           links'[m].at # "none" /\ links'[m].handover = links[m].handover
  BY <1>2, <1>3 DEF CredentialsInv, TypeOK
<1>5. CASE UNCHANGED <<account, sessions, history>>
  <2>1. UNCHANGED <<secret, passkeys, made, chose, handover, resets, before, own, Live>>
    BY <1>5 DEF account, history, Live
  <2>2. TypeOK'
    BY <1>1, <1>4, <1>5, <2>1, OtherCalls DEF CredentialsInv, TypeOK
  <2>3. ASSUME NEW d \in Calls PROVE CallSound(calls[d])'
    <3>1. CASE d = c
      BY <1>1, <3>1, OtherCalls DEF CredentialsInv, CallSound
    <3>2. CASE d # c
      <4>1. calls'[d] = calls[d]
        BY <1>1, <3>2, OtherCalls DEF CredentialsInv
      <4>2. calls[d].at # "idle" => (Honest(calls[d]) /\ HandedFirst(calls[d]))'
        BY <1>4, <1>5, <2>1, <4>1, HonestKeeps
      <4> QED
        BY <1>1, <4>1, <4>2, NobodyHolds
    <3> QED
      BY <3>1, <3>2
  <2> QED
    BY <1>1, <1>5, <2>1, <2>2, <2>3
    DEF CredentialsInv, IntruderLate, NothingOutlivesReset, CurrentPassword, LockedOut, NobodyElse,
        NothingPrivateHandedOver
<1>6. CASE /\ ~(links[l].handover /\ private # {})
           /\ made' = made + 1 /\ made' \in Numbers /\ secret' = made'
           /\ chose' = [chose EXCEPT ![made'] = calls[c].by]
           /\ passkeys' = {} /\ sessions' = Ended(Sessions) /\ resets' = resets + 1
           /\ handover' = IF links[l].handover THEN made' ELSE handover
           /\ before' = IF links[l].handover THEN {s \in Sessions : sessions[s].at # "none"} ELSE before
           /\ own' = (calls[c].by = "person")
  <2>1. \A n \in 1..made : n \in 1..made' /\ n \in Numbers /\ chose'[n] = chose[n] /\ n # made'
    BY <1>6 DEF CredentialsInv, TypeOK, Numbers
  <2>2. chose' \in [Numbers -> People] /\ chose'[made'] = calls[c].by
    BY <1>2, <1>6 DEF CredentialsInv, TypeOK
  <2>3. /\ sessions' \in [Sessions -> SessionRecords]
        /\ \A t \in Sessions : /\ sessions'[t].at # "live"
                               /\ sessions[t].at # "live" => sessions'[t] = sessions[t]
                               /\ sessions[t].at = "live" => sessions'[t].at = "ended"
                               /\ sessions[t].at # "none" => sessions'[t].at # "none"
    BY <1>6, EndedFacts DEF CredentialsInv
  <2>4. Live' = {}
    BY <2>3 DEF Live
  <2>5. /\ secret' \in 0..made' /\ handover' \in 0..made' /\ passkeys' \subseteq 1..made'
        /\ resets' \in Nat /\ own' \in BOOLEAN /\ before' \subseteq Sessions
        /\ handover # 0 \/ links[l].handover => handover' # 0
    <3>1. made \in Nat /\ 0..made \subseteq 0..made' /\ made' \in 0..made' /\ made' # 0
      BY <1>6 DEF CredentialsInv, TypeOK, Numbers
    <3>2. handover \in 0..made /\ resets \in Nat /\ before \subseteq Sessions
      BY DEF CredentialsInv, TypeOK
    <3> QED
      BY <1>6, <3>1, <3>2
  <2>6. TypeOK'
    BY <1>1, <1>4, <1>6, <2>2, <2>3, <2>5, OtherCalls DEF CredentialsInv, TypeOK
  <2>7. ASSUME NEW d \in Calls PROVE CallSound(calls[d])'
    <3>1. CASE d = c
      BY <1>1, <3>1, OtherCalls DEF CredentialsInv, CallSound
    <3>2. CASE d # c
      <4>1. calls'[d] = calls[d]
        BY <1>1, <3>2, OtherCalls DEF CredentialsInv
      <4>2. secret' \notin 1..made /\ passkeys' \subseteq passkeys
        BY <1>6 DEF CredentialsInv, TypeOK, Numbers
      <4>3. calls[d].at # "idle" => (Honest(calls[d]) /\ HandedFirst(calls[d]))'
        BY <1>4, <1>6, <2>1, <2>3, <2>4, <2>5, <4>1, <4>2, HonestKeeps
      <4> QED
        BY <1>1, <4>1, <4>3, NobodyHolds
    <3> QED
      BY <3>1, <3>2
  <2>8. IntruderLate'
    <3>1. \A n \in 1..made' : n \in 1..made \/ n = made'
      BY <1>6 DEF CredentialsInv, TypeOK, Numbers
    <3>2. \A n \in 1..made' : chose'[n] = "intruder" => handover' # 0
      BY <1>2, <2>1, <2>2, <2>5, <3>1 DEF CredentialsInv, IntruderLate
    <3> QED
      BY <1>6, <2>4, <3>2 DEF IntruderLate
  <2>9. \A t \in before' : sessions'[t].at = "ended"
    <3>1. \A t \in Sessions : sessions[t].at # "none" => sessions'[t].at = "ended"
      BY <2>3 DEF CredentialsInv, TypeOK, SessionRecords
    <3>2. \A t \in before : t \in Sessions /\ sessions[t].at = "ended"
      BY DEF CredentialsInv, TypeOK
    <3> QED
      BY <1>6, <3>1, <3>2
  <2>10. NothingOutlivesReset' /\ CurrentPassword' /\ LockedOut' /\ NobodyElse'
    BY <1>6, <2>2, <2>4 DEF NothingOutlivesReset, CurrentPassword, LockedOut, NobodyElse
  <2>11. NothingPrivateHandedOver'
    BY <1>1, <1>6 DEF CredentialsInv, NothingPrivateHandedOver
  <2> QED
    BY <2>6, <2>7, <2>8, <2>9, <2>10, <2>11 DEF CredentialsInv
<1>7. Claimed(l) /\ ~(links[l].handover /\ private # {}) =>
        /\ Make(made + 1, calls[c].by) /\ secret' = made + 1 /\ passkeys' = {}
        /\ handover' = IF links[l].handover THEN made + 1 ELSE handover
        /\ sessions' = Ended(Sessions) /\ resets' = resets + 1
        /\ before' = IF links[l].handover THEN {s \in Sessions : sessions[s].at # "none"} ELSE before
        /\ own' = (calls[c].by = "person")
  BY DEF Reset, l
<1>8. ~(Claimed(l) /\ ~(links[l].handover /\ private # {})) => UNCHANGED <<account, sessions, history>>
  BY DEF Reset, l
<1>9. Make(made + 1, calls[c].by) => /\ made' = made + 1 /\ made' \in Numbers
                                     /\ chose' = [chose EXCEPT ![made'] = calls[c].by]
  BY DEF Make, CredentialsInv, TypeOK, Numbers
<1> QED
  BY <1>5, <1>6, <1>7, <1>8, <1>9

-----------------------------------------------------------------------------
LEMMA NextKeeps == CredentialsInv /\ [Next]_vars => CredentialsInv'
<1> SUFFICES ASSUME CredentialsInv, [Next]_vars PROVE CredentialsInv'
  OBVIOUS
<1>1. ASSUME NEW c \in Calls, CallStep(c) PROVE CredentialsInv'
  BY <1>1, BeginKeeps, HoldKeeps, OpenSessionKeeps, AddKeeps, ChangeKeeps, IssueKeeps, ResetKeeps
  DEF CallStep
<1>2. CASE UNCHANGED vars
  <2>1. UNCHANGED Live
    BY <1>2 DEF vars, Live
  <2>2. \A d \in Calls : CallSound(calls[d])'
    BY <1>2, <2>1 DEF vars, CredentialsInv, CallSound, Honest, HandedFirst, HoldsSoundly, ProofHolds,
       Knows
  <2> QED
    BY <1>2, <2>1, <2>2
    DEF vars, CredentialsInv, TypeOK, IntruderLate, NothingOutlivesReset, CurrentPassword, LockedOut,
        NobodyElse, NothingPrivateHandedOver
<1> QED
  BY <1>1, <1>2, RemovePasskeyKeeps, OwnersKeep DEF Next

\* Whatever races, every variable has its type, what holds the membership
\* proved something that still holds, and a session rests on a password that is
\* the present one: openSessionForAccount, change, reset and lock together keep
\* the inductive invariant.
THEOREM CredentialsInvariant == Spec => []CredentialsInv
<1>1. Init => CredentialsInv
  BY InitInv
<1>2. CredentialsInv /\ [Next]_vars => CredentialsInv'
  BY NextKeeps
<1> QED
  BY <1>1, <1>2, PTL DEF Spec

\* A reset ends whatever was proved before it, also what had not become a
\* session yet.
THEOREM ResetEndsAll == Spec => []NothingOutlivesReset
<1>1. CredentialsInv => NothingOutlivesReset
  BY DEF CredentialsInv
<1> QED
  BY <1>1, CredentialsInvariant, PTL

\* No sign-in proved before a lock opens a session after it.
THEOREM LockHolds == Spec => []LockedOut
<1>1. CredentialsInv => LockedOut
  BY DEF CredentialsInv
<1> QED
  BY <1>1, CredentialsInvariant, PTL

\* A password of one's own leaves nobody else a way in.
THEOREM TakenBack == Spec => []NobodyElse
<1>1. CredentialsInv => NobodyElse
  BY DEF CredentialsInv
<1> QED
  BY <1>1, CredentialsInvariant, PTL

\* A link that was handed over opens nothing that was private before.
THEOREM HandoverOpensNothing == Spec => []NothingPrivateHandedOver
<1>1. CredentialsInv => NothingPrivateHandedOver
  BY DEF CredentialsInv
<1> QED
  BY <1>1, CredentialsInvariant, PTL

-----------------------------------------------------------------------------
(* What SignIn promises.                                                   *)

\* Sessions rest on what they rested on, but for those in S, which ended.
LEMMA RestsAfter ==
  ASSUME TypeOK, NEW S \in SUBSET Sessions, sessions' = Ended(S)
  PROVE  Rests' = [s \in Sessions |-> IF s \in S THEN <<"none", 0>> ELSE Rests[s]]
<1>1. \A t \in Sessions : /\ t \in S => t \notin Live'
                          /\ t \notin S => sessions'[t] = sessions[t] /\ (t \in Live' <=> t \in Live)
  BY EndedFacts DEF Live
<1> QED
  BY <1>1 DEF Rests, Live

LEMMA Opens ==
  ASSUME CredentialsInv, NEW c \in Calls, NEW s \in Sessions, OpenSession(c, s)
  PROVE  Abstract!Open(s)
<1> DEFINE r == [at |-> "live", by |-> calls[c].by, way |-> calls[c].kind, of |-> calls[c].of,
                 resets |-> calls[c].resets]
<1>1. /\ sessions' = [sessions EXCEPT ![s] = r] /\ sessions[s].at = "none"
      /\ UNCHANGED <<secret, passkeys, suspended>>
  BY DEF OpenSession, account
<1>2. calls[c].kind \in Ways /\ Honest(calls[c]) /\ HoldsSoundly(calls[c])
  BY DEF OpenSession, CredentialsInv, CallSound
<1>3. ~suspended /\ <<calls[c].kind, calls[c].of>> \in Abstract!Valid
  BY <1>2 DEF HoldsSoundly, ProofHolds, Ways, Abstract!Valid
<1>4. r.at = "live" /\ r.way = calls[c].kind /\ r.of = calls[c].of
  OBVIOUS
<1> HIDE DEF r
<1>5. /\ s \in Live' /\ s \notin Live /\ sessions'[s] = r
      /\ \A t \in Sessions : t # s => sessions'[t] = sessions[t] /\ (t \in Live' <=> t \in Live)
  BY <1>1, <1>4 DEF CredentialsInv, TypeOK, Live
<1>6. /\ Rests[s] = <<"none", 0>>
      /\ Rests' = [Rests EXCEPT ![s] = <<calls[c].kind, calls[c].of>>]
  BY <1>4, <1>5 DEF Rests, Live
<1> QED
  BY <1>1, <1>3, <1>6 DEF Abstract!Open, Abstract!Nothing

LEMMA Changes ==
  ASSUME CredentialsInv, NEW c \in Calls, Change(c)
  PROVE  Abstract!Next \/ UNCHANGED <<secret, passkeys, suspended, Rests>>
<1> DEFINE s == calls[c].of
<1>1. CASE ~StillSignedIn(s)
  BY <1>1 DEF Change, Rests, Live
<1>2. CASE StillSignedIn(s)
  <2>1. s \in Sessions /\ s \in Live /\ sessions[s] \in SessionRecords
    BY <1>2 DEF StillSignedIn, Live, CredentialsInv, TypeOK
  <2>2. /\ secret' = made + 1 /\ secret' \in Nat \ {0, secret} /\ passkeys' \subseteq passkeys
        /\ UNCHANGED suspended
    BY <1>2 DEF Change, Make, CredentialsInv, TypeOK, Numbers
  <2> DEFINE E == Ended(Sessions \ {s})
             r == [sessions[s] EXCEPT !.of = IF sessions[s].way = "password" THEN made + 1 ELSE @]
  <2>3. /\ E \in [Sessions -> SessionRecords] /\ E[s] = sessions[s]
        /\ \A t \in Sessions : t # s => E[t].at # "live"
    BY <2>1, EndedFacts DEF CredentialsInv
  <2>4. sessions' = [E EXCEPT ![s].of = IF sessions[s].way = "password" THEN made + 1 ELSE @]
    BY <1>2 DEF Change
  <2>5. sessions' = [E EXCEPT ![s] = r]
    BY <2>1, <2>3, <2>4
  <2>6. /\ r.at = sessions[s].at /\ r.way = sessions[s].way
        /\ r.of = IF sessions[s].way = "password" THEN secret' ELSE sessions[s].of
    BY <2>1, <2>2 DEF SessionRecords
  <2> HIDE DEF E, r, s
  <2>7. Live' = {s} /\ sessions'[s] = r /\ sessions[s].at = "live"
    BY <2>1, <2>3, <2>5, <2>6 DEF Live
  <2>8. sessions[s].way \in Ways
    BY <2>1 DEF SessionRecords
  <2> DEFINE proof == <<sessions[s].way,
                        IF sessions[s].way = "password" THEN secret' ELSE sessions[s].of>>
  <2>9. /\ Rests[s] = <<sessions[s].way, sessions[s].of>> /\ Rests[s] # <<"none", 0>>
        /\ Rests' = [t \in Sessions |-> IF t = s THEN proof ELSE <<"none", 0>>]
    BY <2>1, <2>6, <2>7, <2>8 DEF Rests, Ways, Live
  <2>10. proof \in {Rests[s], <<"password", secret'>>} /\ proof # <<"password", secret>>
    BY <2>2, <2>8, <2>9 DEF Ways
  <2> HIDE DEF proof
  <2>11. Abstract!Change(s)
    BY <2>2, <2>9, <2>10 DEF Abstract!Change, Abstract!Nothing
  <2> QED
    BY <2>1, <2>11 DEF Abstract!Next
<1> QED
  BY <1>1, <1>2

LEMMA StepSimulates ==
  CredentialsInv /\ [Next]_vars => [Abstract!Next]_(Abstract!vars)
<1> SUFFICES ASSUME CredentialsInv, [Next]_vars
             PROVE  Abstract!Next \/ UNCHANGED <<secret, passkeys, suspended, Rests>>
  BY DEF Abstract!vars
<1> USE DEF CredentialsInv
<1>1. CASE UNCHANGED <<secret, passkeys, suspended, sessions>>
  BY <1>1 DEF Rests, Live
<1>2. ASSUME NEW c \in Calls, CallStep(c)
      PROVE  Abstract!Next \/ UNCHANGED <<secret, passkeys, suspended, Rests>>
  <2>1. CASE \E s \in Sessions : OpenSession(c, s)
    BY <2>1, Opens DEF Abstract!Next
  <2>2. CASE AddPasskey(c)
    <3>1. /\ passkeys' = passkeys \union {made + 1} /\ made + 1 \in passkeys'
          /\ UNCHANGED <<secret, suspended, Rests>>
      BY <2>2 DEF AddPasskey, Rests, Live
    <3> QED
      BY <3>1 DEF Abstract!Next, Abstract!AddPasskey
  <2>3. CASE Change(c)
    BY <2>3, Changes
  <2>4. CASE Reset(c)
    <3>1. CASE UNCHANGED <<account, sessions>>
      BY <2>4, <3>1 DEF Reset, account, Rests, Live
    <3>2. CASE /\ secret' = made + 1 /\ passkeys' = {} /\ sessions' = Ended(Sessions)
               /\ UNCHANGED suspended
      <4>1. secret' \in Nat \ {0, secret}
        BY <3>2 DEF TypeOK, Numbers
      <4>2. Rests' = [s \in Sessions |-> <<"none", 0>>]
        BY <3>2, RestsAfter
      <4> QED
        BY <3>2, <4>1, <4>2 DEF Abstract!Next, Abstract!Reset, Abstract!AllEnd, Abstract!Nothing
    <3> QED
      BY <2>4, <3>1, <3>2 DEF Reset
  <2> QED
    BY <1>1, <1>2, <2>1, <2>2, <2>3, <2>4
    DEF CallStep, ProvePassword, ProvePasskey, HoldToOpen, Ask, HoldToAdd, KeepPrivate, Forgot,
        RetireLinks, MakeLink, ReadLink, GiveUp, account
<1>3. ASSUME NEW k \in Numbers, RemovePasskey(k) PROVE Abstract!Next
  <2>1. k \in passkeys /\ passkeys' = passkeys \ {k} /\ UNCHANGED <<secret, suspended, Rests>>
    BY <1>3 DEF RemovePasskey, Rests, Live
  <2> QED
    BY <2>1 DEF Abstract!Next, Abstract!RemovePasskey
<1>4. CASE Lock
  <2>1. Rests' = [s \in Sessions |-> <<"none", 0>>]
    BY <1>4, RestsAfter DEF Lock
  <2> QED
    BY <1>4, <2>1
    DEF Lock, account, TypeOK, Abstract!Next, Abstract!Lock, Abstract!AllEnd, Abstract!Nothing
<1>5. CASE Unlock
  <2>1. UNCHANGED Rests
    BY <1>5 DEF Unlock, Rests, Live
  <2> QED
    BY <1>5, <2>1 DEF Unlock, account, Abstract!Next, Abstract!Unlock
<1>6. ASSUME NEW l \in Links, StartReset(l)
      PROVE  Abstract!Next \/ UNCHANGED <<secret, passkeys, suspended, Rests>>
  <2>1. CASE UNCHANGED <<secret, sessions>>
    BY <1>1, <1>6, <2>1 DEF StartReset
  <2>2. CASE secret' = 0 /\ sessions' = Ended(Sessions)
    <3>1. Rests' = [s \in Sessions |-> <<"none", 0>>]
      BY <2>2, RestsAfter
    <3> QED
      BY <1>6, <2>2, <3>1
      DEF StartReset, Abstract!Next, Abstract!Stop, Abstract!AllEnd, Abstract!Nothing
  <2> QED
    BY <1>6, <2>1, <2>2 DEF StartReset
<1>7. CASE EndSessions
  <2>1. PICK S \in SUBSET Sessions : sessions' = Ended(S)
    BY <1>7 DEF EndSessions, Live
  <2>2. Rests' = [s \in Sessions |-> IF s \in S THEN <<"none", 0>> ELSE Rests[s]]
    BY <2>1, RestsAfter
  <2> QED
    BY <1>7, <2>2 DEF EndSessions, account, Abstract!Next, Abstract!SignOut, Abstract!Nothing
<1> QED
  BY <1>1, <1>2, <1>3, <1>4, <1>5, <1>6, <1>7 DEF Next, vars, account

\* Holding the membership and asking again makes each way in as good as one
\* step: the whole does what SignIn promises.
THEOREM ImplementsSignIn == Spec => SignsInAsPromised
<1>1. Init => Abstract!Init
  BY DEF Init, Abstract!Init, Abstract!Nothing, Rests, Live, NoSession
<1>2. CredentialsInv /\ [Next]_vars => [Abstract!Next]_(Abstract!vars)
  BY StepSimulates
<1> QED
  BY <1>1, <1>2, CredentialsInvariant, PTL DEF Spec, SignsInAsPromised, Abstract!Spec

\* A link sets a password once: whoever raced for it, every reset uses up a link
\* that was live, so no link is behind two of them.
THEOREM SpentOnceHolds == Spec => SpentOnce
<1>1. CredentialsInv /\ [Next]_vars =>
        [resets' # resets => \E l \in Links : links[l].at = "live" /\ links'[l].at = "used"]_vars
  <2> SUFFICES ASSUME CredentialsInv, [Next]_vars, resets' # resets
               PROVE  \E l \in Links : links[l].at = "live" /\ links'[l].at = "used"
    OBVIOUS
  <2>1. PICK c \in Calls : Reset(c)
    BY DEF Next, CallStep, vars, history, ProvePassword, ProvePasskey, HoldToOpen, OpenSession, Ask,
           HoldToAdd, AddPasskey, KeepPrivate, Change, Forgot, RetireLinks, MakeLink, ReadLink,
           GiveUp, RemovePasskey, StartReset, Lock, Unlock, EndSessions
  <2> DEFINE l == calls[c].of
  <2>2. l \in Links
    BY <2>1 DEF Reset, CredentialsInv, CallSound, Honest
  <2>3. Claimed(l)
    BY <2>1 DEF Reset, history
  <2>4. links[l].at = "live" /\ links'[l].at = "used"
    BY <2>1, <2>2, <2>3 DEF Reset, Claimed, CredentialsInv, TypeOK
  <2> QED
    BY <2>2, <2>4
<1> QED
  BY <1>1, CredentialsInvariant, PTL DEF Spec, SpentOnce
=============================================================================
