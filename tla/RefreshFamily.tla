---------------------------- MODULE RefreshFamily ----------------------------
(***************************************************************************)
(* One signed-in session of the vault and the family of refresh tokens     *)
(* made for it (apps/api/src/auth/service.ts, refresh and endSpent).       *)
(*                                                                         *)
(* A refresh rotates the session's token.  A token that was replaced is    *)
(* proof of theft when it comes in again, with one exception: the token    *)
(* just replaced may be presented once more, soon, by the same client,     *)
(* because the answer to its refresh may have been lost.                   *)
(*                                                                         *)
(* A token is the number of its making.  Whoever holds a token may present *)
(* it at any moment, so the environment is the most general one: every     *)
(* client presents every token ever made, and forged ones.  A lost answer  *)
(* is a client that goes on presenting the token it had.                   *)
(*                                                                         *)
(* A refresh is two database transactions: the first rotates, replays or   *)
(* refuses under the session's row lock; a token it does not accept is     *)
(* looked up again in a second one, which ends the session it belongs to.  *)
(* Other requests, and the API process dying, come between the two.        *)
(***************************************************************************)
EXTENDS Integers, Sequences, FiniteSets

CONSTANTS
  Clients,          \* who presents tokens: an installation, or a browser at an address
  Installation,     \* the app installation that signed in, or NoInstallation
  NoInstallation,
  FirstClient,      \* the client that signed in
  LegacyFirst,      \* TRUE when the first token predates families and names no session
  RefreshGrace,     \* REFRESH_GRACE_MS, REFRESH_TTL_SECONDS and SESSION_MAX_MS, in ticks
  RefreshTtl,
  SessionMax,
  GraceHashesKept,  \* GRACE_HASHES_KEPT
  MaxTokens,        \* bound: tokens made
  MaxTime,          \* bound: ticks of the clock
  MaxPending        \* bound: refreshes between their two transactions at once

ASSUME ClientsAssumption ==
  /\ FirstClient \in Clients
  /\ NoInstallation \notin Clients
  /\ Installation \in {FirstClient, NoInstallation}
  /\ LegacyFirst \in BOOLEAN

ASSUME TimesAssumption ==
  /\ RefreshGrace \in Nat
  /\ RefreshTtl \in Nat
  /\ SessionMax \in Nat
  /\ RefreshTtl <= SessionMax
  /\ GraceHashesKept \in Nat \ {0}
  /\ MaxTokens \in Nat \ {0}
  /\ MaxTime \in Nat
  /\ MaxPending \in Nat

VARIABLES
  session,     \* the row of the session
  membership,  \* the account's membership: "active", or why it may not sign in
  issued,      \* tokens 1..issued were made
  now,         \* the database's clock
  spent,       \* tokens the first transaction of a refresh did not accept
  spends,      \* history: who was answered with a new token for each, and when
  refused      \* history: the kinds of the vault's tokens answered as spent

vars == <<session, membership, issued, now, spent, spends, refused>>

Tokens   == 1..MaxTokens
NoToken  == 0
Forged   == MaxTokens + 1      \* garbage, or a token whose tag is not the vault's
Never    == -1

Reasons     == {"reuse", "signed_out", "locked", "removed"}
Memberships == {"active", "suspended", "access_ended", "removed"}

Spend    == [by : Clients, at : Nat]
Sessions == [cur : Tokens, prev : Tokens \union {NoToken}, grace : Seq(Tokens),
             graceUsed : BOOLEAN, rotatedAt : Nat \union {Never}, expiresAt : Nat,
             client : Clients, revoked : Reasons \union {"no"}]

Least(a, b) == IF a < b THEN a ELSE b

\* graceHashes.slice(-GRACE_HASHES_KEPT)
MostRecent(s) ==
  IF Len(s) <= GraceHashesKept
  THEN s
  ELSE SubSeq(s, Len(s) - GraceHashesKept + 1, Len(s))

Remembered == {session.grace[i] : i \in 1..Len(session.grace)}

\* A token the vault made that names no session.
Legacy(t) == LegacyFirst /\ t = 1
\* Fault: families forgotten, as before 5.30.
Names_NoFamilies(t) == FALSE
\* sessionOfToken: the token names this session and the vault's tag is on it.
Names(t) == t \in Tokens /\ ~Legacy(t)

Kind(t) == IF t = Forged THEN "forged" ELSE IF Legacy(t) THEN "legacy" ELSE "family"
Kinds   == {"forged", "legacy", "family"}

Init ==
  /\ session = [cur |-> 1, prev |-> NoToken, grace |-> <<>>, graceUsed |-> FALSE,
                rotatedAt |-> IF LegacyFirst THEN Never ELSE 0,
                expiresAt |-> RefreshTtl,
                client |-> FirstClient, revoked |-> "no"]
  /\ membership = "active"
  /\ issued = 1
  /\ now = 0
  /\ spent = {}
  /\ spends = [t \in Tokens |-> <<>>]
  /\ refused = {}

-----------------------------------------------------------------------------
(* The first transaction of a refresh.                                     *)

Expired == session.expiresAt < now \/ SessionMax < now

\* What every refresh that is answered with a token has passed.
MayRefresh ==
  /\ session.revoked = "no"
  /\ ~Expired
  /\ membership = "active"

SameClient(c) ==
  IF Installation # NoInstallation THEN c = Installation ELSE c = session.client

\* Fault: the grace is not used up by a replay.
GraceAllows_Repeated(c) ==
  /\ session.revoked = "no"
  /\ session.rotatedAt # Never
  /\ now - session.rotatedAt <= RefreshGrace
  /\ SameClient(c)

\* Fault: the grace is for any client.
GraceAllows_AnyClient(c) ==
  /\ session.revoked = "no"
  /\ session.rotatedAt # Never
  /\ now - session.rotatedAt <= RefreshGrace
  /\ ~session.graceUsed

\* The one-time replay of the token just replaced.
GraceAllows(c) ==
  /\ session.revoked = "no"
  /\ session.rotatedAt # Never
  /\ now - session.rotatedAt <= RefreshGrace
  /\ ~session.graceUsed
  /\ SameClient(c)

\* What a rotation keeps of the tokens it retires: one that names no session.
KeptOnRotate(t) ==
  IF Legacy(t) THEN MostRecent(Append(session.grace, t)) ELSE session.grace

\* What a replay keeps: the token replayed and the one it displaces.
KeptOnReplay(t) == MostRecent(session.grace \o <<t, session.cur>>)

\* Fault: the session slides past its absolute end.
SlidTo_NoEnd == now + RefreshTtl

SlidTo == Least(now + RefreshTtl, SessionMax)

\* The tokens are answered: the next is the current one from here.
Hand(c, t) ==
  /\ issued < MaxTokens
  /\ issued' = issued + 1
  /\ spends' = [spends EXCEPT ![t] = Append(@, [by |-> c, at |-> now])]
  /\ UNCHANGED <<membership, now, spent, refused>>

Rotate(c, t) ==
  /\ t = session.cur
  /\ MayRefresh
  /\ session' = [session EXCEPT !.cur = issued + 1, !.prev = t,
                                !.grace = KeptOnRotate(t), !.graceUsed = FALSE,
                                !.rotatedAt = now, !.expiresAt = SlidTo,
                                !.client = c]
  /\ Hand(c, t)

Replay(c, t) ==
  /\ t = session.prev
  /\ GraceAllows(c)
  /\ MayRefresh
  /\ session' = [session EXCEPT !.cur = issued + 1, !.prev = session.cur,
                                !.grace = KeptOnReplay(t), !.graceUsed = TRUE,
                                !.rotatedAt = now, !.expiresAt = SlidTo,
                                !.client = c]
  /\ Hand(c, t)

\* Neither the current token nor one the grace covers: what it belongs to is
\* looked up again, in a transaction of its own.  A session that has ended
\* answers why for its last two tokens and goes no further.
NotAccepted(c, t) ==
  /\ t # session.cur
  /\ ~(t = session.prev /\ (session.revoked # "no" \/ GraceAllows(c)))
  /\ spent' = spent \union {t}
  /\ Cardinality(spent') <= MaxPending
  /\ UNCHANGED <<session, membership, issued, now, spends, refused>>

Present(c) ==
  \E t \in (1..issued) \union {Forged} :
    \/ Rotate(c, t)
    \/ Replay(c, t)
    \/ NotAccepted(c, t)

(* The second transaction: the session a spent token belongs to ends.      *)

BelongsHere(t) == t = session.prev \/ t \in Remembered \/ Names(t)

\* Fault: a revocation written over the one before it.
Revoke_Over(why) == [session EXCEPT !.revoked = why]

Revoke(why) ==
  IF session.revoked = "no" THEN [session EXCEPT !.revoked = why] ELSE session

EndSpent(t) ==
  /\ t \in spent
  /\ session' = IF BelongsHere(t) THEN Revoke("reuse") ELSE session
  /\ spent' = spent \ {t}
  /\ refused' = refused \union {Kind(t)}
  /\ UNCHANGED <<membership, issued, now, spends>>

\* The API process dies between the two: nobody is answered.
Crash ==
  /\ spent # {}
  /\ spent' = {}
  /\ UNCHANGED <<session, membership, issued, now, spends, refused>>

-----------------------------------------------------------------------------
(* What else ends a session or refuses it.                                 *)

SignOut ==
  /\ session.revoked = "no"
  /\ session' = Revoke("signed_out")
  /\ UNCHANGED <<membership, issued, now, spent, spends, refused>>

\* An owner locks the sign-in: its sessions end in the same transaction.
Lock ==
  /\ membership = "active"
  /\ membership' = "suspended"
  /\ session' = Revoke("locked")
  /\ UNCHANGED <<issued, now, spent, spends, refused>>

Unlock ==
  /\ membership = "suspended"
  /\ membership' = "active"
  /\ UNCHANGED <<session, issued, now, spent, spends, refused>>

RemoveSignIn ==
  /\ membership # "removed"
  /\ membership' = "removed"
  /\ session' = Revoke("removed")
  /\ UNCHANGED <<issued, now, spent, spends, refused>>

\* A guest's sign-in reaches its end; an owner moves the end.
AccessEnds ==
  /\ membership = "active"
  /\ membership' = "access_ended"
  /\ UNCHANGED <<session, issued, now, spent, spends, refused>>

AccessExtended ==
  /\ membership = "access_ended"
  /\ membership' = "active"
  /\ UNCHANGED <<session, issued, now, spent, spends, refused>>

Tick ==
  /\ now < MaxTime
  /\ now' = now + 1
  /\ UNCHANGED <<session, membership, issued, spent, spends, refused>>

Next ==
  \/ \E c \in Clients : Present(c)
  \/ \E t \in Tokens \union {Forged} : EndSpent(t)
  \/ Crash
  \/ SignOut
  \/ Lock
  \/ Unlock
  \/ RemoveSignIn
  \/ AccessEnds
  \/ AccessExtended
  \/ Tick

Spec == Init /\ [][Next]_vars

-----------------------------------------------------------------------------
(* Properties.                                                             *)

\* Every variable has its type, and a session never remembers more than
\* GRACE_HASHES_KEPT of the tokens its replays touched.
TypeOK ==
  /\ session \in Sessions
  /\ Len(session.grace) <= GraceHashesKept
  /\ membership \in Memberships
  /\ issued \in Tokens
  /\ now \in 0..MaxTime
  /\ spent \subseteq Tokens \union {Forged}
  /\ spends \in [Tokens -> Seq(Spend)]
  /\ refused \subseteq Kinds

\* No token buys more than one rotation and one replay of it.  The replay
\* came within the grace, and went to the client that was answered first or,
\* when an app signed in, to that installation: a stolen token is never good
\* for two strangers (refresh and graceAllows).
ReplayFits(first, second) ==
  /\ second.at - first.at <= RefreshGrace
  /\ second.by = IF Installation # NoInstallation THEN Installation ELSE first.by

OneLineOfDescent ==
  \A t \in Tokens :
    /\ Len(spends[t]) <= 2
    /\ Len(spends[t]) = 2 => ReplayFits(spends[t][1], spends[t][2])

\* A token is answered with a new one only while it is the current one, or
\* when it was answered once before: a token that a replay displaced unused
\* never buys anything again (refresh, the replay's prev_refresh_hash).
DisplacedStaysDead ==
  [][\A t \in Tokens :
       spends'[t] # spends[t] => t = session.cur \/ Len(spends[t]) = 1]_vars

\* Nobody is refused with a token of this session's family as spent while the
\* session goes on: the answer leaves only once the session has ended, though
\* another transaction came between and the token may be long retired
\* (endSpent, "must commit its revocation before we fail").
RefusedMeansEnded ==
  "family" \in refused => session.revoked # "no"

\* Once ended, a session hands out nothing and keeps the first reason it
\* ended for, whatever comes in and whoever ends it again; and only a token the
\* vault made, and has since replaced, ends it as reused: garbage and forged
\* tokens leave it alone, and so does the current one.
EndedOnceForCause ==
  [][/\ session.revoked # "no" =>
         session'.revoked = session.revoked /\ spends' = spends
     /\ session.revoked = "no" /\ session'.revoked = "reuse" =>
         \E t \in spent : t < session.cur]_vars

\* The time a client is told its token lasts is time it has: no rotation
\* promises more than the 180 days of the session (refreshExpiresAt).
PromiseWithinSession == session.expiresAt <= SessionMax

\* The inductive invariant behind OneLineOfDescent: the current token is the
\* last one made and has bought nothing; the one before it, while its grace is
\* unused, was spent once, when and by whom the session's row says.
CurrentIsLast == session.cur = issued /\ session.prev < session.cur

CurrentUnspent ==
  \A t \in Tokens : t >= session.cur => spends[t] = <<>>

PreviousSpentOnce ==
  session.prev # NoToken /\ ~session.graceUsed =>
    /\ Len(spends[session.prev]) = 1
    /\ spends[session.prev][1].at = session.rotatedAt
    /\ spends[session.prev][1].by = session.client

FamilyInv ==
  /\ TypeOK
  /\ CurrentIsLast
  /\ CurrentUnspent
  /\ PreviousSpentOnce
  /\ OneLineOfDescent
  /\ PromiseWithinSession
=============================================================================
