---------------------------- MODULE Credentials ----------------------------
(***************************************************************************)
(* One person's way in: the password, the passkeys, the reset links, and   *)
(* the sessions they open (apps/api/src/auth/service.ts, passwords.ts,     *)
(* passkeys.ts; apps/api/src/household/locks.ts, owner-resets.ts;          *)
(* migration 0052).                                                        *)
(*                                                                         *)
(* Whoever knows a credential proves it in one transaction and acts on it  *)
(* in another.  What opens a session, adds a passkey or makes something    *)
(* private holds the person's membership FOR SHARE; what changes, resets   *)
(* or stops the password, or locks the sign-in, holds it FOR NO KEY UPDATE *)
(* and is one step here, taken when nobody holds it FOR SHARE.  Making a   *)
(* link from the sign-in page holds nothing.                               *)
(*                                                                         *)
(* An owner may be handed a link for somebody who keeps nothing private.   *)
(* Whoever spends such a link is the "intruder" if not the person: they    *)
(* choose a password, which they may hand over.                            *)
(***************************************************************************)
EXTENDS Integers, FiniteSets

CONSTANTS
  Calls,        \* requests under way
  Sessions,
  Links,
  MaxMade,      \* bound: passwords and passkeys made
  OperatorMail  \* whoever runs the server gave it a mail server

ASSUME CredentialsAssumption ==
  /\ MaxMade \in Nat \ {0}
  /\ OperatorMail \in BOOLEAN

VARIABLES
  secret,     \* account.password_hash: the password's number, 0 for none
  passkeys,   \* credential: the passkeys' numbers
  made,       \* passwords and passkeys made so far, numbered as they are made
  chose,      \* whose each of them is
  links,      \* password_reset
  sessions,   \* session
  suspended,  \* account_household.suspended_at
  private,    \* the sessions from which they made something private
  handover,   \* account.handover_spent_at: the number of the password it chose, or 0
  calls,
  resets,     \* history: links that set a password
  before,     \* history: sessions there were when a handed link was last spent
  own         \* history: the password was last set by the person

vars == <<secret, passkeys, made, chose, links, sessions, suspended, private, handover, calls,
          resets, before, own>>
account == <<secret, passkeys, made, chose, handover>>
history == <<resets, before, own>>

People  == {"person", "intruder"}
Numbers == 1..MaxMade
Ways    == {"password", "passkey"}
Kinds   == Ways \union {"change", "add", "keep", "reset", "issue"}

NoCall == [at |-> "idle", kind |-> "issue", by |-> "person", of |-> 0, resets |-> 0]
CallRecords ==
  [at : {"idle", "asked", "holding", "retired"}, kind : Kinds, by : People,
   of : Numbers \union Sessions \union Links \union {0}, resets : Nat]
SessionRecords ==
  [at : {"none", "live", "ended"}, by : People, way : Ways, of : Numbers \union {0}, resets : Nat]
NoSession == [at |-> "none", by |-> "person", way |-> "password", of |-> 0, resets |-> 0]

Live == {s \in Sessions : sessions[s].at = "live"}

Init ==
  /\ secret = 1
  /\ passkeys = {}
  /\ made = 1
  /\ chose = [n \in Numbers |-> "person"]
  /\ links = [l \in Links |-> [at |-> "none", handover |-> FALSE]]
  /\ sessions = [s \in Sessions |-> NoSession]
  /\ suspended = FALSE
  /\ private = {}
  /\ handover = 0
  /\ calls = [c \in Calls |-> NoCall]
  /\ resets = 0
  /\ before = {}
  /\ own = TRUE

-----------------------------------------------------------------------------

\* The person may sign in with a password chosen for them.
Knows(who, n) == n # 0 /\ (who = "person" \/ chose[n] = who)

\* Fault: nobody waits for a session being opened.
MembershipFree_Always == TRUE
\* No transaction holds the person's membership FOR SHARE.
MembershipFree == \A c \in Calls : calls[c].at # "holding"

Ended(S) == [s \in Sessions |->
  IF s \in S /\ sessions[s].at = "live" THEN [NoSession EXCEPT !.at = "ended"] ELSE sessions[s]]

\* Every link still live is used up.
Retired == [l \in Links |->
  IF links[l].at = "live" THEN [links[l] EXCEPT !.at = "used"] ELSE links[l]]

Begin(c, kind, who, of) ==
  /\ calls[c].at = "idle"
  /\ calls' = [calls EXCEPT ![c] =
                 [at |-> "asked", kind |-> kind, by |-> who, of |-> of, resets |-> resets]]
End(c) == calls' = [calls EXCEPT ![c] = NoCall]

-----------------------------------------------------------------------------
(* Signing in.                                                             *)

\* signInWithPassword, and the code where one is asked for.
ProvePassword(c) ==
  /\ \E who \in People : Knows(who, secret) /\ Begin(c, "password", who, secret)
  /\ UNCHANGED <<account, links, sessions, suspended, private, history>>

ProvePasskey(c) ==
  /\ \E k \in passkeys : Begin(c, "passkey", chose[k], k)
  /\ UNCHANGED <<account, links, sessions, suspended, private, history>>

\* Fault: what was proved is not asked again.
ProofHolds_Believed(call) == TRUE
\* The password is the one proved, or the passkey is still theirs.
ProofHolds(call) ==
  /\ call.kind = "password" => secret # 0 /\ secret = call.of
  /\ call.kind = "passkey" => call.of \in passkeys

NotLocked == ~suspended

\* openSessionForAccount: the membership FOR SHARE, then what was proved.
HoldToOpen(c) ==
  /\ calls[c].at = "asked"
  /\ calls[c].kind \in Ways
  /\ IF ProofHolds(calls[c]) /\ NotLocked
     THEN calls' = [calls EXCEPT ![c].at = "holding"]
     ELSE End(c)
  /\ UNCHANGED <<account, links, sessions, suspended, private, history>>

OpenSession(c, s) ==
  /\ calls[c].at = "holding"
  /\ calls[c].kind \in Ways
  /\ sessions[s].at = "none"
  /\ sessions' = [sessions EXCEPT ![s] =
       [at |-> "live", by |-> calls[c].by, way |-> calls[c].kind, of |-> calls[c].of,
        resets |-> calls[c].resets]]
  /\ End(c)
  /\ UNCHANGED <<account, links, suspended, private, history>>

-----------------------------------------------------------------------------
(* From a session: a passkey, something private, another password.         *)

\* The request's session was live when it came in.
Ask(c, s) ==
  /\ s \in Live
  /\ \E kind \in {"change", "add", "keep"} : Begin(c, kind, sessions[s].by, s)
  /\ UNCHANGED <<account, links, sessions, suspended, private, history>>

\* Fault: whoever was signed in still is.
StillSignedIn_Believed(s) == TRUE
StillSignedIn(s) == s \in Live

HoldToAdd(c) ==
  /\ calls[c].at = "asked"
  /\ calls[c].kind \in {"add", "keep"}
  /\ IF StillSignedIn(calls[c].of)
     THEN calls' = [calls EXCEPT ![c].at = "holding"]
     ELSE End(c)
  /\ UNCHANGED <<account, links, sessions, suspended, private, history>>

Make(n, who) == made < MaxMade /\ n = made + 1 /\ made' = n /\ chose' = [chose EXCEPT ![n] = who]

AddPasskey(c) ==
  /\ calls[c].at = "holding"
  /\ calls[c].kind = "add"
  /\ Make(made + 1, calls[c].by)
  /\ passkeys' = passkeys \union {made + 1}
  /\ End(c)
  /\ UNCHANGED <<secret, handover, links, sessions, suspended, private, history>>

\* member_private_gained, and the row it is for.
KeepPrivate(c) ==
  /\ calls[c].at = "holding"
  /\ calls[c].kind = "keep"
  /\ private' = private \union {calls[c].of}
  /\ End(c)
  /\ UNCHANGED <<account, links, sessions, suspended, history>>

\* Fault: what was added since a handed link was spent stays.
AddedSince_None == {}
\* takeAwaySinceHandover.
AddedSince == {k \in passkeys : handover # 0 /\ k > handover}

\* A change is asked for with the current password, or a verification a few
\* minutes old.  The session that made it goes on, by the new password if it
\* rested on the old one.
Change(c) ==
  LET s == calls[c].of IN
  /\ calls[c].at = "asked"
  /\ calls[c].kind = "change"
  /\ MembershipFree
  /\ End(c)
  /\ IF StillSignedIn(s)
     THEN /\ Make(made + 1, calls[c].by)
          /\ secret' = made + 1
          /\ passkeys' = passkeys \ AddedSince
          /\ sessions' = [Ended(Sessions \ {s}) EXCEPT ![s].of =
                            IF sessions[s].way = "password" THEN made + 1 ELSE @]
          /\ own' = (own \/ calls[c].by = "person")
     ELSE UNCHANGED <<secret, passkeys, made, chose, sessions, own>>
  /\ UNCHANGED <<handover, links, suspended, private, resets, before>>

\* Removing a passkey waits only for a sign-in with it.
RemovePasskey(k) ==
  /\ k \in passkeys
  /\ \A c \in Calls : ~(calls[c].at = "holding" /\ calls[c].kind = "passkey" /\ calls[c].of = k)
  /\ passkeys' = passkeys \ {k}
  /\ UNCHANGED <<secret, made, chose, handover, links, sessions, suspended, private, calls, history>>

-----------------------------------------------------------------------------
(* Links.                                                                  *)

\* forgot and the command line: the lock is asked after, the link before it is
\* retired, the new one made, each by itself.
Forgot(c) ==
  /\ NotLocked
  /\ Begin(c, "issue", "person", 0)
  /\ UNCHANGED <<account, links, sessions, suspended, private, history>>

RetireLinks(c) ==
  /\ calls[c].at = "asked"
  /\ calls[c].kind = "issue"
  /\ links' = Retired
  /\ calls' = [calls EXCEPT ![c].at = "retired"]
  /\ UNCHANGED <<account, sessions, suspended, private, history>>

MakeLink(c, l) ==
  /\ calls[c].at = "retired"
  /\ links[l].at = "none"
  /\ links' = [links EXCEPT ![l] = [at |-> "live", handover |-> FALSE]]
  /\ End(c)
  /\ UNCHANGED <<account, sessions, suspended, private, history>>

\* live(): a link mailed is the person's; one handed over may be anybody's.
ReadLink(c, l) ==
  /\ links[l].at = "live"
  /\ \E who \in People : (who = "person" \/ links[l].handover) /\ Begin(c, "reset", who, l)
  /\ UNCHANGED <<account, links, sessions, suspended, private, history>>

\* Fault: a link read live is taken for one.
Claimed_AsRead(l) == links[l].at # "none"
Claimed(l) == links[l].at = "live"

\* A handed link is used up and does nothing for somebody who keeps something
\* private now.
Reset(c) ==
  LET l == calls[c].of IN
  /\ calls[c].at = "asked"
  /\ calls[c].kind = "reset"
  /\ MembershipFree
  /\ End(c)
  /\ links' = IF Claimed(l) THEN [links EXCEPT ![l].at = "used"] ELSE links
  /\ IF Claimed(l) /\ ~(links[l].handover /\ private # {})
     THEN /\ Make(made + 1, calls[c].by)
          /\ secret' = made + 1
          /\ passkeys' = {}
          /\ handover' = IF links[l].handover THEN made + 1 ELSE handover
          /\ sessions' = Ended(Sessions)
          /\ resets' = resets + 1
          /\ before' = IF links[l].handover THEN {s \in Sessions : sessions[s].at # "none"} ELSE before
          /\ own' = (calls[c].by = "person")
     ELSE UNCHANGED <<account, sessions, history>>
  /\ UNCHANGED <<suspended, private>>

-----------------------------------------------------------------------------
(* What owners do to it.                                                   *)

Lock ==
  /\ ~suspended
  /\ MembershipFree
  /\ suspended' = TRUE
  /\ sessions' = Ended(Sessions)
  /\ links' = Retired
  /\ UNCHANGED <<account, private, calls, history>>

Unlock ==
  /\ suspended
  /\ MembershipFree
  /\ suspended' = FALSE
  /\ UNCHANGED <<account, links, sessions, private, calls, history>>

\* start: a link to their own address, or, with no mail server, to hand over for
\* somebody who keeps nothing private; and, if asked, the password stops now.
StartReset(l) ==
  /\ ~suspended
  /\ MembershipFree
  /\ OperatorMail \/ private = {}
  /\ links[l].at = "none"
  /\ links' = [Retired EXCEPT ![l] = [at |-> "live", handover |-> ~OperatorMail]]
  /\ \/ UNCHANGED <<secret, sessions>>
     \/ secret' = 0 /\ sessions' = Ended(Sessions)
  /\ UNCHANGED <<passkeys, made, chose, handover, suspended, private, calls, history>>

\* signOutEverywhere, revokeSession, a token that came back.
EndSessions ==
  /\ \E S \in SUBSET Live : S # {} /\ sessions' = Ended(S)
  /\ UNCHANGED <<account, links, suspended, private, calls, history>>

\* A code that was wrong, a request given up on, a process that died.
GiveUp(c) ==
  /\ calls[c].at # "idle"
  /\ End(c)
  /\ UNCHANGED <<account, links, sessions, suspended, private, history>>

CallStep(c) ==
  \/ ProvePassword(c)
  \/ ProvePasskey(c)
  \/ HoldToOpen(c)
  \/ \E s \in Sessions : OpenSession(c, s)
  \/ \E s \in Sessions : Ask(c, s)
  \/ HoldToAdd(c)
  \/ AddPasskey(c)
  \/ KeepPrivate(c)
  \/ Change(c)
  \/ Forgot(c)
  \/ RetireLinks(c)
  \/ \E l \in Links : MakeLink(c, l)
  \/ \E l \in Links : ReadLink(c, l)
  \/ Reset(c)
  \/ GiveUp(c)

Next ==
  \/ \E c \in Calls : CallStep(c)
  \/ \E k \in Numbers : RemovePasskey(k)
  \/ \E l \in Links : StartReset(l)
  \/ Lock
  \/ Unlock
  \/ EndSessions

Spec == Init /\ [][Next]_vars

-----------------------------------------------------------------------------
(* Properties.                                                             *)

\* Every variable has its type.
TypeOK ==
  /\ secret \in 0..made
  /\ made \in Numbers
  /\ passkeys \subseteq 1..made
  /\ chose \in [Numbers -> People]
  /\ links \in [Links -> [at : {"none", "live", "used"}, handover : BOOLEAN]]
  /\ sessions \in [Sessions -> SessionRecords]
  /\ suspended \in BOOLEAN
  /\ private \subseteq Sessions
  /\ handover \in 0..made
  /\ calls \in [Calls -> CallRecords]
  /\ resets \in Nat
  /\ before \subseteq Sessions
  /\ own \in BOOLEAN

\* A reset ends whatever was proved before it: no session opens or goes on that
\* rests on a proof older than the last reset, though it was proved before and
\* opened after (openSessionForAccount, "The proof still holds").
NothingOutlivesReset == \A s \in Live : sessions[s].resets = resets

\* A session that goes on by a password does so by the present one: a change,
\* a reset or a stopped password ends the others, and those about to open.
CurrentPassword == \A s \in Live : sessions[s].way = "password" => sessions[s].of = secret

\* A locked sign-in has no session, though it was proved before the lock.
LockedOut == suspended => Live = {}

\* Once the person has set a password of their own, nobody who was handed a
\* link for their sign-in has a way in: no session, no passkey, no password,
\* whatever they had under way (takeAwaySinceHandover, stillSignedIn).
NobodyElse ==
  own => /\ secret # 0 => chose[secret] = "person"
         /\ \A k \in passkeys : chose[k] = "person"
         /\ \A s \in Live : sessions[s].by = "person"

\* A link that was handed over never opens what was private: what there is was
\* made after it was spent (member_private_gained).
NothingPrivateHandedOver == private \intersect before = {}

\* The inductive invariant behind them.  A call is by somebody who knew or had
\* what it proved.
Honest(call) ==
  /\ call.kind = "password" => /\ call.of \in 1..made
                               /\ Knows(call.by, call.of)
                               /\ secret = call.of => call.resets = resets
  /\ call.kind = "passkey" => /\ call.of \in 1..made
                              /\ chose[call.of] = call.by
                              /\ call.of \in passkeys => call.resets = resets
  /\ call.kind \in {"change", "add", "keep"} =>
       /\ call.of \in Sessions
       /\ sessions[call.of].at # "none"
       /\ call.of \in Live => sessions[call.of].by = call.by
  /\ call.kind = "reset" => call.of \in Links /\ links[call.of].at # "none"
\* What holds the membership proved something that still holds.
HoldsSoundly(call) ==
  /\ call.kind \in Ways \union {"add", "keep"}
  /\ own => call.by = "person"
  /\ call.kind \in Ways => ProofHolds(call) /\ ~suspended
  /\ call.kind \in {"add", "keep"} => call.of \notin before
\* Nobody but the person does anything before a link is handed over.
HandedFirst(call) ==
  call.by = "intruder" => handover # 0 \/ (call.kind = "reset" /\ links[call.of].handover)
CallSound(call) ==
  /\ call.at # "idle" => Honest(call) /\ HandedFirst(call)
  /\ call.at = "holding" => HoldsSoundly(call)
IntruderLate ==
  /\ \A n \in 1..made : chose[n] = "intruder" => handover # 0
  /\ \A k \in passkeys : chose[k] = "intruder" => k > handover
  /\ \A s \in Live : sessions[s].by = "intruder" => handover # 0
CredentialsInv ==
  /\ TypeOK
  /\ \A c \in Calls : CallSound(calls[c])
  /\ IntruderLate
  /\ \A s \in before : sessions[s].at = "ended"
  /\ NothingOutlivesReset
  /\ CurrentPassword
  /\ LockedOut
  /\ NobodyElse
  /\ NothingPrivateHandedOver

\* A link sets a password once, whoever raced for it: every reset uses up a link
\* that was live.
SpentOnce ==
  [][resets' # resets => \E l \in Links : links[l].at = "live" /\ links'[l].at = "used"]_vars

\* What SignIn promises of the whole, each of its steps taken at once.
Rests == [s \in Sessions |->
  IF sessions[s].at = "live" THEN <<sessions[s].way, sessions[s].of>> ELSE <<"none", 0>>]
Abstract == INSTANCE SignIn WITH password <- secret, locked <- suspended, sessions <- Rests
SignsInAsPromised == Abstract!Spec
=============================================================================
