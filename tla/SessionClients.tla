---------------------------- MODULE SessionClients ----------------------------
(***************************************************************************)
(* The tabs of one browser (or an app and its extension) sharing a stored  *)
(* session, each a SessionCore of packages/client/src/session.ts, over the *)
(* vault's side of that session, RefreshFamily.                            *)
(*                                                                         *)
(* Each context keeps its own copy of the stored session.  A renewal takes *)
(* the lock the contexts share, where the platform has one, reads the      *)
(* store again, presents the token and saves the answer.  The request or   *)
(* its answer may be lost, and a request given up on may still arrive; the *)
(* vault may answer that there were too many tries, and is then let alone  *)
(* for as long as it asked.  A context may be loaded anew at any moment,   *)
(* and time passes: the vault's clock and the device's run alike.          *)
(***************************************************************************)
EXTENDS RefreshFamily

CONSTANTS
  Contexts,   \* tabs, or an app and its extension
  HasLock,    \* the platform has a lock its contexts share (Web Locks: https only)
  RenewalRetries,   \* RENEWAL_RETRIES, and RENEWAL_WAIT_MOST in ticks
  RenewalWaitMost,
  MaxLost     \* bound: requests and answers lost or delayed

ASSUME ContextsAssumption ==
  /\ HasLock \in BOOLEAN
  /\ RenewalRetries \in Nat
  /\ RenewalWaitMost \in Nat
  /\ MaxLost \in Nat

VARIABLES
  store,      \* TokenStore: the token kept, or that nobody is signed in
  notBefore,  \* retry_not_before of what is kept; the past when it has none
  mem,        \* SessionCore.stored, one per context
  renewal,    \* SessionCore.renew, one per context
  lock,       \* the contexts inside the shared lock
  late,       \* tokens of requests given up on that still reach the vault
  lost,       \* requests and answers lost or delayed
  inARow,     \* history: answers with tokens lost since the last one that arrived
  overtaken   \* history: a request given up on was served after all

clientVars == <<store, notBefore, mem, renewal, lock, late, lost, inARow, overtaken>>
allVars    == <<vars, clientVars>>

SignedOut  == MaxTokens + 2     \* no stored session
NewSignIn  == MaxTokens + 3     \* the session of a later sign-in, of its own family
Ended      == MaxTokens + 4     \* the vault's answer: 401, the session is over
Stored     == Tokens \union {SignedOut, NewSignIn}

Browser == FirstClient          \* all contexts present themselves alike

Idle     == [at |-> "idle", using |-> NoToken, answer |-> NoToken,
             retried |-> 0, until |-> 0]
Renewals == [at : {"idle", "begun", "asking", "spent", "answered", "waiting"},
             using : Stored \union {NoToken},
             answer : Tokens \union {NoToken, Ended},
             retried : 0..RenewalRetries,
             until : Nat]

\* Retry-After: waits short enough to wait out, and one that is not.
RetryAfter == 1..RenewalWaitMost + 1

ClientsInit ==
  /\ Init
  /\ store = 1
  /\ notBefore = 0
  /\ mem = [p \in Contexts |-> 1]
  /\ renewal = [p \in Contexts |-> Idle]
  /\ lock = {}
  /\ late = {}
  /\ lost = 0
  /\ inARow = 0
  /\ overtaken = FALSE

Goto(p, r) == renewal' = [renewal EXCEPT ![p] = r]
Finish(p)  == Goto(p, Idle) /\ lock' = lock \ {p}

LockFree == ~HasLock \/ lock = {}

\* The renewal's turn: what it believes is what this context holds.
Begin(p) ==
  /\ renewal[p].at = "idle"
  /\ mem[p] # SignedOut
  /\ LockFree
  /\ lock' = lock \union {p}
  /\ Goto(p, [Idle EXCEPT !.at = "begun", !.using = mem[p]])
  /\ UNCHANGED <<vars, store, notBefore, mem, late, lost, inARow, overtaken>>

\* Fault: this context's own copy is presented, the store not read.
Latest_Believed(p) == mem[p]
\* The store is the truth.
Latest(p) == store

\* Told to wait, here or in another context, and it is not over; unless this
\* context has just waited out its own.
ToldToWait(p) == renewal[p].retried = 0 /\ now < notBefore

\* The store is read again; a sign-in or sign-out here since Begin stands.
Load(p) ==
  /\ renewal[p].at = "begun"
  /\ \/ /\ mem[p] # renewal[p].using
        /\ Finish(p)
        /\ UNCHANGED mem
     \/ /\ mem[p] = renewal[p].using
        /\ mem' = [mem EXCEPT ![p] = Latest(p)]
        /\ IF Latest(p) \in Tokens /\ ~ToldToWait(p)
           THEN /\ Goto(p, [renewal[p] EXCEPT !.at = "asking", !.using = Latest(p)])
                /\ UNCHANGED lock
           ELSE Finish(p)
  /\ UNCHANGED <<vars, store, notBefore, late, lost, inARow, overtaken>>

\* The current token, or one the grace covers, of a session that is over.
Refuses(c, t) ==
  /\ ~MayRefresh
  /\ \/ t = session.cur
     \/ t = session.prev /\ (session.revoked # "no" \/ GraceAllows(c))

\* The vault's first transaction for the request under way.
Serve(p) ==
  /\ renewal[p].at = "asking"
  /\ LET t == renewal[p].using IN
     \/ /\ Rotate(Browser, t) \/ Replay(Browser, t)
        /\ Goto(p, [renewal[p] EXCEPT !.at = "answered", !.answer = issued'])
     \/ /\ NotAccepted(Browser, t)
        /\ Goto(p, [renewal[p] EXCEPT !.at = "spent"])
     \/ /\ Refuses(Browser, t)
        /\ Goto(p, [renewal[p] EXCEPT !.at = "answered", !.answer = Ended])
        /\ UNCHANGED vars
  /\ UNCHANGED <<store, notBefore, mem, lock, late, lost, inARow, overtaken>>

\* Its second one.
ServeSpent(p) ==
  /\ renewal[p].at = "spent"
  /\ EndSpent(renewal[p].using)
  /\ Goto(p, [renewal[p] EXCEPT !.at = "answered", !.answer = Ended])
  /\ UNCHANGED <<store, notBefore, mem, lock, late, lost, inARow, overtaken>>

\* No answer, a timeout, a 5xx: offline, and the session is kept.
AnswerLost(p) ==
  /\ renewal[p].at = "answered"
  /\ lost < MaxLost
  /\ lost' = lost + 1
  /\ inARow' = IF renewal[p].answer \in Tokens THEN inARow + 1 ELSE inARow
  /\ Finish(p)
  /\ UNCHANGED <<vars, store, notBefore, mem, late, overtaken>>

RequestLost(p) ==
  /\ renewal[p].at = "asking"
  /\ lost < MaxLost
  /\ lost' = lost + 1
  /\ late' \in {late, late \union {renewal[p].using}}
  /\ Finish(p)
  /\ UNCHANGED <<vars, store, notBefore, mem, inARow, overtaken>>

\* A request given up on reaches the vault; its answer goes nowhere.
ServeLate(t) ==
  /\ t \in late
  /\ late' = late \ {t}
  /\ overtaken' = TRUE
  /\ \/ Rotate(Browser, t)
     \/ Replay(Browser, t)
     \/ NotAccepted(Browser, t)
     \/ Refuses(Browser, t) /\ UNCHANGED vars
  /\ UNCHANGED <<store, notBefore, mem, renewal, lock, lost, inARow>>

LateSpent(t) ==
  /\ \A p \in Contexts : renewal[p].at = "spent" => renewal[p].using # t
  /\ EndSpent(t)
  /\ UNCHANGED clientVars

\* Fault: the answer is kept whatever landed meanwhile.
StillWanted_Always(p) == TRUE
\* this.stored === using: no sign-in or sign-out landed here meanwhile.
StillWanted(p) == mem[p] = renewal[p].using

Answer(p) ==
  /\ renewal[p].at = "answered"
  /\ IF StillWanted(p)
     THEN LET s == IF renewal[p].answer = Ended THEN SignedOut ELSE renewal[p].answer
          IN  /\ mem' = [mem EXCEPT ![p] = s]
              /\ store' = s
              /\ notBefore' = 0
     ELSE UNCHANGED <<mem, store, notBefore>>
  /\ inARow' = IF renewal[p].answer \in Tokens THEN 0 ELSE inARow
  /\ Finish(p)
  /\ UNCHANGED <<vars, late, lost, overtaken>>

\* 429: the token was not spent.  How long to wait, when the vault said, is
\* kept in the store for every context; a short wait is waited out by who asked
\* for one, outside the lock, and only so many times.
TooMany(p) ==
  /\ renewal[p].at = "asking"
  /\ lock' = lock \ {p}
  /\ \/ Goto(p, Idle) /\ UNCHANGED <<store, notBefore>>
     \/ \E wait \in RetryAfter :
          /\ StillWanted(p)
          /\ store' = renewal[p].using
          /\ notBefore' = now + wait
          /\ \/ Goto(p, Idle)
             \/ /\ wait <= RenewalWaitMost
                /\ renewal[p].retried < RenewalRetries
                /\ Goto(p, [renewal[p] EXCEPT !.at = "waiting", !.until = now + wait])
  /\ UNCHANGED <<vars, mem, late, lost, inARow, overtaken>>

\* The wait is over; a sign-in or a sign-out here ends it early, and stands.
WaitedOut(p) ==
  /\ renewal[p].at = "waiting"
  /\ \/ /\ mem[p] # renewal[p].using
        /\ Goto(p, Idle)
        /\ UNCHANGED lock
     \/ /\ mem[p] = renewal[p].using
        /\ renewal[p].until <= now
        /\ LockFree
        /\ lock' = lock \union {p}
        /\ Goto(p, [Idle EXCEPT !.at = "begun", !.using = mem[p],
                                !.retried = renewal[p].retried + 1])
  /\ UNCHANGED <<vars, store, notBefore, mem, late, lost, inARow, overtaken>>

\* A context is loaded anew, or the app started again: it knows what the store
\* holds, and its renewal is gone, whatever the vault makes of the request.
Reload(p) ==
  /\ mem' = [mem EXCEPT ![p] = store]
  /\ Finish(p)
  /\ IF renewal[p].at \in {"asking", "spent", "answered"}
     THEN /\ lost < MaxLost
          /\ lost' = lost + 1
     ELSE UNCHANGED lost
  /\ late' \in IF renewal[p].at = "asking"
              THEN {late, late \union {renewal[p].using}} ELSE {late}
  /\ inARow' = IF renewal[p].at = "answered" /\ renewal[p].answer \in Tokens
               THEN inARow + 1 ELSE inARow
  /\ overtaken' = (overtaken \/ renewal[p].at = "spent")
  /\ UNCHANGED <<vars, store, notBefore>>

\* SessionCore.clear, without the lock.  The vault was told, or was not.
ClearHere(p) ==
  /\ mem[p] # SignedOut
  /\ mem' = [mem EXCEPT ![p] = SignedOut]
  /\ store' = SignedOut
  /\ notBefore' = 0
  /\ \/ SignOut
     \/ UNCHANGED vars
  /\ UNCHANGED <<renewal, lock, late, lost, inARow, overtaken>>

\* SessionCore.accept of a new sign-in, without the lock.
SignInHere(p) ==
  /\ mem[p] = SignedOut
  /\ mem' = [mem EXCEPT ![p] = NewSignIn]
  /\ store' = NewSignIn
  /\ notBefore' = 0
  /\ UNCHANGED <<vars, renewal, lock, late, lost, inARow, overtaken>>

\* Ended elsewhere: by an owner's lock, or from the list of devices.
EndedElsewhere ==
  /\ Lock \/ SignOut
  /\ UNCHANGED clientVars

TimePasses ==
  /\ Tick
  /\ UNCHANGED clientVars

ClientsNext ==
  \/ \E p \in Contexts :
       \/ Begin(p)
       \/ Load(p)
       \/ Serve(p)
       \/ ServeSpent(p)
       \/ AnswerLost(p)
       \/ RequestLost(p)
       \/ Answer(p)
       \/ TooMany(p)
       \/ WaitedOut(p)
       \/ Reload(p)
       \/ ClearHere(p)
       \/ SignInHere(p)
  \/ \E t \in Tokens : ServeLate(t) \/ LateSpent(t)
  \/ EndedElsewhere
  \/ TimePasses

ClientsSpec == ClientsInit /\ [][ClientsNext]_allVars

-----------------------------------------------------------------------------
(* Properties.                                                             *)

\* No two contexts inside a lock the platform has.
ClientsTypeOK ==
  /\ TypeOK
  /\ store \in Stored
  /\ notBefore \in Nat
  /\ mem \in [Contexts -> Stored]
  /\ renewal \in [Contexts -> Renewals]
  /\ lock \subseteq Contexts
  /\ HasLock => Cardinality(lock) <= 1
  /\ late \subseteq Tokens
  /\ lost \in 0..MaxLost
  /\ inARow \in 0..MaxLost
  /\ overtaken \in BOOLEAN

\* More than the grace has passed since the session's last rotation.
GraceOver == now - session.rotatedAt > RefreshGrace

\* "Exactly one refresh at a time": a browser whose contexts share a lock is
\* never taken for a thief, unless two answers in a row were lost, or one and
\* the grace had passed before it asked again, or a request it had given up on
\* was served after all (session.ts, the header; graceAllows).
NoFalseAlarm ==
  session.revoked = "reuse" =>
    \/ inARow >= 2
    \/ inARow = 1 /\ GraceOver
    \/ overtaken

\* Somebody who signed out in a context is not signed back in there by a
\* renewal that was in the air, nor by one waiting to ask again: only a sign-in
\* ends being signed out, or loading the context anew from what is stored.
OwnSignOutStands ==
  [][\A p \in Contexts :
       mem[p] = SignedOut /\ mem'[p] \in Tokens => Reload(p)]_allVars

\* While the session goes on and every answer arrived, the contexts have not
\* lost it: one that still holds a token of it finds the current one in the
\* store, or in the answer under way.
StoreKeepsUp ==
  /\ session.revoked = "no"
  /\ lost = 0
  /\ store \in Tokens
  => \/ store = session.cur
     \/ \E p \in Contexts :
          renewal[p].at = "answered" /\ renewal[p].answer = session.cur

-----------------------------------------------------------------------------
(* The inductive invariant behind NoFalseAlarm and StoreKeepsUp.           *)

\* Whatever a context holds, asked with or was answered, the vault has made.
OnlyMadeTokens ==
  \A t \in Tokens :
    \/ t = store
    \/ t \in late
    \/ \E p \in Contexts : t \in {mem[p], renewal[p].using, renewal[p].answer}
    => t <= issued

\* Past Load: a token is presented, or was.
Presenting(p) == renewal[p].at \in {"asking", "spent", "answered"}

\* A renewal under way has the lock to itself unless it waits, which it does so
\* many times only; it presents a token, and is answered with something.
RenewalsHoldLock ==
  /\ lock = {p \in Contexts : renewal[p].at \notin {"idle", "waiting"}}
  /\ HasLock => \A p, q \in lock : p = q
  /\ \A p \in Contexts :
       /\ renewal[p].at # "idle" => renewal[p].using \in Tokens \union {NewSignIn}
       /\ Presenting(p) => renewal[p].using \in Tokens
       /\ renewal[p].at = "answered" => renewal[p].answer # NoToken
       /\ renewal[p].at = "waiting" => renewal[p].retried < RenewalRetries

\* The vault's row, as far as this browser moves it: nobody else presents a
\* token, and a locked sign-in has no session.
VaultSide ==
  /\ session.client = Browser
  /\ membership = "active" \/ session.revoked # "no"

LossesCounted == inARow <= lost /\ (lost = 0 => late = {} /\ ~overtaken)

\* Past Load, the store still holds the token presented, or no token at all.
OneTokenHere ==
  \A p \in Contexts : Presenting(p) =>
    /\ store \in Tokens => store = renewal[p].using
    /\ mem[p] # renewal[p].using => mem[p] \notin Tokens /\ store \notin Tokens

\* With no answer lost since the last, the token is the current one; with one
\* lost, it is the one before, and its grace is unused.
Fits(t) ==
  /\ inARow = 0 => t = session.cur
  /\ inARow = 1 => t = session.prev /\ ~session.graceUsed

RenewalFits(p) ==
  /\ renewal[p].at \in {"asking", "spent"} => Fits(renewal[p].using)
  /\ renewal[p].at = "spent" =>
       inARow >= 2 \/ (inARow = 1 /\ GraceOver)
  /\ renewal[p].at = "answered" /\ renewal[p].answer = Ended => Fits(renewal[p].using)
  /\ renewal[p].at = "answered" /\ renewal[p].answer # Ended =>
       /\ renewal[p].answer = session.cur
       /\ inARow = 0 => renewal[p].using = session.prev /\ ~session.graceUsed

NoneServed == \A p \in Contexts : renewal[p].at \notin {"spent", "answered"}

KeepsFit ==
  session.revoked = "no" /\ ~overtaken =>
    /\ store \in Tokens /\ NoneServed => Fits(store)
    /\ \A p \in Contexts : RenewalFits(p)

\* A session ended as reused has no answer with a token still to be read.
NoAnswerOutlivesReuse ==
  session.revoked = "reuse" /\ ~overtaken =>
    \A p \in Contexts : renewal[p].at = "answered" => renewal[p].answer = Ended

\* What the vault is about to refuse, unless late, is a renewal under way.
SpentHere ==
  ~overtaken => \A t \in spent :
    \E p \in Contexts : renewal[p].at = "spent" /\ renewal[p].using = t

\* Together, with the types: one renewal at a time, whoever renews is not taken
\* for a thief, and the session is not lost (session.ts, the header; refreshOnce).
ClientsInv ==
  /\ ClientsTypeOK
  /\ OnlyMadeTokens
  /\ RenewalsHoldLock
  /\ VaultSide
  /\ LossesCounted
  /\ OneTokenHere
  /\ KeepsFit
  /\ SpentHere
  /\ NoAnswerOutlivesReuse
  /\ NoFalseAlarm
  /\ StoreKeepsUp
=============================================================================
