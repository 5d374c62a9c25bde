----------------------------- MODULE ShareLinks -----------------------------
(***************************************************************************)
(* One link to a document, and everything asked of it at once              *)
(* (apps/api/src/documents/shares.ts: unlock, tryFactors, countOpen,       *)
(* sendCode, inSession, sessionContent, revoke; share-sessions.ts:         *)
(* endSessions; the trigger share_link_factors_fixed and the database's    *)
(* app_live_share).                                                        *)
(*                                                                         *)
(* Every request is one READ COMMITTED transaction.  It reads what is      *)
(* committed, waits for the row another holds and then finds the row as    *)
(* that one left it, and what it has written is seen by nobody else until  *)
(* it commits.  The household's log is the last thing any of them takes:   *)
(* whoever is only writing a line takes it and commits in one step.        *)
(***************************************************************************)
EXTENDS Integers, Sequences, FiniteSets

CONSTANTS
  Reqs,       \* requests, each made once
  Browsers,
  None,
  Links,      \* how a link may have been made
  MaxTries,   \* MAX_PIN_ATTEMPTS
  CodeTries,  \* SHARE_CODE_TRIES
  Sends       \* SHARE_CODE_SENDS, over one window: no model time leaves it

\* Opens and downloads are limits; a link without one is a link whose limit
\* is past the number of requests.
Made == [secret : BOOLEAN, code : BOOLEAN, oneDevice : BOOLEAN,
         opens : Nat \ {0}, downloads : Nat \ {0}]

ASSUME LinksAssumption ==
  /\ None \notin Reqs \union Browsers
  /\ Links # {} /\ Links \subseteq Made
  /\ MaxTries \in Nat \ {0} /\ CodeTries \in Nat \ {0} /\ Sends \in Nat \ {0}

VARIABLES
  made,       \* the protection and limits the link was made with
  link,       \* share_link's row, as committed
  draft,      \* the same row, as whoever holds it has written it
  lent,       \* its maker and its document still let it be read
  over,       \* expires_at has passed
  codes,      \* share_code, by the request that sent each
  sessions,   \* share_session, by the Open that made each
  jar,        \* the device cookie each browser keeps
  held,       \* which transaction holds each row and each advisory lock
  at, req,    \* where each request is, and what it came with
  code, todo, \* the code an Open holds; the rows a statement has yet to take
  answer,
  log         \* the link's lines in the activity log, by the request that wrote each

vars == <<made, link, draft, lent, over, codes, sessions, jar, held, at, req, code, todo,
          answer, log>>
world == <<made, lent, over>>
rows == <<link, draft, codes, sessions, jar, log>>
hands == <<held, code, todo, answer>>

Rows == [revoked : BOOLEAN, tries : Nat, opens : Nat, downloads : Nat,
         device : Reqs \union {None}, address : BOOLEAN]
Codes == [state : {"none", "live", "ended", "used"}, tries : Nat]
Sessions == [state : {"none", "open", "lapsed", "ended"}, device : Reqs \union {None}, had : BOOLEAN]
Steps == {"idle", "codeRow", "try", "tryRow", "check", "locking", "lockLine", "device",
          "bindRow", "count", "countRow", "clear", "view", "dropSession", "dropLink", "touch", "gives",
          "downRow", "finish", "send", "endCodes", "sendLine", "mail", "revokeRow",
          "endSessions", "revokeLine", "done"}
Answers == {"none", "gone", "used up", "other device", "wrong", "locked", "opened",
            "session ended", "given", "no code", "limit", "sent", "not sent", "revoked", "failed"}
Requests == [browser : Browsers \union {None}, cookie : Reqs \union {None},
             names : Reqs \union {None}, secret : BOOLEAN]
NoReq == [browser |-> None, cookie |-> None, names |-> None, secret |-> FALSE]

Locks == ({"link", "log", "send"} \X {None}) \union ({"code", "session"} \X Reqs)
LinkRow == <<"link", None>>
Log == <<"log", None>>
SendLock == <<"send", None>>
CodeRow(c) == <<"code", c>>
SessionRow(s) == <<"session", s>>

-----------------------------------------------------------------------------
\* What a transaction sees of the link's row: its own draft if it holds it.
Seen(r) == IF held[LinkRow] = r THEN draft ELSE link

UsedUp(l) == l.opens >= made.opens

\* live(), stillLive() and the database's app_live_share(): one condition.
Live(l) == ~l.revoked /\ ~over /\ l.tries < MaxTries /\ lent

\* share_link_factors_fixed: the address goes in the statement that ends the link.
Written(l) == [l EXCEPT !.address = @ /\ ~l.revoked /\ l.tries < MaxTries /\ ~UsedUp(l)]

OtherDevice(device, b) == made.oneDevice /\ device # None /\ device # jar[b]

Usable(c) == codes[c].state = "live" /\ codes[c].tries < CodeTries
\* Fault: a code found usable is taken for usable.
StillUsable_AsRead(c) == TRUE
StillUsable(c) == Usable(c)
SecretRight(r) == ~made.secret \/ req[r].secret
CodeRight(r) == ~made.code \/ (code[r] # None /\ req[r].names = code[r])

Free(l) == held[l] = None
Take(l, r) == held' = [held EXCEPT ![l] = r]
Goes(r, step) == at' = [at EXCEPT ![r] = step]

\* The transaction is over, committed or undone: all it held is let go.
Answered(r, a) ==
  /\ Goes(r, "done")
  /\ answer' = [answer EXCEPT ![r] = a]
  /\ held' = [l \in Locks |-> IF held[l] = r THEN None ELSE held[l]]
  /\ code' = [code EXCEPT ![r] = None]
  /\ todo' = [todo EXCEPT ![r] = {}]
DraftDropped(r) == draft' = IF held[LinkRow] = r THEN link ELSE draft
Undone(r, a) == Answered(r, a) /\ DraftDropped(r) /\ UNCHANGED <<link, codes, sessions, jar, log>>

\* What commits with it: the code it was opened with, used; the sessions
\* it holds, removed.
CodeUsed(r) == codes' = IF code[r] = None THEN codes
                        ELSE [codes EXCEPT ![code[r]].state = "used"]
CodeTried(r) == codes' = IF code[r] = None \/ ~SecretRight(r) \/ CodeRight(r) THEN codes
                         ELSE [codes EXCEPT ![code[r]].tries = @ + 1]
HeldSessions(r) == {s \in Reqs : held[SessionRow(s)] = r}
SessionsRemoved(S) == [s \in Reqs |-> IF s \in S THEN [sessions[s] EXCEPT !.state = "ended"]
                                      ELSE sessions[s]]
LineWritten(r) == log' = Append(log, r)

\* Fault: the sessions in use are waited for.
ToEnd_Waiting == {s \in Reqs : sessions[s].state \in {"open", "lapsed"}}
\* endSessions: every session of the link that nobody has in use.
ToEnd == {s \in Reqs : sessions[s].state \in {"open", "lapsed"} /\ Free(SessionRow(s))}
EndSessions(r, step) ==
  /\ \A s \in ToEnd : Free(SessionRow(s))
  /\ held' = [l \in Locks |-> IF \E s \in ToEnd : l = SessionRow(s) THEN r ELSE held[l]]
  /\ Goes(r, step)

-----------------------------------------------------------------------------
\* A request comes from a browser with its cookie, which only a link for one
\* device looks at.
Arrives(r, b, n, right) ==
  /\ at[r] = "idle"
  /\ req' = [req EXCEPT ![r] = [browser |-> IF made.oneDevice THEN b ELSE None,
                                cookie |-> jar[b], names |-> n, secret |-> right]]

\* POST /shared/unlock.  The link is read as it is, nothing held.
AfterFactors == IF made.oneDevice THEN "device" ELSE "count"

Open(r, b, n, right) ==
  /\ Arrives(r, b, n, right)
  /\ (right => made.secret) /\ (n # None => made.code /\ codes[n].state # "none")
  /\ \/ ~Live(link) /\ Undone(r, "gone")
     \/ Live(link) /\ UsedUp(link) /\ Undone(r, "used up")
     \/ Live(link) /\ ~UsedUp(link) /\ OtherDevice(link.device, b) /\ Undone(r, "other device")
     \/ /\ Live(link) /\ ~UsedUp(link) /\ ~OtherDevice(link.device, b)
        /\ \/ ~made.secret /\ ~made.code /\ Goes(r, AfterFactors) /\ UNCHANGED code
           \/ made.secret /\ ~made.code /\ Goes(r, "try") /\ UNCHANGED code
           \/ /\ made.code
              /\ \/ (\A c \in Reqs : ~Usable(c)) /\ Goes(r, "try") /\ UNCHANGED code
                 \/ \E c \in Reqs : /\ Usable(c)
                                    /\ code' = [code EXCEPT ![r] = c]
                                    /\ Goes(r, "codeRow")
        /\ UNCHANGED <<rows, held, todo, answer>>
  /\ UNCHANGED world

\* tryFactors: the code that could be right, with its row, if it still can be.
TakeCode(r) ==
  /\ at[r] = "codeRow" /\ Free(CodeRow(code[r]))
  /\ IF StillUsable(code[r])
     THEN Take(CodeRow(code[r]), r) /\ UNCHANGED code
     ELSE code' = [code EXCEPT ![r] = None] /\ UNCHANGED held
  /\ Goes(r, "try")
  /\ UNCHANGED <<world, rows, req, todo, answer>>

\* Refused with the transaction kept: a code found right stays used.
RefusedKeeping(r, a) ==
  /\ CodeUsed(r) /\ Answered(r, a) /\ DraftDropped(r) /\ UNCHANGED <<link, sessions, jar, log>>

\* The try is reserved before it is checked.  The statement asks whether the
\* link may be used as it starts, waits for the row, and asks the row again
\* only what it names: the tries.
AskTry(r) ==
  /\ at[r] = "try"
  /\ IF Live(link)
     THEN Goes(r, "tryRow") /\ UNCHANGED <<hands, rows>>
     ELSE Undone(r, "gone")
  /\ UNCHANGED <<world, req>>

\* Fault: the tries read before the wait are believed.
MayTry_AsRead(l) == TRUE
MayTry(l) == l.tries < MaxTries

Reserve(r) ==
  /\ at[r] = "tryRow" /\ Free(LinkRow)
  /\ IF MayTry(link)
     THEN /\ draft' = Written([link EXCEPT !.tries = @ + 1])
          /\ Take(LinkRow, r) /\ Goes(r, "check")
          /\ UNCHANGED <<link, codes, sessions, jar, code, todo, answer, log>>
     ELSE Undone(r, "gone")
  /\ UNCHANGED <<world, req>>

\* Right: the reservation is rolled back to its savepoint, and the row let go.
Right(r) ==
  /\ at[r] = "check" /\ SecretRight(r) /\ CodeRight(r)
  /\ held' = [held EXCEPT ![LinkRow] = None]
  /\ draft' = link
  /\ Goes(r, AfterFactors)
  /\ UNCHANGED <<world, link, codes, sessions, jar, req, code, todo, answer, log>>

LastTry(l) == l.tries >= MaxTries

Wrong(r) ==
  /\ at[r] = "check" /\ ~(SecretRight(r) /\ CodeRight(r)) /\ ~LastTry(draft)
  /\ link' = draft /\ CodeTried(r) /\ Answered(r, "wrong")
  /\ UNCHANGED <<world, draft, sessions, jar, req, log>>

\* The tenth: the sessions nobody has in use end, and the log says so.
Lock(r) ==
  /\ at[r] = "check" /\ ~(SecretRight(r) /\ CodeRight(r)) /\ LastTry(draft)
  /\ EndSessions(r, "lockLine")
  /\ UNCHANGED <<world, rows, req, code, todo, answer>>
Locked(r) ==
  /\ at[r] = "lockLine" /\ Free(Log)
  /\ link' = draft /\ CodeTried(r) /\ sessions' = SessionsRemoved(HeldSessions(r))
  /\ LineWritten(r) /\ Answered(r, "locked")
  /\ UNCHANGED <<world, draft, jar, req>>

\* The first Open that works binds the link to its browser, with a cookie of
\* its own; the row is asked only whether it is bound.
AskBind(r) ==
  /\ at[r] = "device"
  /\ \/ req[r].cookie # None /\ Goes(r, "count")
        /\ UNCHANGED <<hands, rows>>
     \/ req[r].cookie = None /\ Live(link) /\ Goes(r, "bindRow")
        /\ UNCHANGED <<hands, rows>>
     \/ req[r].cookie = None /\ ~Live(link) /\ RefusedKeeping(r, "gone")
  /\ UNCHANGED <<world, req>>

Unbound(l) == l.device = None

Bind(r) ==
  /\ at[r] = "bindRow" /\ Free(LinkRow)
  /\ \/ /\ Unbound(link)
        /\ draft' = [link EXCEPT !.device = r]
        /\ Take(LinkRow, r) /\ Goes(r, "count")
        /\ UNCHANGED <<link, codes, sessions, jar, code, todo, answer, log>>
     \/ ~Unbound(link) /\ RefusedKeeping(r, IF Live(link) THEN "other device" ELSE "gone")
  /\ UNCHANGED <<world, req>>

\* countOpen: one statement, which asks the row all of it again once it has it.
AskCount(r) ==
  /\ at[r] = "count"
  /\ IF Live(Seen(r))
     THEN Goes(r, "countRow") /\ UNCHANGED <<hands, rows>>
     ELSE RefusedKeeping(r, "gone")
  /\ UNCHANGED <<world, req>>

\* Fault: the opens read before the wait are believed.
MayCount_AsRead(l) == ~l.revoked /\ ~over /\ l.tries < MaxTries
MayCount(l) == ~l.revoked /\ ~over /\ l.tries < MaxTries /\ ~UsedUp(l)

CountOpen(r) ==
  /\ at[r] = "countRow" /\ held[LinkRow] \in {None, r}
  /\ IF MayCount(Seen(r))
     THEN /\ draft' = Written([Seen(r) EXCEPT !.opens = @ + 1])
          /\ Take(LinkRow, r) /\ Goes(r, "clear")
          \* the link's sessions past their end, as a new one starts
          /\ todo' = [todo EXCEPT ![r] = {s \in Reqs : sessions[s].state = "lapsed"}]
          /\ UNCHANGED <<link, codes, sessions, jar, code, answer, log>>
     ELSE RefusedKeeping(r, IF Live(Seen(r)) /\ UsedUp(Seen(r)) THEN "used up" ELSE "gone")
  /\ UNCHANGED <<world, req>>

Clear(r) ==
  /\ at[r] = "clear"
  /\ \/ \E s \in todo[r] : /\ Free(SessionRow(s)) /\ Take(SessionRow(s), r)
                           /\ todo' = [todo EXCEPT ![r] = @ \ {s}] /\ UNCHANGED at
     \/ todo[r] = {} /\ Goes(r, "view") /\ UNCHANGED <<held, todo>>
  /\ UNCHANGED <<world, rows, req, code, answer>>

\* The session, its line, and what is open in it.
Opened(r) ==
  /\ at[r] = "view" /\ Free(Log)
  /\ IF Live(draft)
     THEN /\ link' = draft /\ CodeUsed(r)
          /\ sessions' = [SessionsRemoved(HeldSessions(r)) EXCEPT
                            ![r] = [state |-> "open", device |-> draft.device, had |-> FALSE]]
          /\ jar' = IF made.oneDevice THEN [jar EXCEPT ![req[r].browser] = draft.device] ELSE jar
          /\ LineWritten(r) /\ Answered(r, "opened") /\ UNCHANGED draft
     ELSE Undone(r, "gone")
  /\ UNCHANGED <<world, req>>

-----------------------------------------------------------------------------
\* GET /shared/documents/:id/content, in a session: inSession around
\* sessionContent.
SessionOver(s) == sessions[s].state = "lapsed" \/ over
WhyGone == IF Live(link) THEN "session ended" ELSE "gone"

Fetch(r, b, s) ==
  /\ Arrives(r, b, s, FALSE)
  /\ sessions[s].state # "none"
  /\ \/ sessions[s].state = "ended" /\ Undone(r, WhyGone)
     \/ /\ sessions[s].state # "ended" /\ SessionOver(s)
        /\ Goes(r, "dropSession") /\ UNCHANGED <<hands, rows>>
     \/ /\ sessions[s].state = "open" /\ ~over /\ ~Live(link)
        /\ Goes(r, "dropLink") /\ UNCHANGED <<hands, rows>>
     \/ /\ sessions[s].state = "open" /\ Live(link) /\ OtherDevice(sessions[s].device, b)
        /\ Undone(r, "other device")
     \/ /\ sessions[s].state = "open" /\ Live(link) /\ ~OtherDevice(sessions[s].device, b)
        /\ Goes(r, "touch") /\ UNCHANGED <<hands, rows>>
  /\ UNCHANGED world

\* end(): the session is removed, and what was asked is undone.
SessionEnds(r, a) ==
  /\ sessions' = SessionsRemoved({req[r].names})
  /\ Answered(r, a) /\ DraftDropped(r) /\ UNCHANGED <<link, codes, jar, log>>
Drop(r) ==
  /\ at[r] \in {"dropSession", "dropLink"} /\ Free(SessionRow(req[r].names))
  /\ SessionEnds(r, IF at[r] = "dropLink" THEN "gone" ELSE "session ended")
  /\ UNCHANGED <<world, req>>

\* last_seen_at is written first: from here the session is in use.
Touch(r) ==
  /\ at[r] = "touch" /\ Free(SessionRow(req[r].names))
  /\ IF sessions[req[r].names].state = "ended"
     THEN Undone(r, WhyGone)
     ELSE /\ Take(SessionRow(req[r].names), r) /\ Goes(r, "gives")
          /\ UNCHANGED <<rows, code, todo, answer>>
  /\ UNCHANGED <<world, req>>

Had(s) == sessions[s].had

\* The first download of a session is counted, the rest are free.
Gives(r) ==
  /\ at[r] = "gives"
  /\ IF Live(link)
     THEN /\ Goes(r, IF Had(req[r].names) THEN "finish" ELSE "downRow")
          /\ UNCHANGED <<hands, rows>>
     ELSE SessionEnds(r, "gone")
  /\ UNCHANGED <<world, req>>
CountDownload(r) ==
  /\ at[r] = "downRow" /\ Free(LinkRow)
  /\ \/ /\ ~link.revoked /\ link.tries < MaxTries /\ link.downloads < made.downloads
        /\ draft' = [link EXCEPT !.downloads = @ + 1]
        /\ Take(LinkRow, r) /\ Goes(r, "finish")
        /\ UNCHANGED <<link, codes, sessions, jar, log, code, todo, answer>>
     \/ /\ link.revoked \/ link.tries >= MaxTries \/ link.downloads >= made.downloads
        /\ IF Live(link) THEN Undone(r, "used up") ELSE SessionEnds(r, "gone")
  /\ UNCHANGED <<world, req>>

\* The link is asked after again; ended, all of it is undone.
Finish(r) ==
  /\ at[r] = "finish"
  /\ IF Live(Seen(r))
     THEN /\ sessions' = [sessions EXCEPT ![req[r].names].had = TRUE]
          /\ IF held[LinkRow] = r
             THEN Free(Log) /\ link' = draft /\ LineWritten(r)
             ELSE UNCHANGED <<link, log>>
          /\ Answered(r, "given") /\ UNCHANGED <<draft, codes, jar>>
     ELSE SessionEnds(r, "gone")
  /\ UNCHANGED <<world, req>>

-----------------------------------------------------------------------------
\* POST /shared/code.
SendCode(r, b) ==
  /\ Arrives(r, b, None, FALSE)
  /\ \/ ~Live(link) /\ Undone(r, "gone")
     \/ Live(link) /\ UsedUp(link) /\ Undone(r, "used up")
     \/ Live(link) /\ ~UsedUp(link) /\ ~link.address /\ Undone(r, "no code")
     \/ Live(link) /\ ~UsedUp(link) /\ link.address /\ OtherDevice(link.device, b)
        /\ Undone(r, "other device")
     \/ Live(link) /\ ~UsedUp(link) /\ link.address /\ ~OtherDevice(link.device, b)
        /\ Goes(r, "send") /\ UNCHANGED <<hands, rows>>
  /\ UNCHANGED world

Sent == {c \in Reqs : codes[c].state # "none"}

SendFree == Free(SendLock)
EarlierCodes == {c \in Reqs : codes[c].state = "live"}

\* One send at a time for the link: the second counts the first.
CountSends(r) ==
  /\ at[r] = "send" /\ SendFree
  /\ IF Cardinality(Sent) >= Sends
     THEN Undone(r, "limit")
     ELSE /\ Take(SendLock, r) /\ Goes(r, "endCodes")
          /\ todo' = [todo EXCEPT ![r] = EarlierCodes]
          /\ UNCHANGED <<rows, code, answer>>
  /\ UNCHANGED <<world, req>>

\* Only the newest code works: those before it end, once nobody has their rows.
EndCodes(r) ==
  /\ at[r] = "endCodes"
  /\ \/ \E c \in todo[r] : /\ Free(CodeRow(c)) /\ todo' = [todo EXCEPT ![r] = @ \ {c}]
                           /\ IF codes[c].state = "live" THEN Take(CodeRow(c), r) ELSE UNCHANGED held
                           /\ UNCHANGED at
     \/ todo[r] = {} /\ Goes(r, "sendLine") /\ UNCHANGED <<held, todo>>
  /\ UNCHANGED <<world, rows, req, code, answer>>

\* Its line, which takes the log; then the link is asked after again.
SendLine(r) ==
  /\ at[r] = "sendLine" /\ Free(Log)
  /\ Take(Log, r) /\ Goes(r, "mail")
  /\ UNCHANGED <<world, rows, req, code, todo, answer>>

StillLive == Live(link)

Mail(r) ==
  /\ at[r] = "mail" /\ StillLive
  /\ codes' = [c \in Reqs |-> IF c = r THEN [state |-> "live", tries |-> 0]
                               ELSE IF held[CodeRow(c)] = r THEN [codes[c] EXCEPT !.state = "ended"]
                               ELSE codes[c]]
  /\ LineWritten(r) /\ Answered(r, "sent")
  /\ UNCHANGED <<world, link, draft, sessions, jar, req>>
NotMailed(r) ==
  /\ at[r] = "mail"
  /\ Undone(r, IF Live(link) THEN "not sent" ELSE "gone")
  /\ UNCHANGED <<world, req>>

-----------------------------------------------------------------------------
\* POST /shares/:id/revoke.
Revoke(r) ==
  /\ at[r] = "idle" /\ Goes(r, "revokeRow")
  /\ UNCHANGED <<world, rows, hands, req>>
RevokeRow(r) ==
  /\ at[r] = "revokeRow" /\ Free(LinkRow)
  /\ IF link.revoked
     THEN Undone(r, "gone")
     ELSE /\ draft' = Written([link EXCEPT !.revoked = TRUE])
          /\ Take(LinkRow, r) /\ Goes(r, "endSessions")
          /\ UNCHANGED <<link, codes, sessions, jar, log, code, todo, answer>>
  /\ UNCHANGED <<world, req>>
RevokeSessions(r) ==
  /\ at[r] = "endSessions" /\ EndSessions(r, "revokeLine")
  /\ UNCHANGED <<world, rows, req, code, todo, answer>>
Revoked(r) ==
  /\ at[r] = "revokeLine" /\ Free(Log)
  /\ link' = draft /\ sessions' = SessionsRemoved(HeldSessions(r))
  /\ LineWritten(r) /\ Answered(r, "revoked")
  /\ UNCHANGED <<world, draft, codes, jar, req>>

-----------------------------------------------------------------------------
\* The document in the Trash or out of it, its maker suspended or not: no row
\* of the link's is held for it.
Lend ==
  /\ lent' = ~lent /\ UNCHANGED <<made, over, rows, hands, at, req>>
Expire ==
  /\ ~over /\ over' = TRUE /\ UNCHANGED <<made, lent, rows, hands, at, req>>
SessionLapses(s) ==
  /\ sessions[s].state = "open"
  /\ sessions' = [sessions EXCEPT ![s].state = "lapsed"]
  /\ UNCHANGED <<world, link, draft, codes, jar, log, hands, at, req>>
CodeLapses(c) ==
  /\ codes[c].state = "live"
  /\ codes' = [codes EXCEPT ![c].state = "ended"]
  /\ UNCHANGED <<world, link, draft, sessions, jar, log, hands, at, req>>

\* The lock each request is waiting for, and who waits for whom: PostgreSQL
\* ends one of those that wait in a circle.
Wants(r) ==
  CASE at[r] = "codeRow" -> {CodeRow(code[r])}
    [] at[r] \in {"tryRow", "bindRow", "countRow", "downRow", "revokeRow"} -> {LinkRow}
    [] at[r] \in {"dropSession", "dropLink", "touch"} -> {SessionRow(req[r].names)}
    [] at[r] = "endSessions" \/ (at[r] = "check" /\ LastTry(draft)) ->
         {SessionRow(s) : s \in ToEnd}
    [] at[r] = "clear" -> {SessionRow(s) : s \in todo[r]}
    [] at[r] = "endCodes" -> {CodeRow(c) : c \in todo[r]}
    [] at[r] = "send" -> {SendLock}
    [] at[r] \in {"lockLine", "view", "revokeLine", "sendLine"} -> {Log}
    [] OTHER -> {}
WaitsFor(r) == {held[l] : l \in Wants(r)} \ {None, r}
Circle(S) == S = UNION {WaitsFor(r) : r \in S} /\ \A r \in S : WaitsFor(r) # {}
Fail(r) ==
  /\ \E S \in SUBSET Reqs : r \in S /\ Circle(S)
  /\ Undone(r, "failed")
  /\ UNCHANGED <<world, req>>

\* Every request has been answered.
Quiet == (\A r \in Reqs : at[r] = "done") /\ UNCHANGED vars

Init ==
  /\ made \in Links
  /\ link = [revoked |-> FALSE, tries |-> 0, opens |-> 0, downloads |-> 0,
             device |-> None, address |-> made.code]
  /\ draft = link
  /\ lent = TRUE /\ over = FALSE
  /\ codes = [r \in Reqs |-> [state |-> "none", tries |-> 0]]
  /\ sessions = [r \in Reqs |-> [state |-> "none", device |-> None, had |-> FALSE]]
  /\ jar = [b \in Browsers |-> None]
  /\ held = [l \in Locks |-> None]
  /\ at = [r \in Reqs |-> "idle"]
  /\ req = [r \in Reqs |-> NoReq]
  /\ code = [r \in Reqs |-> None]
  /\ todo = [r \in Reqs |-> {}]
  /\ answer = [r \in Reqs |-> "none"]
  /\ log = <<>>

Step(r) ==
  \/ \E b \in Browsers, n \in Reqs \union {None}, right \in BOOLEAN : Open(r, b, n, right)
  \/ TakeCode(r) \/ AskTry(r) \/ Reserve(r) \/ Right(r) \/ Wrong(r) \/ Lock(r) \/ Locked(r)
  \/ AskBind(r) \/ Bind(r) \/ AskCount(r) \/ CountOpen(r) \/ Clear(r) \/ Opened(r)
  \/ \E b \in Browsers, s \in Reqs : Fetch(r, b, s)
  \/ Drop(r) \/ Touch(r) \/ Gives(r) \/ CountDownload(r) \/ Finish(r)
  \/ \E b \in Browsers : SendCode(r, b)
  \/ CountSends(r) \/ EndCodes(r) \/ SendLine(r) \/ Mail(r) \/ NotMailed(r)
  \/ Revoke(r) \/ RevokeRow(r) \/ RevokeSessions(r) \/ Revoked(r)
  \/ Fail(r)
Next ==
  \/ \E r \in Reqs : Step(r) \/ SessionLapses(r) \/ CodeLapses(r)
  \/ Lend \/ Expire
  \/ Quiet
Spec == Init /\ [][Next]_vars

-----------------------------------------------------------------------------
\* The types.
TypeOK ==
  /\ made \in Links /\ link \in Rows /\ draft \in Rows /\ lent \in BOOLEAN /\ over \in BOOLEAN
  /\ codes \in [Reqs -> Codes] /\ sessions \in [Reqs -> Sessions]
  /\ jar \in [Browsers -> Reqs \union {None}]
  /\ held \in [Locks -> Reqs \union {None}]
  /\ at \in [Reqs -> Steps] /\ req \in [Reqs -> Requests] /\ answer \in [Reqs -> Answers]
  /\ code \in [Reqs -> Reqs \union {None}] /\ todo \in [Reqs -> SUBSET Reqs]
  /\ log \in Seq(Reqs)

Ended(l) == l.revoked \/ l.tries >= MaxTries \/ UsedUp(l)
Got(a) == {r \in Reqs : answer[r] = a}

\* The steps at which a request holds the link's row, and those at which it may.
Holding == {"check", "lockLine", "clear", "view", "endSessions", "revokeLine"}
MayHold == Holding \union {"count", "countRow", "finish"}
InSession == {"gives", "downRow", "finish"}
Fetching == InSession \union {"touch", "dropSession", "dropLink"}

\* What the holder's draft adds to what is committed.
Drafted(r) ==
  /\ draft.tries = IF at[r] \in {"check", "lockLine"} THEN link.tries + 1 ELSE link.tries
  /\ draft.opens = IF at[r] \in {"clear", "view"} THEN link.opens + 1 ELSE link.opens
  /\ draft.downloads = IF at[r] = "finish" THEN link.downloads + 1 ELSE link.downloads

\* One request: the row it has and what it wrote there; the session its Open
\* made; the session it is in, which no other request is in.
Local(r) ==
  /\ held[LinkRow] = r => at[r] \in MayHold /\ Drafted(r)
  /\ at[r] \in Holding => held[LinkRow] = r
  /\ at[r] = "lockLine" => draft.tries >= MaxTries
  /\ at[r] # "done" => sessions[r].state = "none"
  /\ sessions[r].state = "none" => ~sessions[r].had
  /\ at[r] \in Fetching => req[r].names \in Reqs /\ sessions[req[r].names].state # "none"
  /\ \A s \in Reqs : held[SessionRow(s)] = r => sessions[s].state # "none"
  /\ at[r] = "clear" => \A s \in todo[r] : sessions[s].state # "none"
  /\ at[r] \in InSession => held[SessionRow(req[r].names)] = r
  /\ at[r] = "downRow" => ~sessions[req[r].names].had
  /\ at[r] = "finish" => (sessions[req[r].names].had <=> held[LinkRow] # r)
  /\ answer[r] = "none" <=> at[r] # "done"

\* Within the limits, with the address while the link has not ended.
Within(l) ==
  /\ l.tries <= MaxTries /\ l.opens <= made.opens /\ l.downloads <= made.downloads
  /\ l.address <=> made.code /\ ~Ended(l)
RowInv == (held[LinkRow] = None => draft = link) /\ Within(link) /\ Within(draft)

Wrongs == Got("wrong") \union Got("locked")
Downloaded == {s \in Reqs : sessions[s].had}
CountInv ==
  /\ IsFiniteSet(Got("opened")) /\ link.opens = Cardinality(Got("opened"))
  /\ IsFiniteSet(Wrongs) /\ link.tries = Cardinality(Wrongs)
  /\ IsFiniteSet(Got("locked"))
  /\ Cardinality(Got("locked")) = IF link.tries = MaxTries THEN 1 ELSE 0
  /\ IsFiniteSet(Downloaded) /\ link.downloads = Cardinality(Downloaded)

\* What is on the row is what was answered, a draft is one request's own, and
\* what a fetch read of its session still holds: the inductive invariant.
LinkInv == TypeOK /\ RowInv /\ (\A r \in Reqs : Local(r)) /\ CountInv

\* Two Opens that read the link with one open left are not both let in: what
\* is answered "opened" is what the row counts, and never more than its limit
\* (countOpen).
EveryOpenCounted ==
  /\ link.opens = Cardinality(Got("opened"))
  /\ link.opens <= made.opens

\* Tries sent together are each counted: the link's wrong answers are its
\* tries, they stop at the limit, and it locks once (tryFactors, refuse).
TenTries ==
  /\ link.tries = Cardinality(Got("wrong") \union Got("locked"))
  /\ link.tries <= MaxTries
  /\ Cardinality(Got("locked")) = IF link.tries = MaxTries THEN 1 ELSE 0

\* A session takes one download of the link's, whatever it asks for and
\* however often, and an undone answer takes none (sessionContent, inSession).
DownloadsCountedOnce ==
  /\ link.downloads = Cardinality({s \in Reqs : sessions[s].had})
  /\ link.downloads <= made.downloads

\* Whatever is sent at once, the link gives what it counts and no more: Opens,
\* tries of a PIN or a code, downloads.
LimitsKept == EveryOpenCounted /\ TenTries /\ DownloadsCountedOnce

\* A link for one device has let one browser in, whichever of two that opened
\* it at once came first (unlock's binding, otherDevice).
OneBrowser ==
  made.oneDevice =>
    \A r, q \in Got("opened") \union Got("given") : req[r].browser = req[q].browser

\* A code opens a link once: whatever was let in with it used it, and no two
\* Opens are let in with the same one; nor do Opens sent together try it more
\* often than it may be (tryFactors, unlock).
CodeOpensOnce ==
  /\ \A c \in Reqs : codes[c].tries <= CodeTries
  /\ made.code =>
       \A r, q \in Got("opened") : /\ codes[req[r].names].state = "used"
                                   /\ req[r].names = req[q].names => r = q

\* For sends that cross too, no more codes are sent than the limit, and a code
\* that works is the last one sent (sendCode).
OnlyNewestCode ==
  /\ Cardinality(Sent) <= Sends
  /\ \A c, d \in Reqs : codes[c].state = "live" /\ codes[d].state # "none" /\ c # d =>
       \E i, j \in DOMAIN log : log[i] = d /\ log[j] = c /\ i < j

\* Once the log says a link was revoked or locked, it says nothing more of it
\* being opened, downloaded or sent a code for; each of the two may follow the
\* other, for a wrong try already made (refuse, revoke, the log's order).
NothingAfterTheEnd ==
  \A i, j \in DOMAIN log :
    i < j => /\ answer[log[i]] = "revoked" => answer[log[j]] = "locked"
             /\ answer[log[i]] = "locked" => answer[log[j]] = "revoked"

\* What the four follow from, besides LinkInv.  The browser a link is bound to
\* is that of the request which bound it: whoever has its cookie, was let in, or
\* is in a session, comes from there.
FromBound(r) == link.device # None /\ req[r].browser = req[link.device].browser
Counting == {"count", "countRow", "clear", "view"}
Bound ==
  /\ link.device # None => at[link.device] # "idle"
  /\ \A r \in Reqs : held[LinkRow] = r =>
       draft.device = link.device \/ (link.device = None /\ draft.device = r)
  /\ made.oneDevice =>
       /\ \A b \in Browsers : jar[b] # None => jar[b] = link.device /\ req[jar[b]].browser = b
       /\ \A r \in Reqs :
            /\ req[r].cookie # None => req[r].cookie = link.device /\ FromBound(r)
            /\ at[r] \in Counting => req[r].cookie # None \/ (held[LinkRow] = r /\ draft.device = r)
            /\ at[r] \in InSession \union {"touch"} \/ answer[r] \in {"opened", "given"} => FromBound(r)
            /\ sessions[r].state # "none" => link.device # None /\ sessions[r].device = link.device

\* Whoever tries a code holds it, sent, untried once too often and not used; what
\* a code let in names it.
Trying == {"try", "tryRow", "check", "lockLine", "device", "bindRow"} \union Counting
Sending == {"endCodes", "sendLine", "mail"}
CodesHeld ==
  /\ \A r, c \in Reqs : code[r] = c =>
       /\ at[r] \in Trying \union {"codeRow"} /\ codes[c].state # "none"
       /\ at[r] # "codeRow" => held[CodeRow(c)] = r /\ codes[c].tries < CodeTries
  /\ \A r, c \in Reqs : held[CodeRow(c)] = r =>
       code[r] = c \/ at[r] \in Sending
  /\ \A c \in Reqs : ~Free(CodeRow(c)) => codes[c].state \in {"live", "ended"}
  /\ \A r \in Reqs :
       /\ at[r] # "done" => codes[r].state = "none"
       /\ made.code /\ at[r] \in {"device", "bindRow"} \union Counting =>
            code[r] # None /\ req[r].names = code[r]
       /\ made.code /\ answer[r] = "opened" => req[r].names \in Reqs

\* Whoever sends a code is alone at it, and ends those that work.
OneSends ==
  /\ IsFiniteSet(Sent)
  /\ \A r \in Reqs : at[r] \in Sending => held[SendLock] = r /\ Cardinality(Sent) < Sends
  /\ \A r \in Reqs : at[r] = "endCodes" =>
       \A c \in Reqs : codes[c].state = "live" => c \in todo[r] \/ held[CodeRow(c)] = r
  /\ \A r \in Reqs : at[r] \in {"sendLine", "mail"} =>
       \A c \in Reqs : codes[c].state = "live" => held[CodeRow(c)] = r
  /\ \A c \in Sent : \E i \in DOMAIN log : log[i] = c

\* What the log says was answered; a link not ended yet has nothing in it of its
\* end, and whoever writes its row writes nothing of that back.
EndsLogged ==
  /\ \A i \in DOMAIN log : at[log[i]] = "done"
  /\ Got("revoked") # {} => link.revoked
  /\ link.revoked => draft.revoked
  /\ \A r \in Reqs : at[r] \in {"endSessions", "revokeLine"} => draft.revoked /\ ~link.revoked

\* All of it at once, Opens, sends of a code and the link's end crossing in any
\* order: one browser, one Open a code, the newest code, nothing after the end;
\* and what the four follow from.
OpensSound ==
  /\ OneBrowser
  /\ CodeOpensOnce
  /\ OnlyNewestCode
  /\ NothingAfterTheEnd
  /\ Bound
  /\ CodesHeld
  /\ OneSends
  /\ EndsLogged

\* The address of a link that asks for a code is there exactly until the link
\* is revoked, locked or used up: whoever ends it clears it in the same
\* statement (share_link_factors_fixed).
AddressWhileLive == link.address <=> made.code /\ ~Ended(link)

\* The order rows are taken in leaves one way to wait in a circle: an Open
\* clearing the lapsed sessions of its link while one of them is in use
\* (share-sessions.ts, which skips the rows in use; unlock, which does not).
OnlyLapsedSessionsClash ==
  \A S \in (SUBSET Reqs) \ {{}} : Circle(S) => \E r \in S : at[r] = "clear"
=============================================================================
