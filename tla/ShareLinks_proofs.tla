-------------------------- MODULE ShareLinks_proofs --------------------------
(***************************************************************************)
(* Theorems about ShareLinks, for any number of requests, any limits and   *)
(* any protection: what is counted on a link's row is what was answered;   *)
(* opens, codes and a link's end are sound in any order; and who may wait  *)
(* for whom.                                                               *)
(***************************************************************************)
EXTENDS ShareLinks, FiniteSetTheorems, TLAPS

LEMMA LocksDiffer ==
  /\ LinkRow \in Locks /\ Log \in Locks /\ SendLock \in Locks
  /\ \A r \in Reqs : CodeRow(r) \in Locks /\ SessionRow(r) \in Locks
  /\ LinkRow[1] = "link" /\ Log[1] = "log" /\ SendLock[1] = "send"
  /\ \A r : CodeRow(r)[1] = "code" /\ SessionRow(r)[1] = "session" /\ SessionRow(r)[2] = r
  /\ LinkRow # Log /\ LinkRow # SendLock /\ Log # SendLock
  /\ \A r : LinkRow # CodeRow(r) /\ LinkRow # SessionRow(r)
  /\ \A r, q : CodeRow(r) # SessionRow(q)
  /\ \A r : Log # SessionRow(r) /\ SendLock # SessionRow(r)
  /\ \A r, q \in Reqs : SessionRow(r) = SessionRow(q) => r = q
BY DEF Locks, LinkRow, Log, SendLock, CodeRow, SessionRow

LEMMA InitInv == Init => LinkInv
<1> SUFFICES ASSUME Init PROVE LinkInv
  OBVIOUS
<1>1. made \in Made
  BY LinksAssumption DEF Init
<1>2. link \in Rows /\ draft \in Rows
  BY <1>1 DEF Init, Rows, Made
<1>3. /\ codes \in [Reqs -> Codes] /\ sessions \in [Reqs -> Sessions]
      /\ at \in [Reqs -> Steps] /\ req \in [Reqs -> Requests] /\ answer \in [Reqs -> Answers]
  BY DEF Init, Codes, Sessions, Steps, Requests, NoReq, Answers
<1>4. log \in Seq(Reqs) /\ jar \in [Browsers -> Reqs \union {None}]
      /\ held \in [Locks -> Reqs \union {None}] /\ code \in [Reqs -> Reqs \union {None}]
      /\ todo \in [Reqs -> SUBSET Reqs]
  BY DEF Init
<1>5. TypeOK
  BY <1>2, <1>3, <1>4 DEF Init, TypeOK
<1>6. \A r \in Reqs : Local(r)
  BY LinksAssumption, LocksDiffer DEF Init, Local, Holding, MayHold, InSession, Fetching
<1>7. RowInv
  BY <1>1, LinksAssumption DEF Init, RowInv, Within, Ended, UsedUp, Made
<1>8. Got("opened") = {} /\ Wrongs = {} /\ Got("locked") = {} /\ Downloaded = {}
  BY DEF Init, Got, Wrongs, Downloaded
<1>9. CountInv
  BY <1>8, FS_EmptySet, LinksAssumption DEF Init, CountInv
<1> QED
  BY <1>5, <1>6, <1>7, <1>9 DEF LinkInv

-----------------------------------------------------------------------------
\* What a step by one request leaves of what holds of the others.
LEMMA OthersKeep ==
  ASSUME LinkInv, NEW r \in Reqs, NEW q \in Reqs, q # r, at[r] # "done",
         at'[q] = at[q], answer'[q] = answer[q], req'[q] = req[q], todo'[q] = todo[q],
         \A s \in Reqs : sessions[s].state # "none" => sessions'[s].state # "none",
         held'[LinkRow] = q <=> held[LinkRow] = q,
         held[LinkRow] = q => link' = link /\ draft' = draft,
         \A s \in Reqs : held'[SessionRow(s)] = q <=> held[SessionRow(s)] = q,
         \A s \in Reqs : held[SessionRow(s)] = q => sessions'[s].had = sessions[s].had,
         at[q] # "done" => sessions'[q].state = "none",
         sessions'[q].state = "none" => ~sessions'[q].had
  PROVE  Local(q)'
<1>1. Local(q) /\ q # None
  BY LinksAssumption DEF LinkInv
<1>2. held[LinkRow] = q => Drafted(q)'
  BY <1>1 DEF Local, Drafted
<1>3. at[q] \in InSession => held[SessionRow(req[q].names)] = q /\ req[q].names \in Reqs
  BY <1>1 DEF Local, Fetching
<1>4. at[q] \in Fetching => req[q].names \in Reqs
  BY <1>1 DEF Local
<1>5. todo[q] \subseteq Reqs
  BY DEF LinkInv, TypeOK
<1> QED
  BY <1>1, <1>2, <1>3, <1>4, <1>5 DEF Local, InSession, Fetching, Holding

\* How the counts stand when nothing counted is answered.
LEMMA CountsKeep ==
  ASSUME LinkInv, NEW r \in Reqs,
         \A q \in Reqs \ {r} : answer'[q] = answer[q],
         answer'[r] = answer[r] \/ (answer[r] = "none" /\ answer'[r] \notin {"opened", "wrong", "locked"}),
         link'.tries = link.tries, link'.opens = link.opens, link'.downloads = link.downloads,
         \A s \in Reqs : sessions'[s].had = sessions[s].had
  PROVE  CountInv'
<1>1. Got("opened")' = Got("opened") /\ Wrongs' = Wrongs /\ Got("locked")' = Got("locked")
  BY DEF Got, Wrongs
<1>2. Downloaded' = Downloaded
  BY DEF Downloaded
<1> QED
  BY <1>1, <1>2 DEF LinkInv, CountInv
\* Sessions that end, or lapse: none appears and none is counted again.
SessionsKept ==
  /\ sessions' \in [Reqs -> Sessions]
  /\ \A s \in Reqs : sessions'[s].had = sessions[s].had
  /\ \A s \in Reqs : sessions'[s].state = "none" <=> sessions[s].state = "none"

LEMMA AnsweredTyped ==
  ASSUME TypeOK, NEW r \in Reqs, NEW a \in Answers, Answered(r, a)
  PROVE  /\ at' \in [Reqs -> Steps] /\ answer' \in [Reqs -> Answers]
         /\ held' \in [Locks -> Reqs \union {None}] /\ code' \in [Reqs -> Reqs \union {None}]
         /\ todo' \in [Reqs -> SUBSET Reqs]
         /\ at'[r] = "done" /\ answer'[r] = a
         /\ \A q \in Reqs \ {r} : at'[q] = at[q] /\ answer'[q] = answer[q] /\ todo'[q] = todo[q]
         /\ \A l \in Locks : held'[l] = IF held[l] = r THEN None ELSE held[l]
BY DEF TypeOK, Answered, Goes, Steps

\* A request is answered, and the link's row is as it was.
LEMMA Refusal ==
  ASSUME LinkInv, NEW r \in Reqs, NEW a \in Answers \ {"none", "opened", "wrong", "locked"},
         at[r] # "done", Answered(r, a), DraftDropped(r), SessionsKept,
         UNCHANGED <<made, link>>, lent' \in BOOLEAN, over' \in BOOLEAN,
         codes' \in [Reqs -> Codes], jar' \in [Browsers -> Reqs \union {None}], log' \in Seq(Reqs),
         req' \in [Reqs -> Requests], \A q \in Reqs \ {r} : req'[q] = req[q]
  PROVE  LinkInv'
<1>1. /\ at' \in [Reqs -> Steps] /\ answer' \in [Reqs -> Answers]
      /\ held' \in [Locks -> Reqs \union {None}] /\ code' \in [Reqs -> Reqs \union {None}]
      /\ todo' \in [Reqs -> SUBSET Reqs]
      /\ at'[r] = "done" /\ answer'[r] = a
      /\ \A q \in Reqs \ {r} : at'[q] = at[q] /\ answer'[q] = answer[q] /\ todo'[q] = todo[q]
      /\ \A l \in Locks : held'[l] = IF held[l] = r THEN None ELSE held[l]
  BY AnsweredTyped DEF LinkInv
<1>2. draft' = IF held[LinkRow] = r THEN link ELSE draft
  BY DEF DraftDropped
<1>3. TypeOK'
  BY <1>1, <1>2 DEF LinkInv, TypeOK, SessionsKept
<1>4. RowInv'
  BY <1>1, <1>2, LocksDiffer DEF LinkInv, RowInv, Within, Ended, UsedUp
<1>5. \A q \in Reqs \ {r} : Local(q)'
  <2> SUFFICES ASSUME NEW q \in Reqs \ {r} PROVE Local(q)'
    OBVIOUS
  <2>1. Local(q) /\ q # None /\ r # None
    BY LinksAssumption DEF LinkInv
  <2>2. \A s \in Reqs : sessions[s].state # "none" => sessions'[s].state # "none"
    BY DEF SessionsKept
  <2>3. held'[LinkRow] = q <=> held[LinkRow] = q
    BY <1>1, <2>1, LocksDiffer
  <2>4. /\ \A s \in Reqs : held'[SessionRow(s)] = q <=> held[SessionRow(s)] = q
        /\ \A s \in Reqs : held[SessionRow(s)] = q => sessions'[s].had = sessions[s].had
    <3>1. \A s \in Reqs : SessionRow(s) \in Locks
      BY LocksDiffer
    <3> QED
      BY <1>1, <2>1, <3>1 DEF SessionsKept
  <2>5. /\ at[q] # "done" => sessions'[q].state = "none"
        /\ sessions'[q].state = "none" => ~sessions'[q].had
    BY <2>1 DEF Local, SessionsKept
  <2>6. held[LinkRow] = q => link' = link /\ draft' = draft
    BY <1>2, <2>1
  <2> QED
    BY OthersKeep, <1>1, <2>2, <2>3, <2>4, <2>5, <2>6
<1>6. Local(r)'
  <2>1. Local(r) /\ r # None
    BY LinksAssumption DEF LinkInv
  <2>2. held'[LinkRow] # r /\ \A s \in Reqs : held'[SessionRow(s)] # r
    BY <1>1, <2>1, LocksDiffer
  <2> QED
    BY <1>1, <2>1, <2>2 DEF Local, SessionsKept, Holding, InSession, Fetching
<1>7. CountInv'
  <2>1. answer[r] = "none"
    BY DEF LinkInv, Local
  <2> QED
    BY CountsKeep, <1>1, <2>1 DEF SessionsKept
<1> QED
  BY <1>3, <1>4, <1>5, <1>6, <1>7 DEF LinkInv

\* A request goes on to another step: it may take the link's row, write it,
\* or let it go as it was.
LEMMA Moving ==
  ASSUME LinkInv, NEW r \in Reqs, NEW x \in Steps \ {"done"},
         at[r] # "done", Goes(r, x), UNCHANGED <<made, link, lent, over, sessions, codes, jar, log, answer>>,
         draft' \in Rows, Within(draft)', held' \in [Locks -> Reqs \union {None}],
         held[LinkRow] \notin {None, r} => held'[LinkRow] = held[LinkRow] /\ draft' = draft,
         held'[LinkRow] = None => draft' = link,
         held[LinkRow] \in {None, r} => held'[LinkRow] \in {None, r},
         \A s \in Reqs : \/ held'[SessionRow(s)] = held[SessionRow(s)]
                         \/ held[SessionRow(s)] \in {None, r} /\ held'[SessionRow(s)] \in {None, r},
         code' \in [Reqs -> Reqs \union {None}], todo' \in [Reqs -> SUBSET Reqs],
         req' \in [Reqs -> Requests],
         \A q \in Reqs \ {r} : req'[q] = req[q] /\ todo'[q] = todo[q],
         Local(r)'
  PROVE  LinkInv'
<1>1. /\ at' \in [Reqs -> Steps]
      /\ at'[r] = x
      /\ \A q \in Reqs \ {r} : at'[q] = at[q]
  BY DEF LinkInv, TypeOK, Goes
<1>2. TypeOK'
  BY <1>1 DEF LinkInv, TypeOK
<1>3. RowInv'
  BY DEF LinkInv, RowInv, Within, Ended, UsedUp
<1>4. \A q \in Reqs \ {r} : Local(q)'
  <2> SUFFICES ASSUME NEW q \in Reqs \ {r} PROVE Local(q)'
    OBVIOUS
  <2>1. Local(q) /\ q # None /\ r # None
    BY LinksAssumption DEF LinkInv
  <2>2. \A s \in Reqs : sessions[s].state # "none" => sessions'[s].state # "none"
    OBVIOUS
  <2>3. held'[LinkRow] = q <=> held[LinkRow] = q
    BY <2>1
  <2>4. /\ \A s \in Reqs : held'[SessionRow(s)] = q <=> held[SessionRow(s)] = q
        /\ \A s \in Reqs : held[SessionRow(s)] = q => sessions'[s].had = sessions[s].had
    BY <2>1
  <2>5. /\ at[q] # "done" => sessions'[q].state = "none"
        /\ sessions'[q].state = "none" => ~sessions'[q].had
    BY <2>1 DEF Local
  <2>6. held[LinkRow] = q => link' = link /\ draft' = draft
    BY <2>1
  <2> QED
    BY OthersKeep, <1>1, <2>2, <2>3, <2>4, <2>5, <2>6
<1>5. CountInv'
  BY CountsKeep
<1> QED
  BY <1>2, <1>3, <1>4, <1>5 DEF LinkInv

\* A request commits what it wrote on the link's row, and is answered.
LEMMA Committing ==
  ASSUME LinkInv, NEW r \in Reqs, NEW a \in Answers \ {"none"},
         held[LinkRow] = r, Answered(r, a), link' = draft, UNCHANGED <<made, draft, lent, over, req>>,
         codes' \in [Reqs -> Codes], jar' \in [Browsers -> Reqs \union {None}], log' \in Seq(Reqs),
         sessions' \in [Reqs -> Sessions],
         \A s \in Reqs \ {r} : sessions'[s].state = "none" <=> sessions[s].state = "none",
         \A s \in Reqs : held[SessionRow(s)] # r => sessions'[s].had = sessions[s].had,
         \A s \in Reqs : sessions'[s].had => sessions'[s].state # "none",
         CountInv'
  PROVE  LinkInv'
<1>1. /\ at' \in [Reqs -> Steps] /\ answer' \in [Reqs -> Answers]
      /\ held' \in [Locks -> Reqs \union {None}] /\ code' \in [Reqs -> Reqs \union {None}]
      /\ todo' \in [Reqs -> SUBSET Reqs]
      /\ at'[r] = "done" /\ answer'[r] = a
      /\ \A q \in Reqs \ {r} : at'[q] = at[q] /\ answer'[q] = answer[q] /\ todo'[q] = todo[q]
      /\ \A l \in Locks : held'[l] = IF held[l] = r THEN None ELSE held[l]
  BY AnsweredTyped DEF LinkInv
<1>2. held'[LinkRow] = None /\ r # None
  BY <1>1, LocksDiffer, LinksAssumption
<1>3. TypeOK'
  BY <1>1 DEF LinkInv, TypeOK
<1>4. RowInv'
  BY <1>2 DEF LinkInv, RowInv, Within, Ended, UsedUp
<1>5. at[r] # "done"
  BY DEF LinkInv, Local, Holding, MayHold
<1>6. \A q \in Reqs \ {r} : Local(q)'
  <2> SUFFICES ASSUME NEW q \in Reqs \ {r} PROVE Local(q)'
    OBVIOUS
  <2>1. Local(q) /\ q # None
    BY LinksAssumption DEF LinkInv
  <2>2. \A s \in Reqs : sessions[s].state # "none" => sessions'[s].state # "none"
    BY <1>5 DEF LinkInv, Local
  <2>3. ~(held'[LinkRow] = q) /\ ~(held[LinkRow] = q)
    BY <1>2, <2>1
  <2>4. /\ \A s \in Reqs : held'[SessionRow(s)] = q <=> held[SessionRow(s)] = q
        /\ \A s \in Reqs : held[SessionRow(s)] = q => sessions'[s].had = sessions[s].had
    <3>1. \A s \in Reqs : SessionRow(s) \in Locks
      BY LocksDiffer
    <3> QED
      BY <1>1, <2>1, <3>1
  <2>5. /\ at[q] # "done" => sessions'[q].state = "none"
        /\ sessions'[q].state = "none" => ~sessions'[q].had
    BY <2>1 DEF Local
  <2> QED
    BY OthersKeep, <1>1, <1>5, <2>2, <2>3, <2>4, <2>5
<1>7. Local(r)'
  <2>1. \A s \in Reqs : held'[SessionRow(s)] # r
    BY <1>1, <1>2, LocksDiffer
  <2> QED
    BY <1>1, <1>2, <2>1 DEF Local, Holding, InSession, Fetching
<1> QED
  BY <1>3, <1>4, <1>6, <1>7 DEF LinkInv
-----------------------------------------------------------------------------
\* A step that leaves what everybody wrote as it is, at which no row is held
\* that has to be accounted for.
Plain == Steps \ (Holding \union Fetching \union {"done"})

LEMMA UndoneInv ==
  ASSUME LinkInv, NEW r \in Reqs, NEW a \in Answers \ {"none", "opened", "wrong", "locked"},
         at[r] # "done", Undone(r, a), UNCHANGED world,
         req' \in [Reqs -> Requests], \A q \in Reqs \ {r} : req'[q] = req[q]
  PROVE  LinkInv'
<1>1. SessionsKept
  BY DEF LinkInv, TypeOK, Undone, SessionsKept
<1> QED
  BY <1>1, Refusal DEF LinkInv, TypeOK, Undone, world

\* A request that holds nothing of the link's row goes on to a plain step.
LEMMA GoesPlain ==
  ASSUME LinkInv, NEW r \in Reqs, NEW x \in Plain, at[r] # "done", held[LinkRow] # r,
         Goes(r, x), UNCHANGED <<world, rows, answer>>,
         held' \in [Locks -> Reqs \union {None}], held'[LinkRow] = held[LinkRow],
         \A s \in Reqs : held'[SessionRow(s)] = held[SessionRow(s)],
         code' \in [Reqs -> Reqs \union {None}], todo' \in [Reqs -> SUBSET Reqs],
         req' \in [Reqs -> Requests],
         \A q \in Reqs \ {r} : req'[q] = req[q] /\ todo'[q] = todo[q]
  PROVE  LinkInv'
<1>1. at'[r] = x
  BY DEF LinkInv, TypeOK, Goes
<1>2. Local(r)'
  BY <1>1 DEF LinkInv, Local, Plain, Holding, InSession, Fetching, rows
<1>3. Within(draft)' /\ draft' \in Rows /\ (held'[LinkRow] = None => draft' = link)
  BY DEF LinkInv, RowInv, TypeOK, Within, Ended, UsedUp, rows, world
<1>4. UNCHANGED <<made, link, lent, over, sessions, codes, jar, log, answer>>
  BY DEF rows, world
<1>5. x \in Steps \ {"done"}
  BY DEF Plain
<1>6. /\ held[LinkRow] \notin {None, r} => held'[LinkRow] = held[LinkRow] /\ draft' = draft
      /\ held[LinkRow] \in {None, r} => held'[LinkRow] \in {None, r}
      /\ \A s \in Reqs : \/ held'[SessionRow(s)] = held[SessionRow(s)]
                         \/ held[SessionRow(s)] \in {None, r} /\ held'[SessionRow(s)] \in {None, r}
  BY DEF rows
<1> QED
  BY <1>2, <1>3, <1>4, <1>5, <1>6, Moving

LEMMA IdleHoldsNothing ==
  ASSUME LinkInv, NEW r \in Reqs, at[r] \notin MayHold PROVE held[LinkRow] # r
BY DEF LinkInv, Local

LEMMA ArrivesTyped ==
  ASSUME LinkInv, NEW r \in Reqs, NEW b \in Browsers, NEW n \in Reqs \union {None},
         NEW right \in BOOLEAN, Arrives(r, b, n, right)
  PROVE  /\ at[r] = "idle" /\ held[LinkRow] # r
         /\ req' \in [Reqs -> Requests] /\ \A q \in Reqs \ {r} : req'[q] = req[q]
         /\ req'[r].names = n
<1>1. at[r] = "idle"
  BY DEF Arrives
<1>2. req' \in [Reqs -> Requests] /\ \A q \in Reqs \ {r} : req'[q] = req[q]
  BY DEF Arrives, LinkInv, TypeOK, Requests
<1>3. req'[r].names = n
  BY DEF Arrives, LinkInv, TypeOK
<1> QED
  BY <1>1, <1>2, <1>3, IdleHoldsNothing DEF MayHold, Holding

LEMMA OpenInv ==
  ASSUME LinkInv, NEW r \in Reqs, NEW b \in Browsers, NEW n \in Reqs \union {None},
         NEW right \in BOOLEAN, Open(r, b, n, right)
  PROVE  LinkInv'
<1>0. Arrives(r, b, n, right)
  BY DEF Open
<1>1. /\ at[r] = "idle" /\ held[LinkRow] # r
      /\ req' \in [Reqs -> Requests] /\ \A q \in Reqs \ {r} : req'[q] = req[q]
  BY <1>0, ArrivesTyped
<1>2. UNCHANGED world
  BY DEF Open
<1>3. ASSUME NEW a \in {"gone", "used up", "other device"}, Undone(r, a) PROVE LinkInv'
  BY <1>1, <1>2, <1>3, UndoneInv DEF Answers
<1>4. ASSUME NEW x \in {"device", "count", "try", "codeRow"}, Goes(r, x),
             UNCHANGED <<rows, held, todo, answer>>, code' \in [Reqs -> Reqs \union {None}]
      PROVE  LinkInv'
  BY <1>1, <1>2, <1>4, GoesPlain DEF Plain, Steps, Holding, InSession, Fetching, LinkInv, TypeOK
<1> QED
  BY <1>3, <1>4 DEF Open, AfterFactors, LinkInv, TypeOK

LEMMA TakeCodeInv == ASSUME LinkInv, NEW r \in Reqs, TakeCode(r) PROVE LinkInv'
<1>1. at[r] = "codeRow" /\ held[LinkRow] # r
  BY IdleHoldsNothing DEF TakeCode, MayHold, Holding
<1>2. held' \in [Locks -> Reqs \union {None}] /\ code' \in [Reqs -> Reqs \union {None}]
  BY DEF TakeCode, Take, LinkInv, TypeOK
<1>3. held'[LinkRow] = held[LinkRow] /\ \A s \in Reqs : held'[SessionRow(s)] = held[SessionRow(s)]
  BY LocksDiffer DEF TakeCode, Take, LinkInv, TypeOK
<1> QED
  BY <1>1, <1>2, <1>3, GoesPlain DEF TakeCode, Plain, Steps, Holding, InSession, Fetching, LinkInv, TypeOK, world

LEMMA AskTryInv == ASSUME LinkInv, NEW r \in Reqs, AskTry(r) PROVE LinkInv'
<1>1. at[r] = "try" /\ held[LinkRow] # r /\ UNCHANGED <<world, req>>
  BY IdleHoldsNothing DEF AskTry, MayHold, Holding
<1>2. CASE Undone(r, "gone")
  BY <1>1, <1>2, UndoneInv DEF LinkInv, TypeOK, Answers
<1>3. CASE Goes(r, "tryRow") /\ UNCHANGED <<hands, rows>>
  BY <1>1, <1>3, GoesPlain DEF Plain, Steps, Holding, InSession, Fetching, LinkInv, TypeOK, hands
<1> QED
  BY <1>2, <1>3 DEF AskTry

\* A write to the row, with the trigger's, stays within the limits.
LEMMA WrittenWithin ==
  ASSUME TypeOK, NEW l \in Rows,
         l.tries <= MaxTries, l.opens <= made.opens, l.downloads <= made.downloads,
         ~Ended(l) => (l.address <=> made.code)
  PROVE  /\ Written(l) \in Rows /\ Within(Written(l))
         /\ Written(l).tries = l.tries /\ Written(l).opens = l.opens
         /\ Written(l).downloads = l.downloads
<1>1. made \in Made /\ MaxTries \in Nat
  BY LinksAssumption DEF TypeOK
<1>2. /\ Written(l).tries = l.tries /\ Written(l).opens = l.opens
      /\ Written(l).downloads = l.downloads /\ Written(l).revoked = l.revoked
      /\ Written(l).address = (l.address /\ ~l.revoked /\ l.tries < MaxTries /\ ~UsedUp(l))
      /\ Written(l) \in Rows
  BY DEF Written, Rows
<1>3. l.revoked \in BOOLEAN /\ l.tries \in Nat /\ l.opens \in Nat /\ l.address \in BOOLEAN
  BY DEF Rows
<1>4. made.code \in BOOLEAN /\ made.opens \in Nat
  BY <1>1 DEF Made
<1>5. Ended(Written(l)) <=> Ended(l)
  BY <1>2 DEF Ended, UsedUp
<1>6. Ended(l) <=> ~(~l.revoked /\ l.tries < MaxTries /\ ~UsedUp(l))
  BY <1>1, <1>3 DEF Ended
<1>7. CASE Ended(l)
  <2>1. Written(l).address = FALSE
    BY <1>2, <1>6, <1>7
  <2> QED
    BY <1>2, <1>5, <1>7, <2>1 DEF Within
<1>8. CASE ~Ended(l)
  <2>1. Written(l).address = l.address
    BY <1>2, <1>3, <1>6, <1>8
  <2> QED
    BY <1>2, <1>5, <1>8, <2>1 DEF Within
<1> QED
  BY <1>7, <1>8

\* A request takes the row, or has it, and writes it.
LEMMA WritesRow ==
  ASSUME LinkInv, NEW r \in Reqs, NEW x \in Steps \ {"done"}, at[r] # "done", Goes(r, x),
         held[LinkRow] \in {None, r}, Take(LinkRow, r),
         UNCHANGED <<world, link, codes, sessions, jar, log, req, code, answer>>,
         draft' \in Rows, Within(draft),
         todo' \in [Reqs -> SUBSET Reqs], \A q \in Reqs \ {r} : todo'[q] = todo[q],
         Within(draft)', Local(r)'
  PROVE  LinkInv'
<1>1. /\ held' \in [Locks -> Reqs \union {None}] /\ held'[LinkRow] = r /\ r # None
      /\ \A s \in Reqs : held'[SessionRow(s)] = held[SessionRow(s)]
  BY LocksDiffer, LinksAssumption DEF Take, LinkInv, TypeOK
<1>2. req' \in [Reqs -> Requests] /\ code' \in [Reqs -> Reqs \union {None}]
  BY DEF LinkInv, TypeOK
<1> QED
  BY <1>1, <1>2, Moving DEF world

LEMMA ReserveInv == ASSUME LinkInv, NEW r \in Reqs, Reserve(r) PROVE LinkInv'
<1>1. at[r] = "tryRow" /\ held[LinkRow] = None /\ UNCHANGED <<world, req>>
  BY DEF Reserve, Free
<1>2. CASE link.tries < MaxTries
  <2> DEFINE l == [link EXCEPT !.tries = @ + 1]
  <2>1. /\ l \in Rows /\ l.tries = link.tries + 1 /\ l.opens = link.opens
        /\ l.downloads = link.downloads /\ l.revoked = link.revoked /\ l.address = link.address
        /\ link.tries \in Nat /\ MaxTries \in Nat
    BY LinksAssumption DEF LinkInv, TypeOK, Rows
  <2>2. l.tries <= MaxTries /\ (~Ended(l) => (l.address <=> made.code))
    BY <1>2, <2>1 DEF LinkInv, RowInv, Within, Ended, UsedUp
  <2>3. l.opens <= made.opens /\ l.downloads <= made.downloads /\ TypeOK
    BY <2>1 DEF LinkInv, RowInv, Within
  <2> HIDE DEF l
  <2>4. /\ Written(l) \in Rows /\ Within(Written(l)) /\ Written(l).tries = l.tries
        /\ Written(l).opens = l.opens /\ Written(l).downloads = l.downloads
    BY <2>1, <2>2, <2>3, WrittenWithin
  <2>5. draft' = Written(l) /\ Take(LinkRow, r) /\ Goes(r, "check")
        /\ UNCHANGED <<link, codes, sessions, jar, code, todo, answer, log>>
    BY <1>2 DEF Reserve, MayTry, l
  <2>6. at'[r] = "check" /\ held'[LinkRow] = r
        /\ \A s \in Reqs : held'[SessionRow(s)] = held[SessionRow(s)]
    BY <2>5, LocksDiffer DEF Goes, Take, LinkInv, TypeOK
  <2>7. Within(draft)'
    BY <1>1, <2>4, <2>5 DEF Within, Ended, UsedUp, world
  <2>8. Local(r)'
    BY <1>1, <2>1, <2>4, <2>5, <2>6 DEF LinkInv, Local, Drafted, Holding, MayHold, InSession, Fetching
  <2> QED
    BY <1>1, <2>4, <2>5, <2>7, <2>8, WritesRow DEF LinkInv, TypeOK, Steps, RowInv
<1>3. CASE ~(link.tries < MaxTries)
  BY <1>1, <1>3, UndoneInv DEF Reserve, MayTry, LinkInv, TypeOK, Answers
<1> QED
  BY <1>2, <1>3

LEMMA RightInv == ASSUME LinkInv, NEW r \in Reqs, Right(r) PROVE LinkInv'
<1>1. at[r] = "check" /\ held[LinkRow] = r
  BY DEF LinkInv, Right, Local, Holding
<1>2. /\ held' \in [Locks -> Reqs \union {None}] /\ held'[LinkRow] = None /\ r # None
      /\ \A s \in Reqs : held'[SessionRow(s)] = held[SessionRow(s)]
  BY LocksDiffer, LinksAssumption DEF Right, LinkInv, TypeOK
<1>3. PICK x \in {"device", "count"} : Goes(r, x)
  BY DEF Right, AfterFactors
<1>4. at'[r] = x
  BY <1>3 DEF Goes, LinkInv, TypeOK
<1>5. Local(r)'
  BY <1>1, <1>2, <1>3, <1>4 DEF Right, LinkInv, Local, Holding, MayHold, InSession, Fetching
<1>6. draft' = link /\ UNCHANGED <<made, link, lent, over, sessions, codes, jar, log, answer, req, code, todo>>
  BY DEF Right, world
<1>7. draft' \in Rows /\ Within(draft)'
  BY <1>6 DEF LinkInv, TypeOK, RowInv, Within, Ended, UsedUp
<1> QED
  BY <1>1, <1>2, <1>3, <1>5, <1>6, <1>7, Moving DEF LinkInv, TypeOK, Steps

LEMMA CodesTyped ==
  ASSUME TypeOK, NEW r \in Reqs, CodeUsed(r) \/ CodeTried(r) PROVE codes' \in [Reqs -> Codes]
<1>1. codes \in [Reqs -> Codes] /\ (code[r] # None => code[r] \in Reqs)
  BY DEF TypeOK
<1>2. ASSUME NEW c \in Reqs PROVE [codes EXCEPT ![c].state = "used"] \in [Reqs -> Codes]
  BY <1>1 DEF Codes
<1>3. ASSUME NEW c \in Reqs PROVE [codes EXCEPT ![c].tries = @ + 1] \in [Reqs -> Codes]
  BY <1>1 DEF Codes
<1> QED
  BY <1>1, <1>2, <1>3 DEF CodeUsed, CodeTried

LEMMA WrongInv == ASSUME LinkInv, NEW r \in Reqs, Wrong(r) PROVE LinkInv'
<1>1. at[r] = "check" /\ held[LinkRow] = r /\ answer[r] = "none" /\ Drafted(r)
  BY DEF LinkInv, Wrong, Local, Holding
<1>2. Answered(r, "wrong") /\ link' = draft /\ UNCHANGED <<made, draft, lent, over, sessions, jar, req, log>>
  BY DEF Wrong, world
<1>3. answer'[r] = "wrong" /\ \A q \in Reqs \ {r} : answer'[q] = answer[q]
  BY <1>2, AnsweredTyped DEF LinkInv, Answers
<1>4. /\ Got("opened")' = Got("opened") /\ Got("locked")' = Got("locked")
      /\ Wrongs' = Wrongs \union {r} /\ r \notin Wrongs /\ Downloaded' = Downloaded
  BY <1>1, <1>2, <1>3 DEF Got, Wrongs, Downloaded
<1>5. IsFiniteSet(Wrongs') /\ Cardinality(Wrongs') = Cardinality(Wrongs) + 1
  BY <1>4, FS_AddElement DEF LinkInv, CountInv
<1>6. /\ link'.tries = link.tries + 1 /\ link'.tries < MaxTries
      /\ link'.opens = link.opens /\ link'.downloads = link.downloads
      /\ link.tries \in Nat /\ MaxTries \in Nat
  BY <1>1, <1>2, LinksAssumption DEF Drafted, Wrong, LastTry, LinkInv, TypeOK, Rows
<1>7. CountInv'
  BY <1>4, <1>5, <1>6 DEF LinkInv, CountInv
<1>8. codes' \in [Reqs -> Codes]
  BY CodesTyped DEF Wrong, LinkInv
<1>9. \A s \in Reqs : sessions'[s].had => sessions'[s].state # "none"
  BY <1>2 DEF LinkInv, Local
<1> QED
  BY <1>1, <1>2, <1>7, <1>8, <1>9, Committing DEF LinkInv, TypeOK, Answers

\* The sessions a request holds are removed: none appears.
LEMMA RemovedRows ==
  ASSUME TypeOK, NEW S
  PROVE  /\ SessionsRemoved(S) \in [Reqs -> Sessions]
         /\ \A s \in Reqs : /\ SessionsRemoved(S)[s].had = sessions[s].had
                            /\ SessionsRemoved(S)[s].state = IF s \in S THEN "ended" ELSE sessions[s].state
<1>1. ASSUME NEW s \in Reqs
      PROVE  /\ [sessions[s] EXCEPT !.state = "ended"] \in Sessions
             /\ [sessions[s] EXCEPT !.state = "ended"].had = sessions[s].had
             /\ [sessions[s] EXCEPT !.state = "ended"].state = "ended"
  BY DEF TypeOK, Sessions
<1> QED
  BY <1>1 DEF SessionsRemoved, TypeOK

LEMMA RemovedTyped ==
  ASSUME LinkInv, NEW S \in SUBSET Reqs, \A s \in S : sessions[s].state # "none",
         sessions' = SessionsRemoved(S)
  PROVE  SessionsKept
BY RemovedRows DEF LinkInv, SessionsKept

LEMMA EndSessionsHolds ==
  ASSUME LinkInv, NEW r \in Reqs, NEW x \in {"lockLine", "revokeLine"}, EndSessions(r, x)
  PROVE  /\ held' \in [Locks -> Reqs \union {None}] /\ held'[LinkRow] = held[LinkRow]
         /\ \A s \in Reqs : \/ held'[SessionRow(s)] = held[SessionRow(s)]
                            \/ /\ held[SessionRow(s)] = None /\ held'[SessionRow(s)] = r
                               /\ sessions[s].state # "none"
         /\ at'[r] = x /\ Goes(r, x)
BY LocksDiffer DEF EndSessions, ToEnd, Free, Goes, LinkInv, TypeOK

LEMMA LockInv == ASSUME LinkInv, NEW r \in Reqs, Lock(r) PROVE LinkInv'
<1>1. at[r] = "check" /\ held[LinkRow] = r /\ draft.tries >= MaxTries /\ Drafted(r) /\ r # None
  BY LinksAssumption DEF LinkInv, Lock, LastTry, Local, Holding
<1>2. EndSessions(r, "lockLine") /\ UNCHANGED <<world, rows, req, code, todo, answer>>
  BY DEF Lock
<1>3. /\ held' \in [Locks -> Reqs \union {None}] /\ held'[LinkRow] = held[LinkRow]
      /\ \A s \in Reqs : \/ held'[SessionRow(s)] = held[SessionRow(s)]
                         \/ /\ held[SessionRow(s)] = None /\ held'[SessionRow(s)] = r
                            /\ sessions[s].state # "none"
      /\ at'[r] = "lockLine" /\ Goes(r, "lockLine")
  BY <1>2, EndSessionsHolds
<1>4. UNCHANGED <<made, link, draft, lent, over, sessions, codes, jar, log, answer, req, code, todo>>
  BY <1>2 DEF world, rows
<1>5. Local(r)'
  BY <1>1, <1>3, <1>4 DEF LinkInv, Local, Drafted, Holding, MayHold, InSession, Fetching
<1>6. draft' \in Rows /\ Within(draft)'
  BY <1>4 DEF LinkInv, TypeOK, RowInv, Within, Ended, UsedUp
<1> QED
  BY <1>1, <1>3, <1>4, <1>5, <1>6, Moving DEF LinkInv, TypeOK, Steps

LEMMA HeldRemoved ==
  ASSUME LinkInv, NEW r \in Reqs, sessions' = SessionsRemoved(HeldSessions(r)) PROVE SessionsKept
<1>1. \A s \in HeldSessions(r) : sessions[s].state # "none"
  BY DEF HeldSessions, LinkInv, Local
<1> QED
  BY <1>1, RemovedTyped DEF HeldSessions

LEMMA LineTyped == ASSUME TypeOK, NEW r \in Reqs, LineWritten(r) PROVE log' \in Seq(Reqs)
BY DEF TypeOK, LineWritten

LEMMA LockedInv == ASSUME LinkInv, NEW r \in Reqs, Locked(r) PROVE LinkInv'
<1>1. at[r] = "lockLine" /\ held[LinkRow] = r /\ answer[r] = "none" /\ Drafted(r) /\ draft.tries >= MaxTries
  BY DEF LinkInv, Locked, Local, Holding
<1>2. Answered(r, "locked") /\ link' = draft /\ UNCHANGED <<made, draft, lent, over, jar, req>>
  BY DEF Locked, world
<1>3. answer'[r] = "locked" /\ \A q \in Reqs \ {r} : answer'[q] = answer[q]
  BY <1>2, AnsweredTyped DEF LinkInv, Answers
<1>4. SessionsKept
  BY HeldRemoved DEF Locked
<1>5. /\ Got("opened")' = Got("opened") /\ Got("locked")' = Got("locked") \union {r} /\ r \notin Got("locked")
      /\ Wrongs' = Wrongs \union {r} /\ r \notin Wrongs /\ Downloaded' = Downloaded
  BY <1>1, <1>3, <1>4 DEF Got, Wrongs, Downloaded, SessionsKept
<1>6. /\ IsFiniteSet(Wrongs') /\ Cardinality(Wrongs') = Cardinality(Wrongs) + 1
      /\ IsFiniteSet(Got("locked")') /\ Cardinality(Got("locked")') = Cardinality(Got("locked")) + 1
  BY <1>5, FS_AddElement DEF LinkInv, CountInv
<1>7. /\ link'.tries = link.tries + 1 /\ link'.tries = MaxTries
      /\ link'.opens = link.opens /\ link'.downloads = link.downloads
      /\ link.tries \in Nat /\ MaxTries \in Nat
  BY <1>1, <1>2, LinksAssumption DEF Drafted, LinkInv, TypeOK, Rows, RowInv, Within
<1>8. CountInv'
  BY <1>5, <1>6, <1>7 DEF LinkInv, CountInv
<1>9. codes' \in [Reqs -> Codes] /\ log' \in Seq(Reqs)
  BY CodesTyped, LineTyped DEF Locked, LinkInv
<1>10. \A s \in Reqs : sessions'[s].had => sessions'[s].state # "none"
  BY <1>4 DEF LinkInv, Local, SessionsKept
<1> QED
  BY <1>1, <1>2, <1>4, <1>8, <1>9, <1>10, Committing DEF LinkInv, TypeOK, Answers, SessionsKept

LEMMA RefusedKeepingInv ==
  ASSUME LinkInv, NEW r \in Reqs, NEW a \in {"gone", "used up", "other device"}, at[r] # "done",
         RefusedKeeping(r, a), UNCHANGED <<world, req>>
  PROVE  LinkInv'
<1>1. SessionsKept
  BY DEF LinkInv, TypeOK, RefusedKeeping, SessionsKept
<1>2. codes' \in [Reqs -> Codes]
  BY CodesTyped DEF RefusedKeeping, LinkInv
<1> QED
  BY <1>1, <1>2, Refusal DEF LinkInv, TypeOK, RefusedKeeping, world, Answers

LEMMA AskBindInv == ASSUME LinkInv, NEW r \in Reqs, AskBind(r) PROVE LinkInv'
<1>1. at[r] = "device" /\ held[LinkRow] # r /\ UNCHANGED <<world, req>>
  BY IdleHoldsNothing DEF AskBind, MayHold, Holding
<1>2. CASE RefusedKeeping(r, "gone")
  BY <1>1, <1>2, RefusedKeepingInv
<1>3. ASSUME NEW x \in {"count", "bindRow"}, Goes(r, x), UNCHANGED <<hands, rows>> PROVE LinkInv'
  BY <1>1, <1>3, GoesPlain DEF Plain, Steps, Holding, InSession, Fetching, LinkInv, TypeOK, hands
<1> QED
  BY <1>2, <1>3 DEF AskBind

LEMMA BindInv == ASSUME LinkInv, NEW r \in Reqs, Bind(r) PROVE LinkInv'
<1>1. at[r] = "bindRow" /\ held[LinkRow] = None /\ UNCHANGED <<world, req>>
  BY DEF Bind, Free
<1>2. CASE link.device = None
  <2>1. /\ draft' = [link EXCEPT !.device = r] /\ Take(LinkRow, r) /\ Goes(r, "count")
        /\ UNCHANGED <<link, codes, sessions, jar, code, todo, answer, log>>
    BY <1>2 DEF Bind, Unbound
  <2>2. /\ draft' \in Rows /\ draft'.tries = link.tries /\ draft'.opens = link.opens
        /\ draft'.downloads = link.downloads /\ draft'.revoked = link.revoked
        /\ draft'.address = link.address
    BY <2>1 DEF LinkInv, TypeOK, Rows
  <2>3. Within(draft)'
    BY <1>1, <2>2 DEF LinkInv, RowInv, Within, Ended, UsedUp, world
  <2>4. at'[r] = "count" /\ held'[LinkRow] = r
        /\ \A s \in Reqs : held'[SessionRow(s)] = held[SessionRow(s)]
    BY <2>1, LocksDiffer DEF Goes, Take, LinkInv, TypeOK
  <2>5. Local(r)'
    BY <1>1, <2>1, <2>2, <2>4 DEF LinkInv, Local, Drafted, Holding, MayHold, InSession, Fetching
  <2> QED
    BY <1>1, <2>1, <2>2, <2>3, <2>5, WritesRow DEF LinkInv, TypeOK, Steps, RowInv
<1>3. CASE link.device # None
  BY <1>1, <1>3, RefusedKeepingInv DEF Bind, Unbound
<1> QED
  BY <1>2, <1>3

LEMMA AskCountInv == ASSUME LinkInv, NEW r \in Reqs, AskCount(r) PROVE LinkInv'
<1>1. at[r] = "count" /\ UNCHANGED <<world, req>>
  BY DEF AskCount
<1>2. CASE RefusedKeeping(r, "gone")
  BY <1>1, <1>2, RefusedKeepingInv
<1>3. CASE Goes(r, "countRow") /\ UNCHANGED <<hands, rows>>
  <2>1. at'[r] = "countRow"
    BY <1>3 DEF Goes, LinkInv, TypeOK
  <2>2. UNCHANGED <<made, link, draft, lent, over, sessions, codes, jar, log, answer, held, code, todo>>
    BY <1>1, <1>3 DEF world, rows, hands
  <2>3. Local(r)'
    BY <1>1, <2>1, <2>2 DEF LinkInv, Local, Drafted, Holding, MayHold, InSession, Fetching
  <2>4. draft' \in Rows /\ Within(draft)' /\ (held'[LinkRow] = None => draft' = link)
    BY <2>2 DEF LinkInv, TypeOK, RowInv, Within, Ended, UsedUp
  <2> QED
    BY <1>1, <1>3, <2>2, <2>3, <2>4, Moving DEF LinkInv, TypeOK, Steps
<1> QED
  BY <1>2, <1>3 DEF AskCount

LEMMA CountOpenInv == ASSUME LinkInv, NEW r \in Reqs, CountOpen(r) PROVE LinkInv'
<1>1. at[r] = "countRow" /\ held[LinkRow] \in {None, r} /\ UNCHANGED <<world, req>>
  BY DEF CountOpen
<1>2. /\ Seen(r) = draft /\ draft.tries = link.tries /\ draft.opens = link.opens
      /\ draft.downloads = link.downloads
  BY <1>1 DEF Seen, LinkInv, RowInv, Local, Drafted
<1>3. CASE MayCount(draft)
  <2>0. made.opens \in Nat /\ draft \in Rows
    <3>1. made \in Made
      BY LinksAssumption DEF LinkInv, TypeOK
    <3> QED
      BY <3>1 DEF Made, LinkInv, TypeOK
  <2> DEFINE l == [draft EXCEPT !.opens = @ + 1]
  <2>1. /\ l \in Rows /\ l.tries = draft.tries /\ l.opens = draft.opens + 1
        /\ l.downloads = draft.downloads /\ l.revoked = draft.revoked /\ l.address = draft.address
        /\ draft.opens \in Nat /\ made.opens \in Nat
    BY <2>0 DEF Rows
  <2>2. l.opens <= made.opens /\ (~Ended(l) => (l.address <=> made.code))
    BY <1>3, <2>1 DEF LinkInv, RowInv, Within, Ended, UsedUp, MayCount
  <2>3. l.tries <= MaxTries /\ l.downloads <= made.downloads /\ TypeOK
    BY <2>1 DEF LinkInv, RowInv, Within
  <2> HIDE DEF l
  <2>4. /\ Written(l) \in Rows /\ Within(Written(l)) /\ Written(l).tries = l.tries
        /\ Written(l).opens = l.opens /\ Written(l).downloads = l.downloads
    BY <2>1, <2>2, <2>3, WrittenWithin
  <2>5. /\ draft' = Written(l) /\ Take(LinkRow, r) /\ Goes(r, "clear")
        /\ todo' = [todo EXCEPT ![r] = {s \in Reqs : sessions[s].state = "lapsed"}]
        /\ UNCHANGED <<link, codes, sessions, jar, code, answer, log>>
    BY <1>2, <1>3 DEF CountOpen, l
  <2>6. at'[r] = "clear" /\ held'[LinkRow] = r
        /\ \A s \in Reqs : held'[SessionRow(s)] = held[SessionRow(s)]
    BY <2>5, LocksDiffer DEF Goes, Take, LinkInv, TypeOK
  <2>7. /\ todo' \in [Reqs -> SUBSET Reqs] /\ \A q \in Reqs \ {r} : todo'[q] = todo[q]
        /\ \A s \in todo'[r] : sessions[s].state # "none"
    BY <2>5 DEF LinkInv, TypeOK
  <2>8. Within(draft)'
    BY <1>1, <2>4, <2>5 DEF Within, Ended, UsedUp, world
  <2>9. Local(r)'
    BY <1>1, <1>2, <2>1, <2>4, <2>5, <2>6, <2>7
       DEF LinkInv, Local, Drafted, Holding, MayHold, InSession, Fetching
  <2> QED
    BY <1>1, <2>4, <2>5, <2>7, <2>8, <2>9, WritesRow DEF Steps, LinkInv, RowInv
<1>4. CASE ~MayCount(draft)
  BY <1>1, <1>2, <1>4, RefusedKeepingInv DEF CountOpen
<1> QED
  BY <1>3, <1>4

LEMMA ClearInv == ASSUME LinkInv, NEW r \in Reqs, Clear(r) PROVE LinkInv'
<1>1. /\ at[r] = "clear" /\ held[LinkRow] = r /\ Drafted(r) /\ r # None
      /\ UNCHANGED <<made, link, draft, lent, over, sessions, codes, jar, log, answer, req, code>>
  BY LinksAssumption DEF Clear, LinkInv, Local, Holding, world, rows
<1>2. draft' \in Rows /\ Within(draft)'
  BY <1>1 DEF LinkInv, TypeOK, RowInv, Within, Ended, UsedUp
<1>3. ASSUME NEW s \in todo[r], Free(SessionRow(s)), Take(SessionRow(s), r),
             todo' = [todo EXCEPT ![r] = @ \ {s}], UNCHANGED at
      PROVE  LinkInv'
  <2>1. s \in Reqs /\ Goes(r, "clear") /\ sessions[s].state # "none"
    BY <1>1, <1>3 DEF LinkInv, TypeOK, Goes, Local
  <2>2. /\ held' \in [Locks -> Reqs \union {None}] /\ held'[LinkRow] = r
        /\ held'[SessionRow(s)] = r /\ held[SessionRow(s)] = None
        /\ \A q \in Reqs \ {s} : held'[SessionRow(q)] = held[SessionRow(q)]
    BY <1>1, <1>3, <2>1, LocksDiffer DEF Take, Free, LinkInv, TypeOK
  <2>3. /\ todo' \in [Reqs -> SUBSET Reqs] /\ \A q \in Reqs \ {r} : todo'[q] = todo[q]
        /\ todo'[r] \subseteq todo[r]
    BY <1>3 DEF LinkInv, TypeOK
  <2>4. Local(r)'
    BY <1>1, <1>3, <2>1, <2>2, <2>3 DEF LinkInv, Local, Drafted, Holding, MayHold, InSession, Fetching
  <2> QED
    BY <1>1, <1>2, <2>1, <2>2, <2>3, <2>4, Moving DEF LinkInv, TypeOK, Steps
<1>4. ASSUME Goes(r, "view"), UNCHANGED <<held, todo>> PROVE LinkInv'
  <2>1. at'[r] = "view"
    BY <1>4 DEF Goes, LinkInv, TypeOK
  <2>2. Local(r)'
    BY <1>1, <1>4, <2>1 DEF LinkInv, Local, Drafted, Holding, MayHold, InSession, Fetching
  <2> QED
    BY <1>1, <1>2, <1>4, <2>2, Moving DEF LinkInv, TypeOK, Steps
<1> QED
  BY <1>3, <1>4 DEF Clear

LEMMA OpenedInv == ASSUME LinkInv, NEW r \in Reqs, Opened(r) PROVE LinkInv'
<1>1. at[r] = "view" /\ held[LinkRow] = r /\ answer[r] = "none" /\ Drafted(r)
      /\ sessions[r].state = "none" /\ ~sessions[r].had
  BY DEF LinkInv, Opened, Local, Holding
<1>2. CASE Live(draft)
  <2>1. /\ Answered(r, "opened") /\ link' = draft /\ UNCHANGED <<made, draft, lent, over, req>>
        /\ CodeUsed(r) /\ LineWritten(r)
        /\ sessions' = [SessionsRemoved(HeldSessions(r)) EXCEPT
                          ![r] = [state |-> "open", device |-> draft.device, had |-> FALSE]]
        /\ jar' = IF made.oneDevice THEN [jar EXCEPT ![req[r].browser] = draft.device] ELSE jar
    BY <1>2 DEF Opened, world
  <2>2. answer'[r] = "opened" /\ \A q \in Reqs \ {r} : answer'[q] = answer[q]
    BY <2>1, AnsweredTyped DEF LinkInv, Answers
  <2>3. draft.device \in Reqs \union {None}
    BY DEF LinkInv, TypeOK, Rows
  <2>4. \A s \in HeldSessions(r) : s \in Reqs /\ sessions[s].state # "none"
    BY DEF HeldSessions, LinkInv, Local
  <2>5. /\ sessions' \in [Reqs -> Sessions] /\ sessions'[r].state = "open" /\ ~sessions'[r].had
        /\ \A s \in Reqs \ {r} : /\ sessions'[s].had = sessions[s].had
                                 /\ sessions'[s].state = "none" <=> sessions[s].state = "none"
    <3> DEFINE kept == SessionsRemoved(HeldSessions(r))
    <3>1. kept \in [Reqs -> Sessions]
      BY RemovedRows DEF LinkInv
    <3>2. \A s \in Reqs : /\ kept[s].had = sessions[s].had
                          /\ kept[s].state = "none" <=> sessions[s].state = "none"
      BY <2>4, RemovedRows DEF LinkInv
    <3>3. sessions' = [kept EXCEPT ![r] = [state |-> "open", device |-> draft.device, had |-> FALSE]]
      BY <2>1
    <3>4. [state |-> "open", device |-> draft.device, had |-> FALSE] \in Sessions
      BY <2>3 DEF Sessions
    <3> HIDE DEF kept
    <3> QED
      BY <3>1, <3>2, <3>3, <3>4
  <2>6. /\ Got("opened")' = Got("opened") \union {r} /\ r \notin Got("opened")
        /\ Got("locked")' = Got("locked") /\ Wrongs' = Wrongs /\ Downloaded' = Downloaded
    BY <1>1, <2>2, <2>5 DEF Got, Wrongs, Downloaded
  <2>7. /\ IsFiniteSet(Got("opened")') /\ Cardinality(Got("opened")') = Cardinality(Got("opened")) + 1
    BY <2>6, FS_AddElement DEF LinkInv, CountInv
  <2>8. /\ link'.opens = link.opens + 1 /\ link'.tries = link.tries /\ link'.downloads = link.downloads
    BY <1>1, <2>1 DEF Drafted
  <2>9. CountInv'
    BY <2>6, <2>7, <2>8 DEF LinkInv, CountInv
  <2>10. codes' \in [Reqs -> Codes] /\ log' \in Seq(Reqs) /\ jar' \in [Browsers -> Reqs \union {None}]
    BY <2>1, <2>3, CodesTyped, LineTyped DEF LinkInv, TypeOK
  <2>11. \A s \in Reqs : sessions'[s].had => sessions'[s].state # "none"
    BY <2>5 DEF LinkInv, Local
  <2>12. \A s \in Reqs : sessions'[s].had = sessions[s].had
    BY <1>1, <2>5 DEF LinkInv, TypeOK, Sessions
  <2> QED
    BY <1>1, <2>1, <2>5, <2>9, <2>10, <2>11, <2>12, Committing DEF Answers
<1>3. CASE ~Live(draft)
  BY <1>1, <1>3, UndoneInv DEF Opened, Answers, LinkInv, TypeOK
<1> QED
  BY <1>2, <1>3

LEMMA SessionEndsInv ==
  ASSUME LinkInv, NEW r \in Reqs, NEW a \in {"gone", "session ended"}, at[r] \in Fetching,
         SessionEnds(r, a), UNCHANGED <<world, req>>
  PROVE  LinkInv'
<1>1. req[r].names \in Reqs /\ sessions[req[r].names].state # "none"
  BY DEF LinkInv, Local
<1>2. SessionsKept
  <2> DEFINE S == {req[r].names}
  <2>1. S \in SUBSET Reqs /\ (\A s \in S : sessions[s].state # "none") /\ sessions' = SessionsRemoved(S)
    BY <1>1 DEF SessionEnds
  <2> HIDE DEF S
  <2> QED
    BY <2>1, RemovedTyped
<1> QED
  BY <1>2, Refusal DEF LinkInv, TypeOK, SessionEnds, world, Answers, Fetching, InSession

LEMMA FetchInv ==
  ASSUME LinkInv, NEW r \in Reqs, NEW b \in Browsers, NEW s \in Reqs, Fetch(r, b, s) PROVE LinkInv'
<1>0. Arrives(r, b, s, FALSE)
  BY DEF Fetch
<1>1. /\ at[r] = "idle" /\ held[LinkRow] # r /\ req'[r].names = s
      /\ req' \in [Reqs -> Requests] /\ \A q \in Reqs \ {r} : req'[q] = req[q]
  BY <1>0, ArrivesTyped
<1>2. UNCHANGED world /\ sessions[s].state # "none"
  BY DEF Fetch
<1>3. ASSUME NEW a \in {"gone", "session ended", "other device"}, Undone(r, a) PROVE LinkInv'
  BY <1>1, <1>2, <1>3, UndoneInv DEF Answers
<1>4. ASSUME NEW x \in {"dropSession", "dropLink", "touch"}, Goes(r, x), UNCHANGED <<hands, rows>>
      PROVE  LinkInv'
  <2>1. UNCHANGED <<made, link, draft, lent, over, sessions, codes, jar, log, answer, held, code, todo>>
    BY <1>2, <1>4 DEF world, rows, hands
  <2>2. at'[r] = x
    BY <1>4 DEF Goes, LinkInv, TypeOK
  <2>3. Local(r)'
    BY <1>1, <1>2, <2>1, <2>2 DEF LinkInv, Local, Holding, InSession, Fetching
  <2>4. draft' \in Rows /\ Within(draft)' /\ (held'[LinkRow] = None => draft' = link)
    BY <2>1 DEF LinkInv, TypeOK, RowInv, Within, Ended, UsedUp
  <2> QED
    BY <1>1, <1>4, <2>1, <2>3, <2>4, Moving DEF LinkInv, TypeOK, Steps
<1> QED
  BY <1>3, <1>4 DEF Fetch, WhyGone

LEMMA DropInv == ASSUME LinkInv, NEW r \in Reqs, Drop(r) PROVE LinkInv'
BY SessionEndsInv DEF Drop, Fetching

LEMMA TouchInv == ASSUME LinkInv, NEW r \in Reqs, Touch(r) PROVE LinkInv'
<1>1. at[r] = "touch" /\ held[LinkRow] # r /\ UNCHANGED <<world, req>> /\ Free(SessionRow(req[r].names))
  BY IdleHoldsNothing DEF Touch, MayHold, Holding
<1>2. CASE sessions[req[r].names].state = "ended"
  BY <1>1, <1>2, UndoneInv DEF Touch, WhyGone, LinkInv, TypeOK, Answers
<1>3. CASE sessions[req[r].names].state # "ended"
  <2>1. req[r].names \in Reqs /\ sessions[req[r].names].state # "none" /\ r # None
    BY <1>1, LinksAssumption DEF LinkInv, Local, Fetching
  <2>2. Take(SessionRow(req[r].names), r) /\ Goes(r, "gives")
        /\ UNCHANGED <<made, link, draft, lent, over, sessions, codes, jar, log, answer, req, code, todo>>
    BY <1>1, <1>3 DEF Touch, world, rows
  <2>3. /\ held' \in [Locks -> Reqs \union {None}] /\ held'[LinkRow] = held[LinkRow]
        /\ held'[SessionRow(req[r].names)] = r /\ held[SessionRow(req[r].names)] = None
        /\ \A s \in Reqs \ {req[r].names} : held'[SessionRow(s)] = held[SessionRow(s)]
    BY <1>1, <2>1, <2>2, LocksDiffer DEF Take, Free, LinkInv, TypeOK
  <2>4. at'[r] = "gives"
    BY <2>2 DEF Goes, LinkInv, TypeOK
  <2>5. Local(r)'
    BY <1>1, <2>1, <2>2, <2>3, <2>4 DEF LinkInv, Local, Holding, InSession, Fetching
  <2>6. draft' \in Rows /\ Within(draft)' /\ (held'[LinkRow] = None => draft' = link)
    BY <2>2, <2>3 DEF LinkInv, TypeOK, RowInv, Within, Ended, UsedUp
  <2> QED
    BY <1>1, <2>1, <2>2, <2>3, <2>5, <2>6, Moving DEF LinkInv, TypeOK, Steps
<1> QED
  BY <1>2, <1>3

LEMMA GivesInv == ASSUME LinkInv, NEW r \in Reqs, Gives(r) PROVE LinkInv'
<1>1. at[r] = "gives" /\ held[LinkRow] # r /\ UNCHANGED <<world, req>>
  BY IdleHoldsNothing DEF Gives, MayHold, Holding
<1>2. CASE SessionEnds(r, "gone")
  BY <1>1, <1>2, SessionEndsInv DEF Fetching, InSession
<1>3. CASE Live(link)
  <2>1. Goes(r, IF sessions[req[r].names].had THEN "finish" ELSE "downRow")
        /\ UNCHANGED <<made, link, draft, lent, over, sessions, codes, jar, log, answer, held, req, code, todo>>
    BY <1>1, <1>3 DEF Gives, Had, world, rows, hands
  <2>2. at'[r] = IF sessions[req[r].names].had THEN "finish" ELSE "downRow"
    BY <2>1 DEF Goes, LinkInv, TypeOK
  <2>3. Local(r)'
    BY <1>1, <2>1, <2>2 DEF LinkInv, Local, Holding, InSession, Fetching
  <2>4. draft' \in Rows /\ Within(draft)' /\ (held'[LinkRow] = None => draft' = link)
    BY <2>1 DEF LinkInv, TypeOK, RowInv, Within, Ended, UsedUp
  <2> QED
    BY <1>1, <2>1, <2>3, <2>4, Moving DEF LinkInv, TypeOK, Steps
<1> QED
  BY <1>2, <1>3 DEF Gives

LEMMA CountDownloadInv == ASSUME LinkInv, NEW r \in Reqs, CountDownload(r) PROVE LinkInv'
<1>1. at[r] = "downRow" /\ held[LinkRow] = None /\ r # None /\ UNCHANGED <<world, req>>
  BY LinksAssumption DEF CountDownload, Free
<1>2. CASE Undone(r, "used up")
  BY <1>1, <1>2, UndoneInv DEF LinkInv, TypeOK, Answers
<1>3. CASE SessionEnds(r, "gone")
  BY <1>1, <1>3, SessionEndsInv DEF Fetching, InSession
<1>4. ASSUME link.downloads < made.downloads, draft' = [link EXCEPT !.downloads = @ + 1],
             Take(LinkRow, r), Goes(r, "finish"),
             UNCHANGED <<link, codes, sessions, jar, log, code, todo, answer>>
      PROVE  LinkInv'
  <2>0. made.downloads \in Nat /\ link \in Rows
    <3>1. made \in Made
      BY LinksAssumption DEF LinkInv, TypeOK
    <3> QED
      BY <3>1 DEF Made, LinkInv, TypeOK
  <2>1. /\ draft' \in Rows /\ draft'.tries = link.tries /\ draft'.opens = link.opens
        /\ draft'.downloads = link.downloads + 1 /\ draft'.revoked = link.revoked
        /\ draft'.address = link.address /\ link.downloads \in Nat /\ made.downloads \in Nat
    BY <1>4, <2>0 DEF Rows
  <2>2. Within(draft)'
    BY <1>1, <1>4, <2>1 DEF LinkInv, RowInv, Within, Ended, UsedUp, world
  <2>3. at'[r] = "finish" /\ held'[LinkRow] = r
        /\ \A s \in Reqs : held'[SessionRow(s)] = held[SessionRow(s)]
    BY <1>4, LocksDiffer DEF Goes, Take, LinkInv, TypeOK
  <2>4. Local(r)'
    BY <1>1, <1>4, <2>1, <2>3 DEF LinkInv, Local, Drafted, Holding, MayHold, InSession, Fetching
  <2> QED
    BY <1>1, <1>4, <2>1, <2>2, <2>4, WritesRow DEF LinkInv, TypeOK, Steps, RowInv
<1> QED
  BY <1>2, <1>3, <1>4 DEF CountDownload

LEMMA FinishInv == ASSUME LinkInv, NEW r \in Reqs, Finish(r) PROVE LinkInv'
<1>1. /\ at[r] = "finish" /\ r # None /\ UNCHANGED <<world, req>> /\ answer[r] = "none"
      /\ req[r].names \in Reqs /\ sessions[req[r].names].state # "none"
      /\ held[SessionRow(req[r].names)] = r
      /\ sessions[req[r].names].had <=> held[LinkRow] # r
      /\ held[LinkRow] = r => Drafted(r)
  BY LinksAssumption DEF Finish, LinkInv, Local, Fetching, InSession
<1>2. CASE ~Live(Seen(r))
  BY <1>1, <1>2, SessionEndsInv DEF Finish, Fetching, InSession
<1>3. CASE Live(Seen(r))
  <2>1. /\ sessions' = [sessions EXCEPT ![req[r].names].had = TRUE] /\ Answered(r, "given")
        /\ UNCHANGED <<made, lent, over, req, draft, codes, jar>>
        /\ IF held[LinkRow] = r THEN link' = draft /\ LineWritten(r) ELSE UNCHANGED <<link, log>>
    BY <1>1, <1>3 DEF Finish, world
  <2>2. answer'[r] = "given" /\ \A q \in Reqs \ {r} : answer'[q] = answer[q]
    BY <2>1, AnsweredTyped DEF LinkInv, Answers
  <2>3. /\ sessions' \in [Reqs -> Sessions] /\ sessions'[req[r].names].had
        /\ \A s \in Reqs : sessions'[s].state = sessions[s].state
        /\ \A s \in Reqs \ {req[r].names} : sessions'[s].had = sessions[s].had
    BY <1>1, <2>1 DEF LinkInv, TypeOK, Sessions
  <2>4. Got("opened")' = Got("opened") /\ Got("locked")' = Got("locked") /\ Wrongs' = Wrongs
    BY <1>1, <2>2 DEF Got, Wrongs
  <2>5. CASE held[LinkRow] = r
    <3>1. Downloaded' = Downloaded \union {req[r].names} /\ req[r].names \notin Downloaded
      BY <1>1, <2>3, <2>5 DEF Downloaded
    <3>2. IsFiniteSet(Downloaded') /\ Cardinality(Downloaded') = Cardinality(Downloaded) + 1
      BY <3>1, FS_AddElement DEF LinkInv, CountInv
    <3>3. link' = draft /\ link'.downloads = link.downloads + 1 /\ link'.tries = link.tries /\ link'.opens = link.opens
      BY <1>1, <2>1, <2>5 DEF Drafted
    <3>4. CountInv'
      BY <2>4, <3>2, <3>3 DEF LinkInv, CountInv
    <3>5. /\ codes' \in [Reqs -> Codes] /\ log' \in Seq(Reqs) /\ jar' \in [Browsers -> Reqs \union {None}]
      BY <2>1, <2>5, LineTyped DEF LinkInv, TypeOK
    <3>6. /\ \A s \in Reqs : sessions'[s].had => sessions'[s].state # "none"
          /\ \A s \in Reqs : held[SessionRow(s)] # r => sessions'[s].had = sessions[s].had
      BY <1>1, <2>3 DEF LinkInv, Local
    <3>7. sessions' \in [Reqs -> Sessions]
          /\ \A s \in Reqs \ {r} : sessions'[s].state = "none" <=> sessions[s].state = "none"
      BY <2>3
    <3>8. Answered(r, "given") /\ "given" \in Answers \ {"none"} /\ UNCHANGED <<made, draft, lent, over, req>>
      BY <2>1 DEF Answers
    <3> QED
      BY <2>5, <3>3, <3>4, <3>5, <3>6, <3>7, <3>8, Committing
  <2>6. CASE held[LinkRow] # r
    <3>1. SessionsKept
      BY <1>1, <2>3, <2>6 DEF SessionsKept, LinkInv, TypeOK, Sessions
    <3>2. DraftDropped(r)
      BY <2>1, <2>6 DEF DraftDropped
    <3> QED
      BY <1>1, <2>1, <2>6, <3>1, <3>2, Refusal DEF LinkInv, TypeOK, world, Answers
  <2> QED
    BY <2>5, <2>6
<1> QED
  BY <1>2, <1>3

LEMMA SendCodeInv ==
  ASSUME LinkInv, NEW r \in Reqs, NEW b \in Browsers, SendCode(r, b) PROVE LinkInv'
<1>0. Arrives(r, b, None, FALSE)
  BY DEF SendCode
<1>1. /\ at[r] = "idle" /\ held[LinkRow] # r
      /\ req' \in [Reqs -> Requests] /\ \A q \in Reqs \ {r} : req'[q] = req[q]
  BY <1>0, ArrivesTyped
<1>2. UNCHANGED world
  BY DEF SendCode
<1>3. ASSUME NEW a \in {"gone", "used up", "no code", "other device"}, Undone(r, a) PROVE LinkInv'
  BY <1>1, <1>2, <1>3, UndoneInv DEF Answers
<1>4. CASE Goes(r, "send") /\ UNCHANGED <<hands, rows>>
  BY <1>1, <1>2, <1>4, GoesPlain DEF Plain, Steps, Holding, InSession, Fetching, LinkInv, TypeOK, hands
<1> QED
  BY <1>3, <1>4 DEF SendCode

LEMMA CountSendsInv == ASSUME LinkInv, NEW r \in Reqs, CountSends(r) PROVE LinkInv'
<1>1. at[r] = "send" /\ held[LinkRow] # r /\ UNCHANGED <<world, req>>
  BY IdleHoldsNothing DEF CountSends, MayHold, Holding
<1>2. CASE Undone(r, "limit")
  BY <1>1, <1>2, UndoneInv DEF LinkInv, TypeOK, Answers
<1>3. ASSUME Take(SendLock, r), Goes(r, "endCodes"),
             todo' = [todo EXCEPT ![r] = {c \in Reqs : codes[c].state = "live"}],
             UNCHANGED <<rows, code, answer>>
      PROVE  LinkInv'
  <2>1. /\ held' \in [Locks -> Reqs \union {None}] /\ held'[LinkRow] = held[LinkRow]
        /\ \A s \in Reqs : held'[SessionRow(s)] = held[SessionRow(s)]
    BY <1>3, LocksDiffer DEF Take, LinkInv, TypeOK
  <2>2. todo' \in [Reqs -> SUBSET Reqs] /\ \A q \in Reqs \ {r} : todo'[q] = todo[q]
    BY <1>3 DEF LinkInv, TypeOK
  <2> QED
    BY <1>1, <1>3, <2>1, <2>2, GoesPlain DEF Plain, Steps, Holding, InSession, Fetching, LinkInv, TypeOK
<1> QED
  BY <1>2, <1>3 DEF CountSends, EarlierCodes

LEMMA EndCodesInv == ASSUME LinkInv, NEW r \in Reqs, EndCodes(r) PROVE LinkInv'
<1>1. at[r] = "endCodes" /\ held[LinkRow] # r /\ UNCHANGED <<world, rows, req, code, answer>>
  BY IdleHoldsNothing DEF EndCodes, MayHold, Holding
<1>2. ASSUME NEW c \in todo[r], todo' = [todo EXCEPT ![r] = @ \ {c}],
             IF codes[c].state = "live" THEN Take(CodeRow(c), r) ELSE UNCHANGED held,
             UNCHANGED at
      PROVE  LinkInv'
  <2>1. c \in Reqs /\ Goes(r, "endCodes")
    BY <1>1, <1>2 DEF LinkInv, TypeOK, Goes
  <2>2. /\ held' \in [Locks -> Reqs \union {None}] /\ held'[LinkRow] = held[LinkRow]
        /\ \A s \in Reqs : held'[SessionRow(s)] = held[SessionRow(s)]
    BY <1>2, <2>1, LocksDiffer DEF Take, LinkInv, TypeOK
  <2>3. todo' \in [Reqs -> SUBSET Reqs] /\ \A q \in Reqs \ {r} : todo'[q] = todo[q]
    BY <1>2 DEF LinkInv, TypeOK
  <2> QED
    BY <1>1, <2>1, <2>2, <2>3, GoesPlain DEF Plain, Steps, Holding, InSession, Fetching, LinkInv, TypeOK
<1>3. CASE Goes(r, "sendLine") /\ UNCHANGED <<held, todo>>
  BY <1>1, <1>3, GoesPlain DEF Plain, Steps, Holding, InSession, Fetching, LinkInv, TypeOK
<1> QED
  BY <1>2, <1>3 DEF EndCodes

LEMMA SendLineInv == ASSUME LinkInv, NEW r \in Reqs, SendLine(r) PROVE LinkInv'
<1>1. /\ at[r] = "sendLine" /\ held[LinkRow] # r /\ UNCHANGED <<world, rows, req, code, todo, answer>>
      /\ Take(Log, r) /\ Goes(r, "mail")
  BY IdleHoldsNothing DEF SendLine, MayHold, Holding
<1>2. /\ held' \in [Locks -> Reqs \union {None}] /\ held'[LinkRow] = held[LinkRow]
      /\ \A s \in Reqs : held'[SessionRow(s)] = held[SessionRow(s)]
  BY <1>1, LocksDiffer DEF Take, LinkInv, TypeOK
<1> QED
  BY <1>1, <1>2, GoesPlain DEF Plain, Steps, Holding, InSession, Fetching, LinkInv, TypeOK

LEMMA MailInv == ASSUME LinkInv, NEW r \in Reqs, Mail(r) PROVE LinkInv'
<1>1. /\ at[r] = "mail" /\ held[LinkRow] # r /\ Answered(r, "sent") /\ LineWritten(r)
      /\ UNCHANGED <<world, link, draft, sessions, jar, req>>
  BY IdleHoldsNothing DEF Mail, MayHold, Holding
<1>2. codes' \in [Reqs -> Codes]
  <2>1. ASSUME NEW c \in Reqs PROVE [codes[c] EXCEPT !.state = "ended"] \in Codes /\ codes[c] \in Codes
    BY DEF LinkInv, TypeOK, Codes
  <2>2. [state |-> "live", tries |-> 0] \in Codes
    BY DEF Codes
  <2> QED
    BY <2>1, <2>2 DEF Mail
<1>3. SessionsKept /\ log' \in Seq(Reqs) /\ DraftDropped(r)
  BY <1>1, LineTyped DEF SessionsKept, LinkInv, TypeOK, DraftDropped
<1> QED
  BY <1>1, <1>2, <1>3, Refusal DEF LinkInv, TypeOK, world, Answers

LEMMA NotMailedInv == ASSUME LinkInv, NEW r \in Reqs, NotMailed(r) PROVE LinkInv'
<1>1. at[r] = "mail" /\ UNCHANGED <<world, req>>
  BY DEF NotMailed
<1>2. PICK a \in {"not sent", "gone"} : Undone(r, a)
  BY DEF NotMailed
<1> QED
  BY <1>1, <1>2, UndoneInv DEF LinkInv, TypeOK, Answers

LEMMA RevokeInv == ASSUME LinkInv, NEW r \in Reqs, Revoke(r) PROVE LinkInv'
<1>1. at[r] = "idle" /\ held[LinkRow] # r /\ Goes(r, "revokeRow") /\ UNCHANGED <<world, rows, hands, req>>
  BY IdleHoldsNothing DEF Revoke, MayHold, Holding
<1> QED
  BY <1>1, GoesPlain DEF Plain, Steps, Holding, InSession, Fetching, LinkInv, TypeOK, hands

LEMMA RevokeRowInv == ASSUME LinkInv, NEW r \in Reqs, RevokeRow(r) PROVE LinkInv'
<1>1. at[r] = "revokeRow" /\ held[LinkRow] = None /\ UNCHANGED <<world, req>>
  BY DEF RevokeRow, Free
<1>2. CASE ~link.revoked
  <2> DEFINE l == [link EXCEPT !.revoked = TRUE]
  <2>1. /\ l \in Rows /\ l.tries = link.tries /\ l.opens = link.opens
        /\ l.downloads = link.downloads /\ l.revoked
    BY DEF LinkInv, TypeOK, Rows
  <2>2. Ended(l)
    BY <2>1 DEF Ended
  <2>3. l.tries <= MaxTries /\ l.opens <= made.opens /\ l.downloads <= made.downloads /\ TypeOK
    BY <2>1 DEF LinkInv, RowInv, Within
  <2> HIDE DEF l
  <2>4. /\ Written(l) \in Rows /\ Within(Written(l)) /\ Written(l).tries = l.tries
        /\ Written(l).opens = l.opens /\ Written(l).downloads = l.downloads
    BY <2>1, <2>2, <2>3, WrittenWithin
  <2>5. draft' = Written(l) /\ Take(LinkRow, r) /\ Goes(r, "endSessions")
        /\ UNCHANGED <<link, codes, sessions, jar, log, code, todo, answer>>
    BY <1>2 DEF RevokeRow, l
  <2>6. at'[r] = "endSessions" /\ held'[LinkRow] = r
        /\ \A s \in Reqs : held'[SessionRow(s)] = held[SessionRow(s)]
    BY <2>5, LocksDiffer DEF Goes, Take, LinkInv, TypeOK
  <2>7. Within(draft)'
    BY <1>1, <2>4, <2>5 DEF Within, Ended, UsedUp, world
  <2>8. Local(r)'
    BY <1>1, <2>1, <2>4, <2>5, <2>6 DEF LinkInv, Local, Drafted, Holding, MayHold, InSession, Fetching
  <2> QED
    BY <1>1, <2>4, <2>5, <2>7, <2>8, WritesRow DEF LinkInv, TypeOK, Steps, RowInv
<1>3. CASE link.revoked
  BY <1>1, <1>3, UndoneInv DEF RevokeRow, LinkInv, TypeOK, Answers
<1> QED
  BY <1>2, <1>3

LEMMA RevokeSessionsInv == ASSUME LinkInv, NEW r \in Reqs, RevokeSessions(r) PROVE LinkInv'
<1>1. at[r] = "endSessions" /\ held[LinkRow] = r /\ Drafted(r) /\ r # None
  BY LinksAssumption DEF LinkInv, RevokeSessions, Local, Holding
<1>2. EndSessions(r, "revokeLine") /\ UNCHANGED <<world, rows, req, code, todo, answer>>
  BY DEF RevokeSessions
<1>3. /\ held' \in [Locks -> Reqs \union {None}] /\ held'[LinkRow] = held[LinkRow]
      /\ \A s \in Reqs : \/ held'[SessionRow(s)] = held[SessionRow(s)]
                         \/ /\ held[SessionRow(s)] = None /\ held'[SessionRow(s)] = r
                            /\ sessions[s].state # "none"
      /\ at'[r] = "revokeLine" /\ Goes(r, "revokeLine")
  BY <1>2, EndSessionsHolds
<1>4. UNCHANGED <<made, link, draft, lent, over, sessions, codes, jar, log, answer, req, code, todo>>
  BY <1>2 DEF world, rows
<1>5. Local(r)'
  BY <1>1, <1>3, <1>4 DEF LinkInv, Local, Drafted, Holding, MayHold, InSession, Fetching
<1>6. draft' \in Rows /\ Within(draft)'
  BY <1>4 DEF LinkInv, TypeOK, RowInv, Within, Ended, UsedUp
<1> QED
  BY <1>1, <1>3, <1>4, <1>5, <1>6, Moving DEF LinkInv, TypeOK, Steps

LEMMA RevokedInv == ASSUME LinkInv, NEW r \in Reqs, Revoked(r) PROVE LinkInv'
<1>1. at[r] = "revokeLine" /\ held[LinkRow] = r /\ answer[r] = "none" /\ Drafted(r)
  BY DEF LinkInv, Revoked, Local, Holding
<1>2. Answered(r, "revoked") /\ link' = draft /\ UNCHANGED <<made, draft, lent, over, codes, jar, req>>
  BY DEF Revoked, world
<1>3. answer'[r] = "revoked" /\ \A q \in Reqs \ {r} : answer'[q] = answer[q]
  BY <1>2, AnsweredTyped DEF LinkInv, Answers
<1>4. SessionsKept
  BY HeldRemoved DEF Revoked
<1>5. /\ link'.tries = link.tries /\ link'.opens = link.opens /\ link'.downloads = link.downloads
  BY <1>1, <1>2 DEF Drafted
<1>6. CountInv'
  BY <1>1, <1>3, <1>4, <1>5, CountsKeep DEF SessionsKept
<1>7. log' \in Seq(Reqs) /\ codes' \in [Reqs -> Codes] /\ jar' \in [Browsers -> Reqs \union {None}]
  BY <1>2, LineTyped DEF Revoked, LinkInv, TypeOK
<1>8. \A s \in Reqs : sessions'[s].had => sessions'[s].state # "none"
  BY <1>4 DEF LinkInv, Local, SessionsKept
<1> QED
  BY <1>1, <1>2, <1>4, <1>6, <1>7, <1>8, Committing DEF Answers, SessionsKept

LEMMA FailInv == ASSUME LinkInv, NEW r \in Reqs, Fail(r) PROVE LinkInv'
<1>1. PICK S \in SUBSET Reqs : r \in S /\ Circle(S)
  BY DEF Fail
<1>2. WaitsFor(r) # {}
  BY <1>1 DEF Circle
<1>3. at[r] # "done"
  BY <1>2 DEF WaitsFor, Wants
<1> QED
  BY <1>3, UndoneInv DEF Fail, Answers, LinkInv, TypeOK

\* What the world does on its own, and time: the rows' readers are untouched.
LEMMA WorldInv ==
  ASSUME LinkInv, UNCHANGED <<made, link, draft, jar, log, hands, at, req>>, SessionsKept,
         codes' \in [Reqs -> Codes], lent' \in BOOLEAN, over' \in BOOLEAN
  PROVE  LinkInv'
<1>1. TypeOK'
  BY DEF LinkInv, TypeOK, SessionsKept, hands
<1>2. RowInv'
  BY DEF LinkInv, RowInv, Within, Ended, UsedUp, hands
<1>3. ASSUME NEW r \in Reqs PROVE Local(r)'
  <2>1. Local(r) /\ (at[r] \in Fetching => req[r].names \in Reqs) /\ todo[r] \subseteq Reqs
    BY DEF LinkInv, Local, TypeOK
  <2>2. UNCHANGED <<held, at, req, todo, answer, link, draft>>
    BY DEF hands
  <2> QED
    BY <2>1, <2>2 DEF Local, Drafted, SessionsKept, Fetching, InSession
<1>4. Got("opened")' = Got("opened") /\ Wrongs' = Wrongs /\ Got("locked")' = Got("locked")
      /\ Downloaded' = Downloaded
  BY DEF Got, Wrongs, Downloaded, SessionsKept, hands
<1>5. CountInv'
  BY <1>4 DEF LinkInv, CountInv
<1> QED
  BY <1>1, <1>2, <1>3, <1>5 DEF LinkInv

LEMMA StepInv == ASSUME LinkInv, NEW r \in Reqs, Step(r) PROVE LinkInv'
<1>1. ASSUME NEW b \in Browsers, NEW n \in Reqs \union {None}, NEW right \in BOOLEAN, Open(r, b, n, right)
      PROVE LinkInv'
  BY <1>1, OpenInv
<1>2. CASE TakeCode(r) \/ AskTry(r) \/ Reserve(r) \/ Right(r) \/ Wrong(r) \/ Lock(r) \/ Locked(r)
  BY <1>2, TakeCodeInv, AskTryInv, ReserveInv, RightInv, WrongInv, LockInv, LockedInv
<1>3. CASE AskBind(r) \/ Bind(r) \/ AskCount(r) \/ CountOpen(r) \/ Clear(r) \/ Opened(r)
  BY <1>3, AskBindInv, BindInv, AskCountInv, CountOpenInv, ClearInv, OpenedInv
<1>4. ASSUME NEW b \in Browsers, NEW s \in Reqs, Fetch(r, b, s) PROVE LinkInv'
  BY <1>4, FetchInv
<1>5. CASE Drop(r) \/ Touch(r) \/ Gives(r) \/ CountDownload(r) \/ Finish(r)
  BY <1>5, DropInv, TouchInv, GivesInv, CountDownloadInv, FinishInv
<1>6. ASSUME NEW b \in Browsers, SendCode(r, b) PROVE LinkInv'
  BY <1>6, SendCodeInv
<1>7. CASE CountSends(r) \/ EndCodes(r) \/ SendLine(r) \/ Mail(r) \/ NotMailed(r)
  BY <1>7, CountSendsInv, EndCodesInv, SendLineInv, MailInv, NotMailedInv
<1>8. CASE Revoke(r) \/ RevokeRow(r) \/ RevokeSessions(r) \/ Revoked(r) \/ Fail(r)
  BY <1>8, RevokeInv, RevokeRowInv, RevokeSessionsInv, RevokedInv, FailInv
<1> QED
  BY <1>1, <1>2, <1>3, <1>4, <1>5, <1>6, <1>7, <1>8 DEF Step

LEMMA NextInv == LinkInv /\ [Next]_vars => LinkInv'
<1> SUFFICES ASSUME LinkInv, [Next]_vars PROVE LinkInv'
  OBVIOUS
<1>1. \/ /\ SessionsKept /\ codes' \in [Reqs -> Codes]
         /\ lent' \in BOOLEAN /\ over' \in BOOLEAN
      \/ \E r \in Reqs : Step(r)
  <2>1. CASE UNCHANGED vars
    BY <2>1 DEF vars, SessionsKept, LinkInv, TypeOK
  <2>2. ASSUME NEW s \in Reqs, SessionLapses(s)
        PROVE  SessionsKept /\ codes' \in [Reqs -> Codes] /\ lent' \in BOOLEAN /\ over' \in BOOLEAN
    BY <2>2 DEF SessionLapses, SessionsKept, Sessions, LinkInv, TypeOK, world
  <2>3. ASSUME NEW c \in Reqs, CodeLapses(c)
        PROVE  SessionsKept /\ codes' \in [Reqs -> Codes] /\ lent' \in BOOLEAN /\ over' \in BOOLEAN
    BY <2>3 DEF CodeLapses, SessionsKept, Codes, LinkInv, TypeOK, world
  <2>4. CASE Lend \/ Expire
    BY <2>4 DEF Lend, Expire, SessionsKept, LinkInv, TypeOK, rows
  <2> QED
    BY <2>1, <2>2, <2>3, <2>4 DEF Next, Quiet
<1>2. CASE \E r \in Reqs : Step(r)
  BY <1>2, StepInv
<1>3. CASE ~\E r \in Reqs : Step(r)
  <2>1. UNCHANGED <<made, link, draft, jar, log, hands, at, req>>
    BY <1>3 DEF Next, Quiet, vars, SessionLapses, CodeLapses, Lend, Expire, world, rows, hands
  <2> QED
    BY <1>1, <1>3, <2>1, WorldInv
<1> QED
  BY <1>2, <1>3

-----------------------------------------------------------------------------
\* The inductive invariant holds: what is on the row is what was answered,
\* and a draft is one request's own.
THEOREM SpecInv == Spec => []LinkInv
BY InitInv, NextInv, PTL DEF Spec

\* The types hold, for any number of requests.
THEOREM SpecTyped == Spec => []TypeOK
<1>1. LinkInv => TypeOK
  BY DEF LinkInv
<1> QED
  BY <1>1, SpecInv, PTL

\* Every Open answered is on the link's count once, and there are never more
\* of them than the link allows (unlock and countOpen).
THEOREM OpensCounted == Spec => []EveryOpenCounted
<1>1. LinkInv => EveryOpenCounted
  BY DEF LinkInv, CountInv, RowInv, Within, EveryOpenCounted
<1> QED
  BY <1>1, SpecInv, PTL

\* Every wrong try answered is counted once, the link locks at the limit, and
\* once (tryFactors and refuse).
THEOREM TriesCounted == Spec => []TenTries
<1>1. LinkInv => TenTries
  BY DEF LinkInv, CountInv, Wrongs, RowInv, Within, TenTries
<1> QED
  BY <1>1, SpecInv, PTL

\* A session's first download is counted, its others are not, and the sessions
\* that had one are never more than the link allows (sessionContent).
THEOREM DownloadsCounted == Spec => []DownloadsCountedOnce
<1>1. LinkInv => DownloadsCountedOnce
  BY DEF LinkInv, CountInv, Downloaded, RowInv, Within, DownloadsCountedOnce
<1> QED
  BY <1>1, SpecInv, PTL

\* So every limit of a link is kept, however many requests meet at it.
THEOREM LimitsHold == Spec => []LimitsKept
BY OpensCounted, TriesCounted, DownloadsCounted, PTL DEF LimitsKept

\* The address a code goes to is kept exactly while the link may be opened
\* (the trigger share_link_factors_fixed).
THEOREM AddressKept == Spec => []AddressWhileLive
<1>1. LinkInv => AddressWhileLive
  BY DEF LinkInv, RowInv, Within, AddressWhileLive
<1> QED
  BY <1>1, SpecInv, PTL

-----------------------------------------------------------------------------
(* One browser, one Open a code, the newest code, nothing after the end.   *)

\* What every step by a request leaves alone: the others' places and what they
\* came with, and what they hold.
Framed(r) ==
  /\ at'[r] # "idle"
  /\ \A q \in Reqs \ {r} : /\ at'[q] = at[q] /\ req'[q] = req[q] /\ answer'[q] = answer[q]
                           /\ code'[q] = code[q] /\ todo'[q] = todo[q]
  /\ \A l \in Locks : held'[l] = held[l] \/ (held[l] \in {None, r} /\ held'[l] \in {None, r})
  /\ at[r] # "idle" => req'[r] = req[r]
  /\ at'[r] # "done" => answer'[r] = answer[r]
  /\ at'[r] = "done" => code'[r] = None /\ \A l \in Locks : held'[l] # r

LEMMA AnsweredFrames ==
  ASSUME LinkInv, NEW r \in Reqs, NEW a, Answered(r, a),
         \A q \in Reqs \ {r} : req'[q] = req[q], at[r] # "idle" => req'[r] = req[r]
  PROVE  Framed(r) /\ at'[r] = "done" /\ answer'[r] = a
<1>1. r # None
  BY LinksAssumption
<1> QED
  BY <1>1 DEF Answered, Goes, Framed, LinkInv, TypeOK

LEMMA GoesFrames ==
  ASSUME LinkInv, NEW r \in Reqs, NEW x, x \notin {"idle", "done"}, Goes(r, x), UNCHANGED answer,
         \A q \in Reqs \ {r} : req'[q] = req[q], at[r] # "idle" => req'[r] = req[r],
         \A q \in Reqs \ {r} : code'[q] = code[q] /\ todo'[q] = todo[q],
         \A l \in Locks : held'[l] = held[l] \/ (held[l] \in {None, r} /\ held'[l] \in {None, r})
  PROVE  Framed(r) /\ at'[r] = x
BY DEF Goes, Framed, LinkInv, TypeOK

LEMMA TakeFrames ==
  ASSUME LinkInv, NEW r \in Reqs, NEW l \in Locks, held[l] \in {None, r}, Take(l, r)
  PROVE  /\ held'[l] = r
         /\ \A m \in Locks \ {l} : held'[m] = held[m]
         /\ \A m \in Locks : held'[m] = held[m] \/ (held[m] \in {None, r} /\ held'[m] \in {None, r})
BY DEF Take, LinkInv, TypeOK

\* How each kind of step ends: in an answer, or at another step.
LEMMA OpenFrames ==
  ASSUME LinkInv, NEW r \in Reqs, NEW b \in Browsers, NEW n \in Reqs \union {None},
         NEW right \in BOOLEAN,
         Open(r, b, n, right) \/ Fetch(r, b, n) \/ SendCode(r, b)
  PROVE  Framed(r)
<1>1. /\ at[r] = "idle" /\ \A q \in Reqs \ {r} : req'[q] = req[q]
  BY DEF Open, Fetch, SendCode, Arrives, LinkInv, TypeOK
<1>2. ASSUME NEW a, Answered(r, a) PROVE Framed(r)
  BY <1>1, <1>2, AnsweredFrames
<1>3. ASSUME NEW x \in Steps \ {"idle", "done"}, Goes(r, x), UNCHANGED <<held, todo, answer>>,
             \A q \in Reqs \ {r} : code'[q] = code[q]
      PROVE  Framed(r)
  BY <1>1, <1>3, GoesFrames
<1>4. CASE Open(r, b, n, right)
  <2>1. \/ \E a : Answered(r, a)
        \/ /\ \E x \in {"device", "count", "try", "codeRow"} : Goes(r, x)
           /\ UNCHANGED <<held, todo, answer>> /\ \A q \in Reqs \ {r} : code'[q] = code[q]
    BY <1>4 DEF Open, Undone, AfterFactors, LinkInv, TypeOK
  <2> QED
    BY <1>2, <1>3, <2>1 DEF Steps
<1>5. CASE Fetch(r, b, n)
  <2>1. \/ \E a : Answered(r, a)
        \/ /\ \E x \in {"dropSession", "dropLink", "touch"} : Goes(r, x)
           /\ UNCHANGED <<held, code, todo, answer>>
    BY <1>5 DEF Fetch, Undone, hands
  <2> QED
    BY <1>2, <1>3, <2>1 DEF Steps
<1>6. CASE SendCode(r, b)
  <2>1. \/ \E a : Answered(r, a)
        \/ Goes(r, "send") /\ UNCHANGED <<held, code, todo, answer>>
    BY <1>6 DEF SendCode, Undone, hands
  <2> QED
    BY <1>2, <1>3, <2>1 DEF Steps
<1> QED
  BY <1>4, <1>5, <1>6

LEMMA MovesFrame ==
  ASSUME LinkInv, NEW r \in Reqs,
         \/ TakeCode(r) \/ AskTry(r) \/ Reserve(r) \/ Right(r) \/ Wrong(r) \/ Lock(r) \/ Locked(r)
         \/ AskBind(r) \/ Bind(r) \/ AskCount(r) \/ CountOpen(r) \/ Clear(r) \/ Opened(r)
         \/ Drop(r) \/ Touch(r) \/ Gives(r) \/ CountDownload(r) \/ Finish(r)
         \/ CountSends(r) \/ EndCodes(r) \/ SendLine(r) \/ Mail(r) \/ NotMailed(r)
         \/ Revoke(r) \/ RevokeRow(r) \/ RevokeSessions(r) \/ Revoked(r) \/ Fail(r)
  PROVE  Framed(r)
<1>1. UNCHANGED req
  BY DEF TakeCode, AskTry, Reserve, Right, Wrong, Lock, Locked, AskBind, Bind, AskCount, CountOpen, Clear,
         Opened, Drop, Touch, Gives, CountDownload, Finish, CountSends, EndCodes, SendLine, Mail, NotMailed,
         Revoke, RevokeRow, RevokeSessions, Revoked, Fail
<1>2. ASSUME NEW a, Answered(r, a) PROVE Framed(r)
  BY <1>1, <1>2, AnsweredFrames
<1>3. ASSUME NEW x \in Steps \ {"idle", "done"}, Goes(r, x), UNCHANGED answer,
             \A q \in Reqs \ {r} : code'[q] = code[q] /\ todo'[q] = todo[q],
             \A l \in Locks : held'[l] = held[l] \/ (held[l] \in {None, r} /\ held'[l] \in {None, r})
      PROVE  Framed(r)
  BY <1>1, <1>3, GoesFrames
<1>4. ASSUME NEW x \in Steps \ {"idle", "done"}, Goes(r, x), UNCHANGED <<answer, held>>,
             \A q \in Reqs \ {r} : code'[q] = code[q] /\ todo'[q] = todo[q]
      PROVE  Framed(r)
  BY <1>3, <1>4
<1>5. ASSUME NEW x \in Steps \ {"idle", "done"}, Goes(r, x), UNCHANGED answer,
             NEW l \in Locks, held[l] \in {None, r}, Take(l, r),
             \A q \in Reqs \ {r} : code'[q] = code[q] /\ todo'[q] = todo[q]
      PROVE  Framed(r)
  BY <1>3, <1>5, TakeFrames
<1>6. CASE TakeCode(r)
  <2>1. code[r] \in Reqs \/ code[r] = None
    BY DEF LinkInv, TypeOK
  <2>2. Goes(r, "try") /\ UNCHANGED <<todo, answer>> /\ \A q \in Reqs \ {r} : code'[q] = code[q]
    BY <1>6 DEF TakeCode, LinkInv, TypeOK
  <2>3. \A l \in Locks : held'[l] = held[l] \/ (held[l] = None /\ held'[l] = r)
    <3>1. UNCHANGED held \/ (Take(CodeRow(code[r]), r) /\ held[CodeRow(code[r])] = None)
      BY <1>6 DEF TakeCode, Free
    <3> QED
      BY <3>1 DEF Take, LinkInv, TypeOK
  <2> QED
    BY <1>3, <2>2, <2>3 DEF Steps
<1>7. CASE AskTry(r) \/ AskBind(r) \/ AskCount(r) \/ Gives(r) \/ Revoke(r)
  BY <1>2, <1>4, <1>7 DEF AskTry, AskBind, AskCount, Gives, Revoke, Undone, RefusedKeeping, SessionEnds, hands, Steps
<1>8. CASE Reserve(r) \/ Bind(r) \/ CountOpen(r) \/ CountDownload(r) \/ RevokeRow(r)
  <2>1. \/ \E a : Answered(r, a)
        \/ /\ \E x \in {"check", "count", "clear", "finish", "endSessions"} : Goes(r, x)
           /\ held[LinkRow] \in {None, r} /\ Take(LinkRow, r) /\ UNCHANGED <<answer, code>>
           /\ \A q \in Reqs \ {r} : todo'[q] = todo[q]
    BY <1>8 DEF Reserve, Bind, CountOpen, CountDownload, RevokeRow, Undone, RefusedKeeping, SessionEnds, Free,
                LinkInv, TypeOK
  <2> QED
    BY <1>2, <1>5, <2>1, LocksDiffer DEF Steps
<1>9. CASE Right(r)
  <2>1. held[LinkRow] = r
    BY <1>9 DEF Right, LinkInv, Local, Holding
  <2>2. \A l \in Locks : held'[l] = held[l] \/ (held[l] \in {None, r} /\ held'[l] \in {None, r})
    BY <1>9, <2>1, LocksDiffer DEF Right, LinkInv, TypeOK
  <2> QED
    BY <1>3, <1>9, <2>2 DEF Right, AfterFactors, Steps
<1>10. CASE Lock(r) \/ RevokeSessions(r)
  <2>1. PICK x \in {"lockLine", "revokeLine"} : EndSessions(r, x)
    BY <1>10 DEF Lock, RevokeSessions
  <2>2. \A l \in Locks : held'[l] = held[l] \/ (held[l] \in {None, r} /\ held'[l] \in {None, r})
    BY <2>1 DEF EndSessions, Free
  <2> QED
    BY <1>3, <1>10, <2>1, <2>2 DEF EndSessions, Lock, RevokeSessions, Steps
<1>11. CASE Clear(r)
  <2>1. /\ at[r] = "clear" /\ UNCHANGED <<answer, code>> /\ todo[r] \subseteq Reqs
        /\ \A q \in Reqs \ {r} : todo'[q] = todo[q]
    BY <1>11 DEF Clear, LinkInv, TypeOK
  <2>2. \/ Goes(r, "view") /\ UNCHANGED held
        \/ /\ Goes(r, "clear")
           /\ \E s \in Reqs : held[SessionRow(s)] \in {None, r} /\ Take(SessionRow(s), r)
    BY <1>11, <2>1 DEF Clear, Free, Goes, LinkInv, TypeOK
  <2> QED
    BY <1>4, <1>5, <2>1, <2>2, LocksDiffer DEF Steps
<1>12. CASE Touch(r) \/ CountSends(r) \/ SendLine(r)
  <2>1. at[r] = "touch" => req[r].names \in Reqs
    BY DEF LinkInv, Local, Fetching
  <2>2. \/ \E a : Answered(r, a)
        \/ /\ \E x \in {"gives", "endCodes", "mail"} : Goes(r, x)
           /\ \E l \in Locks : held[l] \in {None, r} /\ Take(l, r)
           /\ UNCHANGED <<answer, code>> /\ \A q \in Reqs \ {r} : todo'[q] = todo[q]
    BY <1>12, <2>1, LocksDiffer DEF Touch, CountSends, SendLine, Undone, Free, SendFree, LinkInv, TypeOK
  <2> QED
    BY <1>2, <1>5, <2>2 DEF Steps
<1>13. CASE EndCodes(r)
  <2>1. /\ at[r] = "endCodes" /\ UNCHANGED <<answer, code>> /\ todo[r] \subseteq Reqs
        /\ \A q \in Reqs \ {r} : todo'[q] = todo[q]
    BY <1>13 DEF EndCodes, LinkInv, TypeOK
  <2>2. \/ \E x \in {"sendLine", "endCodes"} : Goes(r, x) /\ UNCHANGED held
        \/ /\ Goes(r, "endCodes")
           /\ \E c \in Reqs : held[CodeRow(c)] \in {None, r} /\ Take(CodeRow(c), r)
    BY <1>13, <2>1 DEF EndCodes, Free, Goes, LinkInv, TypeOK
  <2> QED
    BY <1>4, <1>5, <2>1, <2>2, LocksDiffer DEF Steps
<1>14. CASE Wrong(r) \/ Locked(r) \/ Opened(r) \/ Drop(r) \/ Finish(r) \/ Mail(r) \/ NotMailed(r)
            \/ Revoked(r) \/ Fail(r)
  BY <1>2, <1>14 DEF Wrong, Locked, Opened, Drop, Finish, Mail, NotMailed, Revoked, Fail, Undone, SessionEnds
<1> QED
  BY <1>6, <1>7, <1>8, <1>9, <1>10, <1>11, <1>12, <1>13, <1>14

LEMMA StepFrames == ASSUME LinkInv, NEW r \in Reqs, Step(r) PROVE Framed(r)
BY OpenFrames, MovesFrame DEF Step

LEMMA StepNotDone == ASSUME LinkInv, NEW r \in Reqs, Step(r) PROVE at[r] # "done"
<1>1. CASE Fail(r)
  <2>1. PICK S \in SUBSET Reqs : r \in S /\ Circle(S)
    BY <1>1 DEF Fail
  <2> QED
    BY <2>1 DEF Circle, WaitsFor, Wants
<1>2. CASE \/ TakeCode(r) \/ AskTry(r) \/ Reserve(r) \/ Right(r) \/ Wrong(r) \/ Lock(r) \/ Locked(r)
           \/ AskBind(r) \/ Bind(r) \/ AskCount(r) \/ CountOpen(r) \/ Clear(r) \/ Opened(r)
           \/ Drop(r) \/ Touch(r) \/ Gives(r) \/ CountDownload(r) \/ Finish(r)
           \/ CountSends(r) \/ EndCodes(r) \/ SendLine(r) \/ Mail(r) \/ NotMailed(r)
           \/ Revoke(r) \/ RevokeRow(r) \/ RevokeSessions(r) \/ Revoked(r)
  BY <1>2 DEF TakeCode, AskTry, Reserve, Right, Wrong, Lock, Locked, AskBind, Bind, AskCount, CountOpen,
              Clear, Opened, Drop, Touch, Gives, CountDownload, Finish, CountSends, EndCodes, SendLine, Mail,
              NotMailed, Revoke, RevokeRow, RevokeSessions, Revoked
<1> QED
  BY <1>1, <1>2 DEF Step, Open, Fetch, SendCode, Arrives

\* What a step writes of the link's row: nothing while another holds it, in
\* its own draft first, and to the row the draft.
RowsFramed(r) ==
  /\ held[LinkRow] \notin {None, r} => UNCHANGED <<link, draft>>
  /\ link' = link \/ (link' = draft /\ draft' = draft /\ held[LinkRow] = r /\ at'[r] = "done")
  /\ \/ draft' = draft
     \/ draft' = link /\ held'[LinkRow] # r
     \/ /\ held[LinkRow] \in {None, r} /\ held'[LinkRow] = r /\ link' = link /\ at'[r] # "done"
        /\ IF at[r] = "revokeRow" THEN draft'.revoked ELSE draft'.revoked = draft.revoked
        /\ draft'.device = IF at[r] = "bindRow" THEN r ELSE draft.device
        /\ at[r] = "bindRow" => link.device = None /\ at'[r] = "count"
        /\ at[r] = "revokeRow" => ~link.revoked
  /\ at'[r] = "endSessions" => at[r] = "revokeRow" /\ draft' # draft
  /\ at'[r] = "revokeLine" => at[r] = "endSessions" /\ UNCHANGED <<link, draft>>

LEMMA UndoneRows ==
  ASSUME LinkInv, NEW r \in Reqs, NEW a, Answered(r, a), DraftDropped(r), link' = link
  PROVE  RowsFramed(r)
<1>1. r # None /\ at'[r] = "done" /\ held'[LinkRow] # r
  BY LinksAssumption, LocksDiffer DEF Answered, Goes, LinkInv, TypeOK
<1>2. held[LinkRow] = None => draft = link
  BY DEF LinkInv, RowInv
<1> QED
  BY <1>1, <1>2 DEF DraftDropped, RowsFramed

LEMMA AskedRows ==
  ASSUME LinkInv, NEW r \in Reqs, NEW x, Goes(r, x), x \notin {"endSessions", "revokeLine"},
         UNCHANGED <<link, draft>>
  PROVE  RowsFramed(r)
BY DEF Goes, RowsFramed, LinkInv, TypeOK

LEMMA StepRows == ASSUME LinkInv, NEW r \in Reqs, Step(r) PROVE RowsFramed(r)
<1>1. ASSUME NEW a, Answered(r, a), DraftDropped(r), link' = link PROVE RowsFramed(r)
  BY <1>1, UndoneRows
<1>2. ASSUME NEW x, Goes(r, x), x \notin {"endSessions", "revokeLine"}, UNCHANGED <<link, draft>>
      PROVE  RowsFramed(r)
  BY <1>2, AskedRows
<1>3. ASSUME NEW b \in Browsers, NEW n \in Reqs \union {None}, NEW right \in BOOLEAN,
             Open(r, b, n, right) \/ Fetch(r, b, n) \/ SendCode(r, b)
      PROVE  RowsFramed(r)
  <2>1. \/ \E a : Answered(r, a) /\ DraftDropped(r) /\ link' = link
        \/ /\ \E x \in {"device", "count", "try", "codeRow", "dropSession", "dropLink", "touch", "send"} : Goes(r, x)
           /\ UNCHANGED <<link, draft>>
    BY <1>3 DEF Open, Fetch, SendCode, Undone, AfterFactors, rows
  <2> QED
    BY <1>1, <1>2, <2>1
<1>4. CASE \/ TakeCode(r) \/ AskTry(r) \/ Lock(r) \/ AskBind(r) \/ AskCount(r) \/ Clear(r) \/ Drop(r)
           \/ Touch(r) \/ Gives(r) \/ CountSends(r) \/ EndCodes(r) \/ SendLine(r) \/ NotMailed(r)
           \/ Revoke(r) \/ Fail(r)
  <2>1. ASSUME UNCHANGED at, UNCHANGED <<link, draft>>, at[r] \notin {"endSessions", "revokeLine"}
        PROVE  RowsFramed(r)
    BY <2>1 DEF RowsFramed
  <2>2. \/ \E a : Answered(r, a) /\ DraftDropped(r) /\ link' = link
        \/ /\ \E x \in {"try", "tryRow", "lockLine", "count", "bindRow", "countRow", "view", "gives", "finish",
                        "downRow", "endCodes", "sendLine", "mail", "revokeRow"} : Goes(r, x)
           /\ UNCHANGED <<link, draft>>
        \/ UNCHANGED <<at, link, draft>> /\ at[r] \notin {"endSessions", "revokeLine"}
    BY <1>4 DEF TakeCode, AskTry, Lock, EndSessions, AskBind, AskCount, Clear, Drop, Touch, Gives, CountSends,
                EndCodes, SendLine, NotMailed, Revoke, Fail, Undone, RefusedKeeping, SessionEnds, rows
  <2> QED
    BY <1>1, <1>2, <2>1, <2>2
<1>5. CASE Mail(r)
  <2>1. UNCHANGED <<link, draft>> /\ at'[r] = "done"
    BY <1>5 DEF Mail, Answered, Goes, LinkInv, TypeOK
  <2> QED
    BY <2>1 DEF RowsFramed
<1>6. CASE Reserve(r) \/ Bind(r) \/ CountOpen(r) \/ CountDownload(r) \/ RevokeRow(r)
  <2>1. CASE \E a : Answered(r, a) /\ DraftDropped(r) /\ link' = link
    BY <1>1, <2>1
  <2>2. CASE ~\E a : Answered(r, a) /\ DraftDropped(r) /\ link' = link
    <3>1. held[LinkRow] \in {None, r} /\ Take(LinkRow, r) /\ link' = link
      BY <1>6, <2>2 DEF Reserve, Bind, CountOpen, CountDownload, RevokeRow, Undone, RefusedKeeping, SessionEnds,
                        Free
    <3>2. held'[LinkRow] = r
      BY <3>1, LocksDiffer, TakeFrames
    <3>3. Seen(r) = draft /\ (held[LinkRow] = None => draft = link) /\ r # None /\ draft \in Rows /\ link \in Rows
      BY <3>1, LinksAssumption DEF Seen, LinkInv, RowInv, TypeOK
    <3>4. ASSUME NEW l \in Rows PROVE Written(l).revoked = l.revoked /\ Written(l).device = l.device
      BY DEF Written, Rows
    <3>5. CASE Reserve(r)
      <4>1. at[r] = "tryRow" /\ at'[r] = "check" /\ held[LinkRow] = None
            /\ draft' = Written([link EXCEPT !.tries = @ + 1])
        BY <2>2, <3>5 DEF Reserve, Undone, Goes, Free, LinkInv, TypeOK
      <4>2. draft'.revoked = link.revoked /\ draft'.device = link.device
        BY <3>3, <3>4, <4>1 DEF Rows
      <4> QED
        BY <3>1, <3>2, <3>3, <4>1, <4>2, LinksAssumption DEF RowsFramed
    <3>6. CASE Bind(r)
      <4>1. at[r] = "bindRow" /\ at'[r] = "count" /\ held[LinkRow] = None /\ link.device = None
            /\ draft' = [link EXCEPT !.device = r]
        BY <2>2, <3>6 DEF Bind, RefusedKeeping, Goes, Free, Unbound, LinkInv, TypeOK
      <4>2. draft'.revoked = link.revoked /\ draft'.device = r
        BY <3>3, <4>1 DEF Rows
      <4> QED
        BY <3>1, <3>2, <3>3, <4>1, <4>2, LinksAssumption DEF RowsFramed
    <3>7. CASE CountOpen(r)
      <4>1. at[r] = "countRow" /\ at'[r] = "clear" /\ draft' = Written([draft EXCEPT !.opens = @ + 1])
        BY <2>2, <3>3, <3>7 DEF CountOpen, RefusedKeeping, Goes, LinkInv, TypeOK
      <4>2. draft'.revoked = draft.revoked /\ draft'.device = draft.device
        BY <3>3, <3>4, <4>1 DEF Rows
      <4> QED
        BY <3>1, <3>2, <3>3, <4>1, <4>2 DEF RowsFramed
    <3>8. CASE CountDownload(r)
      <4>1. at[r] = "downRow" /\ at'[r] = "finish" /\ held[LinkRow] = None
            /\ draft' = [link EXCEPT !.downloads = @ + 1]
        BY <2>2, <3>8 DEF CountDownload, Undone, SessionEnds, Goes, Free, LinkInv, TypeOK
      <4>2. draft'.revoked = link.revoked /\ draft'.device = link.device
        BY <3>3, <4>1 DEF Rows
      <4> QED
        BY <3>1, <3>2, <3>3, <4>1, <4>2, LinksAssumption DEF RowsFramed
    <3>9. CASE RevokeRow(r)
      <4>1. at[r] = "revokeRow" /\ at'[r] = "endSessions" /\ held[LinkRow] = None /\ ~link.revoked
            /\ draft' = Written([link EXCEPT !.revoked = TRUE])
        BY <2>2, <3>9 DEF RevokeRow, Undone, Goes, Free, LinkInv, TypeOK
      <4>2. draft'.revoked /\ draft'.device = link.device
        <5> DEFINE l == [link EXCEPT !.revoked = TRUE]
        <5>1. l \in Rows /\ l.revoked /\ l.device = link.device
          BY <3>3 DEF Rows
        <5> QED
          BY <3>4, <4>1, <5>1
      <4> QED
        BY <3>1, <3>2, <3>3, <4>1, <4>2, LinksAssumption DEF RowsFramed
    <3> QED
      BY <1>6, <3>5, <3>6, <3>7, <3>8, <3>9
  <2> QED
    BY <2>1, <2>2
<1>7. CASE Right(r)
  <2>1. held[LinkRow] = r /\ link' = link /\ draft' = link /\ held'[LinkRow] = None /\ r # None
        /\ at'[r] \in {"device", "count"}
    BY <1>7, LinksAssumption, LocksDiffer DEF Right, AfterFactors, Goes, LinkInv, Local, Holding, TypeOK
  <2> QED
    BY <2>1 DEF RowsFramed
<1>8. CASE Wrong(r) \/ Locked(r) \/ Opened(r) \/ Revoked(r)
  <2>1. at[r] \in Holding => held[LinkRow] = r
    BY DEF LinkInv, Local
  <2>2. CASE \E a : Answered(r, a) /\ DraftDropped(r) /\ link' = link
    BY <1>1, <2>2
  <2>3. CASE ~\E a : Answered(r, a) /\ DraftDropped(r) /\ link' = link
    <3>1. link' = draft /\ draft' = draft /\ held[LinkRow] = r /\ at'[r] = "done"
      BY <1>8, <2>1, <2>3 DEF Wrong, Locked, Opened, Revoked, Undone, Answered, Goes, Holding, LinkInv, TypeOK
    <3> QED
      BY <3>1 DEF RowsFramed
  <2> QED
    BY <2>2, <2>3
<1>9. CASE RevokeSessions(r)
  <2>1. /\ at[r] = "endSessions" /\ at'[r] = "revokeLine" /\ UNCHANGED <<link, draft>>
    BY <1>9 DEF RevokeSessions, EndSessions, Goes, rows, LinkInv, TypeOK
  <2> QED
    BY <2>1 DEF RowsFramed
<1>10. CASE Finish(r)
  <2>1. CASE Live(Seen(r))
    <3>1. /\ at'[r] = "done" /\ draft' = draft
          /\ link' = link \/ (held[LinkRow] = r /\ link' = draft)
      BY <1>10, <2>1 DEF Finish, Answered, Goes, LinkInv, TypeOK
    <3>2. held[LinkRow] \notin {None, r} => link' = link
      BY <3>1
    <3> QED
      BY <3>1, <3>2 DEF RowsFramed
  <2> QED
    BY <1>1, <1>10, <2>1 DEF Finish, SessionEnds
<1> QED
  BY <1>3, <1>4, <1>5, <1>6, <1>7, <1>8, <1>9, <1>10 DEF Step

\* What a step answers that opens, gives, sends or ends something, and the
\* lines that go with it: nothing else writes any.
LEMMA StepTells ==
  ASSUME LinkInv, NEW r \in Reqs, Step(r)
  PROVE  \/ (Opened(r) /\ Live(draft)) \/ (Finish(r) /\ Live(Seen(r))) \/ Mail(r) \/ Locked(r) \/ Revoked(r)
         \/ log' = log /\ answer'[r] \notin {"opened", "given", "sent", "locked", "revoked"}
<1> DEFINE Plainly == log' = log /\ answer'[r] \notin {"opened", "given", "sent", "locked", "revoked"}
<1>1. answer[r] = "none"
  BY StepNotDone DEF LinkInv, Local
<1>2. ASSUME UNCHANGED <<answer, log>> PROVE Plainly
  BY <1>1, <1>2
<1>3. ASSUME NEW a \in {"gone", "used up", "other device", "wrong", "session ended", "no code", "limit",
                        "not sent", "failed"},
             Answered(r, a), log' = log
      PROVE  Plainly
  BY <1>3 DEF Answered, LinkInv, TypeOK
<1>4. ASSUME NEW b \in Browsers, NEW n \in Reqs \union {None}, NEW right \in BOOLEAN,
             Open(r, b, n, right) \/ Fetch(r, b, n) \/ SendCode(r, b)
      PROVE  Plainly
  <2>1. \/ UNCHANGED <<answer, log>>
        \/ log' = log /\ \E a \in {"gone", "used up", "other device", "session ended", "no code"} : Answered(r, a)
    BY <1>4 DEF Open, Fetch, SendCode, Undone, rows, hands, WhyGone
  <2> QED
    BY <1>2, <1>3, <2>1
<1>5. CASE \/ TakeCode(r) \/ AskTry(r) \/ Reserve(r) \/ Right(r) \/ Wrong(r) \/ Lock(r)
           \/ AskBind(r) \/ Bind(r) \/ AskCount(r) \/ CountOpen(r) \/ Clear(r)
  <2>1. \/ UNCHANGED <<answer, log>>
        \/ log' = log /\ \E a \in {"gone", "used up", "other device", "wrong"} : Answered(r, a)
    BY <1>5 DEF TakeCode, AskTry, Reserve, Right, Wrong, Lock, AskBind, Bind, AskCount, CountOpen, Clear,
                Undone, RefusedKeeping, rows, hands
  <2> QED
    BY <1>2, <1>3, <2>1
<1>6. CASE \/ Drop(r) \/ Touch(r) \/ Gives(r) \/ CountDownload(r) \/ CountSends(r) \/ EndCodes(r)
           \/ SendLine(r) \/ NotMailed(r) \/ Revoke(r) \/ RevokeRow(r) \/ RevokeSessions(r) \/ Fail(r)
  <2>1. \/ UNCHANGED <<answer, log>>
        \/ /\ log' = log
           /\ \E a \in {"gone", "used up", "session ended", "limit", "not sent", "failed"} : Answered(r, a)
    BY <1>6 DEF Drop, Touch, Gives, CountDownload, CountSends, EndCodes, SendLine, NotMailed, Revoke,
                RevokeRow, RevokeSessions, Fail, Undone, SessionEnds, WhyGone, rows, hands
  <2> QED
    BY <1>2, <1>3, <2>1
<1>7. CASE Opened(r) /\ ~Live(draft)
  BY <1>3, <1>7 DEF Opened, Undone
<1>8. CASE Finish(r) /\ ~Live(Seen(r))
  BY <1>3, <1>8 DEF Finish, SessionEnds
<1>9. CASE Opened(r) \/ Finish(r) \/ Mail(r) \/ Locked(r) \/ Revoked(r)
  BY <1>7, <1>8, <1>9
<1> QED
  <2>1. ASSUME NEW b \in Browsers, NEW n \in Reqs \union {None}, NEW right \in BOOLEAN, Open(r, b, n, right)
        PROVE  Plainly
    BY <1>4, <2>1
  <2>2. ASSUME NEW b \in Browsers, NEW s \in Reqs, Fetch(r, b, s) PROVE Plainly
    BY <1>4, <2>2
  <2>3. ASSUME NEW b \in Browsers, SendCode(r, b) PROVE Plainly
    BY <1>4, <2>3
  <2> QED
    BY <1>5, <1>6, <1>9, <2>1, <2>2, <2>3 DEF Step

\* The log is as it was, or has the line of the request answered.
LEMMA StepLogs ==
  ASSUME LinkInv, NEW r \in Reqs, Step(r)
  PROVE  log' = log \/ (log' = Append(log, r) /\ at'[r] = "done")
<1>1. CASE (Opened(r) /\ Live(draft)) \/ (Finish(r) /\ Live(Seen(r))) \/ Mail(r) \/ Locked(r) \/ Revoked(r)
  BY <1>1 DEF Opened, Finish, Mail, Locked, Revoked, LineWritten, Answered, Goes, LinkInv, TypeOK
<1> QED
  BY <1>1, StepTells

LEMMA EndsLoggedStep ==
  ASSUME LinkInv, EndsLogged, NEW r \in Reqs, Step(r)
  PROVE  EndsLogged'
<1>1. Framed(r) /\ RowsFramed(r) /\ at[r] # "done"
  BY StepFrames, StepRows, StepNotDone
<1>2. link.revoked => link'.revoked
  BY <1>1 DEF RowsFramed, EndsLogged
<1>3. \A i \in DOMAIN log' : at'[log'[i]] = "done"
  <2>1. \A i \in DOMAIN log : log[i] \in Reqs /\ at[log[i]] = "done"
    BY DEF EndsLogged, LinkInv, TypeOK
  <2>2. \A i \in DOMAIN log : at'[log[i]] = "done"
    BY <1>1, <2>1 DEF Framed
  <2>3. CASE log' = Append(log, r) /\ at'[r] = "done"
    <3>1. \A i \in DOMAIN log' : log'[i] = r \/ (i \in DOMAIN log /\ log'[i] = log[i])
      BY <2>3 DEF LinkInv, TypeOK
    <3> QED
      BY <2>2, <2>3, <3>1
  <2> QED
    BY <2>2, <2>3, StepLogs
<1>4. Got("revoked")' # {} => link'.revoked
  <2>1. CASE answer'[r] = "revoked"
    <3>1. answer[r] = "none"
      BY <1>1 DEF LinkInv, Local
    <3>2. Revoked(r)
      BY <2>1, StepTells DEF Opened, Finish, Mail, Locked, Answered, LinkInv, TypeOK
    <3> QED
      BY <3>2 DEF Revoked, EndsLogged
  <2>2. CASE answer'[r] # "revoked"
    <3>1. Got("revoked")' \subseteq Got("revoked")
      BY <1>1, <2>2 DEF Got, Framed
    <3> QED
      BY <1>2, <3>1 DEF EndsLogged
  <2> QED
    BY <2>1, <2>2
<1>5. link'.revoked => draft'.revoked
  BY <1>1 DEF RowsFramed, EndsLogged
<1>6. ASSUME NEW q \in Reqs, at'[q] \in {"endSessions", "revokeLine"}
      PROVE  draft'.revoked /\ ~link'.revoked
  <2>1. CASE q # r
    <3>1. at[q] = at'[q] /\ held[LinkRow] = q /\ q # None
      BY <1>1, <1>6, <2>1, LinksAssumption DEF Framed, LinkInv, Local, Holding
    <3>2. UNCHANGED <<link, draft>>
      BY <1>1, <2>1, <3>1 DEF RowsFramed
    <3> QED
      BY <1>6, <3>1, <3>2 DEF EndsLogged
  <2>2. CASE q = r /\ at'[r] = "endSessions"
    <3>1. held'[LinkRow] = r
      BY <2>2, NextInv DEF Next, LinkInv, Local, Holding
    <3> QED
      BY <1>1, <2>2, <3>1 DEF RowsFramed
  <2>3. CASE q = r /\ at'[r] = "revokeLine"
    BY <1>1, <2>3 DEF RowsFramed, EndsLogged
  <2> QED
    BY <1>6, <2>1, <2>2, <2>3
<1> QED
  BY <1>3, <1>4, <1>5, <1>6 DEF EndsLogged

\* A line after an end: whoever writes one finds the link not ended, but for the
\* two that end it.
LEMMA NothingAfterStep ==
  ASSUME LinkInv, EndsLogged, NothingAfterTheEnd, NEW r \in Reqs, Step(r)
  PROVE  NothingAfterTheEnd'
<1>1. Framed(r) /\ at[r] # "done"
  BY StepFrames, StepNotDone
<1>2. \A i \in DOMAIN log : log[i] \in Reqs /\ answer'[log[i]] = answer[log[i]]
  BY <1>1 DEF Framed, EndsLogged, LinkInv, TypeOK
<1>3. CASE log' = log
  BY <1>2, <1>3 DEF NothingAfterTheEnd
<1>4. CASE log' # log
  <2>1. log' = Append(log, r) /\ log \in Seq(Reqs)
    BY <1>4, StepLogs DEF LinkInv, TypeOK
  <2>2. /\ \A i \in DOMAIN log : i \in DOMAIN log' /\ log'[i] = log[i]
        /\ \A j \in DOMAIN log' : j \in DOMAIN log \/ (log'[j] = r /\ \A i \in DOMAIN log' : i < j => i \in DOMAIN log)
    BY <2>1
  <2>3. /\ Got("revoked") # {} => link.revoked /\ draft.revoked
        /\ Got("locked") # {} => link.tries = MaxTries
    <3>1. Got("locked") # {} => Cardinality(Got("locked")) # 0
      BY FS_EmptySet DEF LinkInv, CountInv
    <3> QED
      BY <3>1 DEF EndsLogged, LinkInv, CountInv
  <2>4. \/ answer'[r] \in {"opened", "given", "sent"} /\ Got("revoked") = {} /\ Got("locked") = {}
        \/ answer'[r] = "locked" /\ Got("locked") = {}
        \/ answer'[r] = "revoked" /\ Got("revoked") = {}
    <3>0. /\ link \in Rows /\ draft \in Rows /\ MaxTries \in Nat
          /\ draft.tries <= MaxTries
      BY LinksAssumption DEF LinkInv, TypeOK, RowInv, Within
    <3>1. CASE Opened(r) /\ Live(draft)
      <4>1. answer'[r] = "opened" /\ draft.tries = link.tries
        BY <3>1 DEF Opened, Answered, LinkInv, TypeOK, Local, Holding, Drafted
      <4> QED
        BY <2>3, <3>0, <3>1, <4>1 DEF Live, Rows
    <3>2. CASE Finish(r) /\ Live(Seen(r))
      <4>1. answer'[r] = "given" /\ held[LinkRow] = r /\ draft.tries = link.tries
        <5>1. at[r] = "finish" /\ answer'[r] = "given" /\ held[LinkRow] = r
          BY <1>4, <3>2 DEF Finish, Answered, LinkInv, TypeOK
        <5> QED
          BY <5>1 DEF LinkInv, Local, Drafted
      <4> QED
        BY <2>3, <3>0, <3>2, <4>1 DEF Live, Seen, Rows
    <3>3. CASE Mail(r)
      <4>1. answer'[r] = "sent"
        BY <3>3 DEF Mail, Answered, LinkInv, TypeOK
      <4> QED
        BY <2>3, <3>0, <3>3, <4>1 DEF Mail, StillLive, Live, Rows
    <3>4. CASE Locked(r)
      <4>1. answer'[r] = "locked" /\ draft.tries = link.tries + 1
        BY <3>4 DEF Locked, Answered, LinkInv, TypeOK, Local, Holding, Drafted
      <4> QED
        BY <2>3, <3>0, <4>1 DEF Rows
    <3>5. CASE Revoked(r)
      <4>1. answer'[r] = "revoked" /\ ~link.revoked
        BY <3>5 DEF Revoked, Answered, LinkInv, TypeOK, EndsLogged
      <4> QED
        BY <2>3, <4>1
    <3> QED
      BY <1>4, <3>1, <3>2, <3>3, <3>4, <3>5, StepTells
  <2>5. ASSUME NEW i \in DOMAIN log', NEW j \in DOMAIN log', i < j
        PROVE  /\ answer'[log'[i]] = "revoked" => answer'[log'[j]] = "locked"
               /\ answer'[log'[i]] = "locked" => answer'[log'[j]] = "revoked"
    <3>1. CASE j \in DOMAIN log
      <4>1. i \in DOMAIN log
        BY <2>1, <2>5, <3>1
      <4> QED
        BY <1>2, <2>2, <2>5, <3>1, <4>1 DEF NothingAfterTheEnd
    <3>2. CASE j \notin DOMAIN log
      <4>1. log'[j] = r /\ i \in DOMAIN log /\ log'[i] = log[i]
        BY <2>2, <2>5, <3>2
      <4>2. answer'[log'[i]] = answer[log[i]] /\ log[i] \in Reqs
        BY <1>2, <4>1
      <4>3. /\ answer'[log'[i]] = "revoked" => Got("revoked") # {}
            /\ answer'[log'[i]] = "locked" => Got("locked") # {}
        BY <4>2 DEF Got
      <4> QED
        BY <2>4, <4>1, <4>3
    <3> QED
      BY <3>1, <3>2
  <2> QED
    BY <2>5 DEF NothingAfterTheEnd
<1> QED
  BY <1>3, <1>4

\* A step leaves the cookies and the sessions' devices as they are, but the
\* Open that is let in, which has its own.
DevicesKept ==
  /\ jar' = jar
  /\ \A s \in Reqs : /\ sessions'[s].device = sessions[s].device
                     /\ sessions'[s].state = "none" <=> sessions[s].state = "none"

LEMMA RemovedDevices ==
  ASSUME LinkInv, NEW S \in SUBSET Reqs, \A s \in S : sessions[s].state # "none"
  PROVE  \A s \in Reqs : /\ SessionsRemoved(S)[s].device = sessions[s].device
                         /\ SessionsRemoved(S)[s].state = "none" <=> sessions[s].state = "none"
<1>1. ASSUME NEW s \in Reqs
      PROVE  /\ [sessions[s] EXCEPT !.state = "ended"].device = sessions[s].device
             /\ [sessions[s] EXCEPT !.state = "ended"].state = "ended"
  BY DEF LinkInv, TypeOK, Sessions
<1> QED
  BY <1>1 DEF SessionsRemoved

LEMMA StepDevices ==
  ASSUME LinkInv, NEW r \in Reqs, Step(r)
  PROVE  DevicesKept \/ (Opened(r) /\ Live(draft))
<1>1. ASSUME NEW a, SessionEnds(r, a), req[r].names \in Reqs, sessions[req[r].names].state # "none"
      PROVE  DevicesKept
  <2> DEFINE S == {req[r].names}
  <2>1. S \in SUBSET Reqs /\ (\A s \in S : sessions[s].state # "none") /\ sessions' = SessionsRemoved(S)
        /\ jar' = jar
    BY <1>1 DEF SessionEnds
  <2> HIDE DEF S
  <2> QED
    BY <2>1, RemovedDevices DEF DevicesKept
<1>2. ASSUME UNCHANGED <<sessions, jar>> PROVE DevicesKept
  BY <1>2 DEF DevicesKept
<1>3. at[r] \in Fetching => req[r].names \in Reqs /\ sessions[req[r].names].state # "none"
  BY DEF LinkInv, Local
<1>4. ASSUME NEW b \in Browsers, NEW n \in Reqs \union {None}, NEW right \in BOOLEAN,
             Open(r, b, n, right) \/ Fetch(r, b, n) \/ SendCode(r, b)
      PROVE  UNCHANGED <<sessions, jar>>
  BY <1>4 DEF Open, Fetch, SendCode, Undone, rows
<1>5. CASE \/ TakeCode(r) \/ AskTry(r) \/ Reserve(r) \/ Right(r) \/ Wrong(r) \/ Lock(r)
           \/ AskBind(r) \/ Bind(r) \/ AskCount(r) \/ CountOpen(r) \/ Clear(r) \/ Touch(r)
           \/ CountSends(r) \/ EndCodes(r) \/ SendLine(r) \/ Mail(r) \/ NotMailed(r)
           \/ Revoke(r) \/ RevokeRow(r) \/ RevokeSessions(r) \/ Fail(r)
  <2>1. UNCHANGED <<sessions, jar>>
    BY <1>5 DEF TakeCode, AskTry, Reserve, Right, Wrong, Lock, AskBind, Bind, AskCount, CountOpen, Clear, Touch,
                CountSends, EndCodes, SendLine, Mail, NotMailed, Revoke, RevokeRow, RevokeSessions, Fail,
                Undone, RefusedKeeping, rows
  <2> QED
    BY <1>2, <2>1
<1>6. CASE Drop(r) \/ Gives(r) \/ CountDownload(r) \/ (Finish(r) /\ ~Live(Seen(r)))
  <2>1. at[r] \in Fetching /\ (UNCHANGED <<sessions, jar>> \/ \E a : SessionEnds(r, a))
    BY <1>6 DEF Drop, Gives, CountDownload, Finish, Undone, rows, Fetching, InSession
  <2> QED
    BY <1>1, <1>2, <1>3, <2>1
<1>7. CASE Locked(r) \/ Revoked(r)
  <2>1. \A s \in HeldSessions(r) : s \in Reqs /\ sessions[s].state # "none"
    BY DEF HeldSessions, LinkInv, Local
  <2>2. sessions' = SessionsRemoved(HeldSessions(r)) /\ jar' = jar
    BY <1>7 DEF Locked, Revoked
  <2> QED
    BY <2>1, <2>2, RemovedDevices DEF DevicesKept
<1>8. CASE Opened(r) /\ ~Live(draft)
  BY <1>2, <1>8 DEF Opened, Undone
<1>9. CASE Finish(r) /\ Live(Seen(r))
  <2>1. jar' = jar /\ sessions' = [sessions EXCEPT ![req[r].names].had = TRUE]
    BY <1>9 DEF Finish
  <2>2. \A s \in Reqs : /\ sessions'[s].device = sessions[s].device
                        /\ sessions'[s].state = sessions[s].state
    BY <2>1 DEF LinkInv, TypeOK, Sessions
  <2> QED
    BY <2>1, <2>2 DEF DevicesKept
<1> QED
  <2>1. ASSUME NEW b \in Browsers, NEW n \in Reqs \union {None}, NEW right \in BOOLEAN, Open(r, b, n, right)
        PROVE  DevicesKept
    BY <1>2, <1>4, <2>1
  <2>2. ASSUME NEW b \in Browsers, NEW s \in Reqs, Fetch(r, b, s) PROVE DevicesKept
    BY <1>2, <1>4, <2>2
  <2>3. ASSUME NEW b \in Browsers, SendCode(r, b) PROVE DevicesKept
    BY <1>2, <1>4, <2>3
  <2> QED
    BY <1>5, <1>6, <1>7, <1>8, <1>9, <2>1, <2>2, <2>3 DEF Step

\* Where a request with a cookie, or one that binds the link, stands next.
LEMMA StepBinds ==
  ASSUME LinkInv, made.oneDevice, NEW r \in Reqs, Step(r)
  PROVE  /\ at[r] # "idle" /\ at'[r] \in Counting =>
              at[r] \in Counting \/ (at[r] = "device" /\ req[r].cookie # None) \/ at[r] = "bindRow"
         /\ at[r] = "idle" => at'[r] \notin Counting \union InSession
         /\ at[r] # "idle" /\ at'[r] \in InSession \union {"touch"} => at[r] \in InSession \union {"touch"}
         /\ answer'[r] = "given" => at[r] \in InSession
         /\ answer'[r] = "opened" => at[r] = "view"
<1>1. at[r] # "done" /\ at[r] \in Steps /\ answer[r] = "none"
  BY StepNotDone DEF LinkInv, TypeOK, Local
<1>2. /\ answer'[r] = "given" => at[r] \in InSession
      /\ answer'[r] = "opened" => at[r] = "view"
  <2>1. ASSUME NEW a, Answered(r, a) PROVE answer'[r] = a
    BY <2>1 DEF Answered, LinkInv, TypeOK
  <2>2. Opened(r) /\ Live(draft) => at[r] = "view" /\ answer'[r] = "opened"
    BY <2>1 DEF Opened
  <2>3. Finish(r) /\ Live(Seen(r)) => at[r] \in InSession /\ answer'[r] = "given"
    BY <2>1 DEF Finish, InSession
  <2>4. Mail(r) \/ Locked(r) \/ Revoked(r) => answer'[r] \in {"sent", "locked", "revoked"}
    BY <2>1 DEF Mail, Locked, Revoked
  <2> QED
    BY <2>2, <2>3, <2>4, StepTells
<1>3. ASSUME at'[r] = "done" PROVE at'[r] \notin Counting \union InSession \union {"touch"}
  BY <1>3 DEF Counting, InSession
<1>4. ASSUME NEW a, Answered(r, a) PROVE at'[r] = "done"
  BY <1>4 DEF Answered, Goes, LinkInv, TypeOK
<1>5. ASSUME NEW x, Goes(r, x) PROVE at'[r] = x
  BY <1>5 DEF Goes, LinkInv, TypeOK
<1>6. ASSUME NEW b \in Browsers, NEW n \in Reqs \union {None}, NEW right \in BOOLEAN,
             Open(r, b, n, right) \/ Fetch(r, b, n) \/ SendCode(r, b)
      PROVE  at[r] = "idle" /\ at'[r] \in {"device", "try", "codeRow", "dropSession", "dropLink", "touch", "send", "done"}
  <2>1. \/ \E a : Answered(r, a)
        \/ \E x \in {"device", "try", "codeRow", "dropSession", "dropLink", "touch", "send"} : Goes(r, x)
    BY <1>6 DEF Open, Fetch, SendCode, Undone, AfterFactors
  <2> QED
    BY <1>4, <1>5, <1>6, <2>1 DEF Open, Fetch, SendCode, Arrives
<1>7. CASE \/ TakeCode(r) \/ AskTry(r) \/ Reserve(r) \/ Right(r) \/ Wrong(r) \/ Lock(r) \/ Locked(r)
           \/ Drop(r) \/ CountSends(r) \/ EndCodes(r) \/ SendLine(r) \/ Mail(r) \/ NotMailed(r)
           \/ Revoke(r) \/ RevokeRow(r) \/ RevokeSessions(r) \/ Revoked(r) \/ Fail(r)
  <2>1. \/ \E a : Answered(r, a)
        \/ \E x \in {"try", "tryRow", "check", "device", "lockLine", "endCodes", "sendLine", "mail",
                     "revokeRow", "endSessions", "revokeLine"} : Goes(r, x)
        \/ at' = at /\ at[r] = "endCodes"
    BY <1>7 DEF TakeCode, AskTry, Reserve, Right, Wrong, Lock, Locked, Drop, CountSends, EndCodes, SendLine,
                Mail, NotMailed, Revoke, RevokeRow, RevokeSessions, Revoked, Fail, Undone, SessionEnds,
                EndSessions, AfterFactors
  <2>2. at'[r] \notin Counting \union InSession \union {"touch"}
    BY <1>4, <1>5, <2>1 DEF Counting, InSession
  <2> QED
    BY <1>2, <2>2
<1>8. CASE AskBind(r) \/ Bind(r) \/ AskCount(r) \/ CountOpen(r) \/ Clear(r) \/ Opened(r)
  <2>1. /\ at[r] = "device" \/ at[r] = "bindRow" \/ at[r] \in Counting
        /\ at[r] = "device" => req[r].cookie # None \/ at'[r] \in {"bindRow", "done"}
        /\ at'[r] \notin InSession \union {"touch"}
    <3>1. \/ \E a : Answered(r, a)
          \/ \E x \in {"count", "bindRow", "countRow", "clear", "view"} : Goes(r, x)
          \/ at' = at /\ at[r] = "clear"
      BY <1>8 DEF AskBind, Bind, AskCount, CountOpen, Clear, Opened, RefusedKeeping, Undone
    <3>2. at'[r] \notin InSession \union {"touch"}
      BY <1>4, <1>5, <3>1 DEF InSession
    <3>3. at[r] \in {"device", "bindRow", "count", "countRow", "clear", "view"}
      BY <1>8 DEF AskBind, Bind, AskCount, CountOpen, Clear, Opened
    <3>4. at[r] = "device" => AskBind(r)
      BY <1>8 DEF Bind, AskCount, CountOpen, Clear, Opened
    <3>5. at[r] = "device" => req[r].cookie # None \/ at'[r] \in {"bindRow", "done"}
      BY <1>4, <1>5, <3>4 DEF AskBind, RefusedKeeping
    <3> QED
      BY <3>2, <3>3, <3>5 DEF Counting
  <2> QED
    BY <1>2, <2>1 DEF Counting
<1>9. CASE Touch(r) \/ Gives(r) \/ CountDownload(r) \/ Finish(r)
  <2>1. at[r] \in InSession \union {"touch"}
    BY <1>9 DEF Touch, Gives, CountDownload, Finish, InSession
  <2>2. \/ \E a : Answered(r, a)
        \/ \E x \in {"gives", "finish", "downRow"} : Goes(r, x)
    BY <1>9 DEF Touch, Gives, CountDownload, Finish, SessionEnds, Undone
  <2>3. at'[r] \notin Counting
    BY <1>4, <1>5, <2>2 DEF Counting
  <2> QED
    BY <1>2, <2>1, <2>3 DEF InSession
<1>10. ASSUME at[r] = "idle",
              at'[r] \in {"device", "try", "codeRow", "dropSession", "dropLink", "touch", "send", "done"}
       PROVE  at'[r] \notin Counting \union InSession
  BY <1>10 DEF Counting, InSession
<1>11. CASE at[r] = "idle" /\ ~Revoke(r)
  <2>1. at'[r] \in {"device", "try", "codeRow", "dropSession", "dropLink", "touch", "send", "done"}
    <3>1. ~(TakeCode(r) \/ AskTry(r) \/ Reserve(r) \/ Right(r) \/ Wrong(r) \/ Lock(r) \/ Locked(r)
            \/ AskBind(r) \/ Bind(r) \/ AskCount(r) \/ CountOpen(r) \/ Clear(r) \/ Opened(r)
            \/ Drop(r) \/ Touch(r) \/ Gives(r) \/ CountDownload(r) \/ Finish(r)
            \/ CountSends(r) \/ EndCodes(r) \/ SendLine(r) \/ Mail(r) \/ NotMailed(r)
            \/ RevokeRow(r) \/ RevokeSessions(r) \/ Revoked(r))
      BY <1>11 DEF TakeCode, AskTry, Reserve, Right, Wrong, Lock, Locked, AskBind, Bind, AskCount, CountOpen,
              Clear, Opened, Drop, Touch, Gives, CountDownload, Finish, CountSends, EndCodes, SendLine, Mail,
              NotMailed, RevokeRow, RevokeSessions, Revoked
    <3>2. Fail(r) => at'[r] = "done"
      BY <1>4 DEF Fail, Undone
    <3>3. ASSUME NEW b \in Browsers, NEW n \in Reqs \union {None}, NEW right \in BOOLEAN, Open(r, b, n, right)
          PROVE  at'[r] \in {"device", "try", "codeRow", "dropSession", "dropLink", "touch", "send", "done"}
      BY <1>6, <3>3
    <3>4. ASSUME NEW b \in Browsers, NEW s \in Reqs, Fetch(r, b, s)
          PROVE  at'[r] \in {"device", "try", "codeRow", "dropSession", "dropLink", "touch", "send", "done"}
      BY <1>6, <3>4
    <3>5. ASSUME NEW b \in Browsers, SendCode(r, b)
          PROVE  at'[r] \in {"device", "try", "codeRow", "dropSession", "dropLink", "touch", "send", "done"}
      BY <1>6, <3>5
    <3> QED
      BY <1>11, <3>1, <3>2, <3>3, <3>4, <3>5 DEF Step
  <2> QED
    BY <1>2, <1>10, <1>11, <2>1
<1>12. CASE at[r] # "idle"
  <2>1. /\ \A b \in Browsers, n \in Reqs \union {None}, right \in BOOLEAN : ~Open(r, b, n, right)
        /\ \A b \in Browsers, s \in Reqs : ~Fetch(r, b, s)
        /\ \A b \in Browsers : ~SendCode(r, b)
    BY <1>12 DEF Open, Fetch, SendCode, Arrives
  <2> QED
    BY <1>7, <1>8, <1>9, <2>1 DEF Step
<1> QED
  BY <1>7, <1>11, <1>12

LEMMA StepMade == ASSUME NEW r \in Reqs, Step(r) PROVE UNCHANGED world
<1>1. CASE \/ TakeCode(r) \/ AskTry(r) \/ Reserve(r) \/ Right(r) \/ Wrong(r) \/ Lock(r) \/ Locked(r)
           \/ AskBind(r) \/ Bind(r) \/ AskCount(r) \/ CountOpen(r) \/ Clear(r) \/ Opened(r)
           \/ Drop(r) \/ Touch(r) \/ Gives(r) \/ CountDownload(r) \/ Finish(r)
           \/ CountSends(r) \/ EndCodes(r) \/ SendLine(r) \/ Mail(r) \/ NotMailed(r)
           \/ Revoke(r) \/ RevokeRow(r) \/ RevokeSessions(r) \/ Revoked(r) \/ Fail(r)
  BY <1>1 DEF TakeCode, AskTry, Reserve, Right, Wrong, Lock, Locked, AskBind, Bind, AskCount, CountOpen,
              Clear, Opened, Drop, Touch, Gives, CountDownload, Finish, CountSends, EndCodes, SendLine, Mail,
              NotMailed, Revoke, RevokeRow, RevokeSessions, Revoked, Fail
<1> QED
  BY <1>1 DEF Step, Open, Fetch, SendCode

\* Whoever arrives has the cookie of the browser it comes from, and asks for a
\* page of a session only with the cookie of its device.
LEMMA StepArrives ==
  ASSUME LinkInv, made.oneDevice, NEW r \in Reqs, at[r] = "idle", Step(r)
  PROVE  \/ req' = req /\ at'[r] # "touch"
         \/ \E b \in Browsers : /\ req'[r].browser = b /\ req'[r].cookie = jar[b]
                                /\ at'[r] = "touch" => \E s \in Reqs : /\ sessions[s].state # "none"
                                                                       /\ ~OtherDevice(sessions[s].device, b)
<1>1. ASSUME NEW a, Answered(r, a) PROVE at'[r] # "touch"
  BY <1>1 DEF Answered, Goes, LinkInv, TypeOK
<1>2. ASSUME NEW x, Goes(r, x) PROVE at'[r] = x
  BY <1>2 DEF Goes, LinkInv, TypeOK
<1>3. ASSUME NEW b, NEW n, NEW right, Arrives(r, b, n, right)
      PROVE  req'[r].browser = b /\ req'[r].cookie = jar[b]
  BY <1>3 DEF Arrives, LinkInv, TypeOK
<1>4. ASSUME NEW b \in Browsers, NEW n \in Reqs \union {None}, NEW right \in BOOLEAN,
             Open(r, b, n, right) \/ SendCode(r, b)
      PROVE  at'[r] # "touch" /\ req'[r].browser = b /\ req'[r].cookie = jar[b]
  <2>1. \/ \E a : Answered(r, a)
        \/ \E x \in {"device", "count", "try", "codeRow", "send"} : Goes(r, x)
    BY <1>4 DEF Open, SendCode, Undone, AfterFactors
  <2> QED
    BY <1>1, <1>2, <1>3, <1>4, <2>1 DEF Open, SendCode
<1>5. ASSUME NEW b \in Browsers, NEW s \in Reqs, Fetch(r, b, s)
      PROVE  /\ req'[r].browser = b /\ req'[r].cookie = jar[b]
             /\ at'[r] = "touch" => sessions[s].state # "none" /\ ~OtherDevice(sessions[s].device, b)
  <2>1. \/ \E a : Answered(r, a)
        \/ \E x \in {"dropSession", "dropLink"} : Goes(r, x)
        \/ sessions[s].state # "none" /\ ~OtherDevice(sessions[s].device, b)
    BY <1>5 DEF Fetch, Undone
  <2> QED
    BY <1>1, <1>2, <1>3, <1>5, <2>1 DEF Fetch
<1>6. Revoke(r) => at'[r] # "touch" /\ req' = req
  BY <1>2 DEF Revoke
<1>7. Fail(r) => at'[r] # "touch" /\ req' = req
  BY <1>1 DEF Fail, Undone
<1>8. ~(TakeCode(r) \/ AskTry(r) \/ Reserve(r) \/ Right(r) \/ Wrong(r) \/ Lock(r) \/ Locked(r)
        \/ AskBind(r) \/ Bind(r) \/ AskCount(r) \/ CountOpen(r) \/ Clear(r) \/ Opened(r)
        \/ Drop(r) \/ Touch(r) \/ Gives(r) \/ CountDownload(r) \/ Finish(r)
        \/ CountSends(r) \/ EndCodes(r) \/ SendLine(r) \/ Mail(r) \/ NotMailed(r)
        \/ RevokeRow(r) \/ RevokeSessions(r) \/ Revoked(r))
  BY DEF TakeCode, AskTry, Reserve, Right, Wrong, Lock, Locked, AskBind, Bind, AskCount, CountOpen,
         Clear, Opened, Drop, Touch, Gives, CountDownload, Finish, CountSends, EndCodes, SendLine, Mail,
         NotMailed, RevokeRow, RevokeSessions, Revoked
<1>9. \/ \E b \in Browsers, n \in Reqs \union {None}, right \in BOOLEAN : Open(r, b, n, right) \/ SendCode(r, b)
      \/ \E b \in Browsers, s \in Reqs : Fetch(r, b, s)
      \/ Revoke(r) \/ Fail(r)
  <2>1. (\E b \in Browsers : SendCode(r, b)) =>
          \E b \in Browsers, n \in Reqs \union {None}, right \in BOOLEAN : Open(r, b, n, right) \/ SendCode(r, b)
    OBVIOUS
  <2> QED
    BY <1>8, <2>1 DEF Step
<1> QED
  BY <1>4, <1>5, <1>6, <1>7, <1>9

\* Who binds the link holds its row; who goes on to count holds what it held.
LEMMA BindTakes ==
  ASSUME LinkInv, NEW r \in Reqs, at[r] = "bindRow", Step(r), at'[r] # "done"
  PROVE  held'[LinkRow] = r /\ draft'.device = r
<1>1. Bind(r)
  <2>1. Fail(r) => at'[r] = "done"
    BY DEF Fail, Undone, Answered, Goes, LinkInv, TypeOK
  <2> QED
    BY <2>1 DEF Step, Open, Fetch, SendCode, Arrives, TakeCode, AskTry, Reserve, Right, Wrong, Lock, Locked,
         AskBind, Bind, AskCount, CountOpen, Clear, Opened, Drop, Touch, Gives, CountDownload, Finish,
         CountSends, EndCodes, SendLine, Mail, NotMailed, Revoke, RevokeRow, RevokeSessions, Revoked
<1>2. Take(LinkRow, r) /\ draft' = [link EXCEPT !.device = r] /\ held[LinkRow] = None
  BY <1>1 DEF Bind, RefusedKeeping, Answered, Goes, Free, LinkInv, TypeOK
<1>3. draft'.device = r
  BY <1>2 DEF LinkInv, TypeOK, Rows
<1> QED
  BY <1>2, <1>3, TakeFrames, LocksDiffer

LEMMA StepCounts ==
  ASSUME LinkInv, NEW r \in Reqs, at[r] \in {"count", "countRow", "clear", "view"}, Step(r),
         at'[r] \in {"count", "countRow"}
  PROVE  held' = held
<1>1. ASSUME NEW a, Answered(r, a) PROVE at'[r] = "done"
  BY <1>1 DEF Answered, Goes, LinkInv, TypeOK
<1>2. ASSUME NEW x, Goes(r, x) PROVE at'[r] = x
  BY <1>2 DEF Goes, LinkInv, TypeOK
<1>3. AskCount(r) \/ CountOpen(r) \/ Clear(r) \/ Opened(r) \/ Fail(r)
  BY DEF Step, Open, Fetch, SendCode, Arrives, TakeCode, AskTry, Reserve, Right, Wrong, Lock, Locked,
         AskBind, Bind, AskCount, CountOpen, Clear, Opened, Drop, Touch, Gives, CountDownload, Finish,
         CountSends, EndCodes, SendLine, Mail, NotMailed, Revoke, RevokeRow, RevokeSessions, Revoked
<1>4. at[r] = "clear" => at'[r] \in {"clear", "view", "done"}
  <2>1. at[r] = "clear" => Clear(r) \/ Fail(r)
    BY <1>3 DEF AskCount, CountOpen, Opened
  <2>2. Fail(r) => at'[r] = "done"
    BY <1>1 DEF Fail, Undone
  <2>3. Clear(r) /\ at[r] = "clear" => at'[r] \in {"clear", "view"}
    BY <1>2 DEF Clear
  <2> QED
    BY <2>1, <2>2, <2>3
<1> QED
  BY <1>1, <1>2, <1>3, <1>4 DEF AskCount, CountOpen, Clear, Opened, Fail, Undone, RefusedKeeping, hands

LEMMA OpenedTells ==
  ASSUME LinkInv, NEW r \in Reqs, Step(r), answer'[r] = "opened"
  PROVE  Opened(r) /\ Live(draft)
<1>1. ASSUME NEW a, Answered(r, a) PROVE answer'[r] = a
  BY <1>1 DEF Answered, LinkInv, TypeOK
<1>2. Finish(r) /\ Live(Seen(r)) => answer'[r] = "given"
  BY <1>1 DEF Finish
<1>3. Mail(r) \/ Locked(r) \/ Revoked(r) => answer'[r] \in {"sent", "locked", "revoked"}
  BY <1>1 DEF Mail, Locked, Revoked
<1> QED
  BY <1>2, <1>3, StepTells

LEMMA BoundStep == ASSUME LinkInv, Bound, NEW r \in Reqs, Step(r) PROVE Bound'
<1>1. Framed(r) /\ RowsFramed(r) /\ at[r] # "done" /\ made' = made /\ r # None
  BY StepFrames, StepRows, StepNotDone, StepMade, LinksAssumption DEF world
<1>2. \A q \in Reqs : q # r \/ at[r] # "idle" => req'[q] = req[q]
  BY <1>1 DEF Framed
<1>3. ASSUME link.device # None
      PROVE  /\ link.device \in Reqs /\ link'.device = link.device
             /\ at'[link.device] # "idle" /\ req'[link.device] = req[link.device]
  <2>1. link.device \in Reqs /\ at[link.device] # "idle"
    BY <1>3 DEF Bound, LinkInv, TypeOK, Rows
  <2>2. link'.device = link.device
    BY <1>1, <1>3 DEF RowsFramed, Bound
  <2> QED
    BY <1>1, <1>2, <2>1, <2>2 DEF Framed
<1>4. link.device = None /\ link'.device # None => link'.device = r
  BY <1>1 DEF RowsFramed, Bound
<1>5. link'.device # None => at'[link'.device] # "idle"
  BY <1>1, <1>3, <1>4 DEF Framed
<1>6. ASSUME NEW q \in Reqs, held'[LinkRow] = q
      PROVE  draft'.device = link'.device \/ (link'.device = None /\ draft'.device = q)
  <2>1. CASE q # r
    <3>1. held[LinkRow] = q /\ q # None
      BY <1>1, <1>6, <2>1, LocksDiffer, LinksAssumption DEF Framed
    <3>2. UNCHANGED <<link, draft>>
      BY <1>1, <2>1, <3>1 DEF RowsFramed
    <3> QED
      BY <3>1, <3>2 DEF Bound
  <2>2. CASE q = r
    <3>1. held[LinkRow] \in {None, r}
      BY <1>1, <1>6, <2>2, LocksDiffer DEF Framed
    <3>2. \/ draft.device = link.device
          \/ link.device = None /\ draft.device = r
      BY <3>1 DEF Bound, LinkInv, RowInv
    <3>3. CASE draft' = draft
      BY <1>1, <2>2, <3>2, <3>3 DEF RowsFramed
    <3>4. CASE draft' # draft
      <4>1. /\ link' = link
            /\ draft'.device = IF at[r] = "bindRow" THEN r ELSE draft.device
            /\ at[r] = "bindRow" => link.device = None
        BY <1>1, <1>6, <2>2, <3>4 DEF RowsFramed
      <4> QED
        BY <2>2, <3>2, <4>1
    <3> QED
      BY <3>3, <3>4
  <2> QED
    BY <2>1, <2>2
<1>7. ASSUME made.oneDevice
      PROVE  /\ \A b \in Browsers : jar'[b] # None => jar'[b] = link'.device /\ req'[jar'[b]].browser = b
             /\ \A q \in Reqs :
                  /\ req'[q].cookie # None => req'[q].cookie = link'.device /\ FromBound(q)'
                  /\ at'[q] \in Counting => req'[q].cookie # None \/ (held'[LinkRow] = q /\ draft'.device = q)
                  /\ at'[q] \in InSession \union {"touch"} \/ answer'[q] \in {"opened", "given"} => FromBound(q)'
                  /\ sessions'[q].state # "none" => link'.device # None /\ sessions'[q].device = link'.device
  <2>1. ASSUME NEW q \in Reqs, FromBound(q), req'[q] = req[q] PROVE FromBound(q)'
    BY <1>3, <2>1 DEF FromBound
  <2>2. ASSUME Opened(r), Live(draft)
        PROVE  /\ link' = draft /\ draft.device # None /\ req' = req
               /\ jar' = [jar EXCEPT ![req[r].browser] = draft.device]
               /\ req[draft.device].browser = req[r].browser
               /\ sessions' = [SessionsRemoved(HeldSessions(r)) EXCEPT
                                 ![r] = [state |-> "open", device |-> draft.device, had |-> FALSE]]
    <3>1. at[r] = "view" /\ held[LinkRow] = r /\ link' = draft /\ req' = req
          /\ jar' = [jar EXCEPT ![req[r].browser] = draft.device]
          /\ sessions' = [SessionsRemoved(HeldSessions(r)) EXCEPT
                            ![r] = [state |-> "open", device |-> draft.device, had |-> FALSE]]
      BY <1>7, <2>2 DEF Opened, LinkInv, Local, Holding
    <3>2. CASE draft.device = r
      BY <1>1, <3>1, <3>2
    <3>3. CASE draft.device # r
      <4>1. FromBound(r)
        BY <1>7, <3>1, <3>3 DEF Bound, Counting
      <4>2. draft.device = link.device
        BY <3>1, <3>3 DEF Bound
      <4> QED
        BY <3>1, <4>1, <4>2 DEF FromBound
    <3> QED
      BY <3>2, <3>3
  <2>3. ASSUME NEW b \in Browsers, jar'[b] # None PROVE jar'[b] = link'.device /\ req'[jar'[b]].browser = b
    <3>1. CASE jar'[b] = jar[b]
      BY <1>3, <1>7, <2>3, <3>1 DEF Bound
    <3>2. CASE jar'[b] # jar[b]
      <4>1. Opened(r) /\ Live(draft)
        BY <3>2, StepDevices DEF DevicesKept
      <4>2. jar'[b] = draft.device /\ b = req[r].browser
        BY <2>2, <2>3, <3>2, <4>1 DEF LinkInv, TypeOK
      <4> QED
        BY <2>2, <4>1, <4>2
    <3> QED
      BY <3>1, <3>2
  <2>4. ASSUME NEW q \in Reqs, req'[q].cookie # None PROVE req'[q].cookie = link'.device /\ FromBound(q)'
    <3>1. CASE req'[q] = req[q]
      <4>1. req[q].cookie = link.device /\ FromBound(q)
        BY <1>7, <2>4, <3>1 DEF Bound
      <4> QED
        BY <1>3, <2>1, <3>1, <4>1 DEF FromBound
    <3>2. CASE req'[q] # req[q]
      <4>1. q = r /\ at[r] = "idle"
        BY <1>2, <3>2
      <4>2. PICK b \in Browsers : req'[r].browser = b /\ req'[r].cookie = jar[b]
        BY <1>7, <3>2, <4>1, StepArrives
      <4>3. jar[b] = link.device /\ req[jar[b]].browser = b
        BY <1>7, <2>4, <4>1, <4>2 DEF Bound
      <4> QED
        BY <1>3, <2>4, <4>1, <4>2, <4>3 DEF FromBound
    <3> QED
      BY <3>1, <3>2
  <2>5. ASSUME NEW q \in Reqs, at'[q] \in Counting
        PROVE  req'[q].cookie # None \/ (held'[LinkRow] = q /\ draft'.device = q)
    <3>1. CASE q # r
      <4>1. at[q] \in Counting /\ req'[q] = req[q] /\ q # None
        BY <1>1, <1>2, <2>5, <3>1, LinksAssumption DEF Framed
      <4>2. held[LinkRow] = q => held'[LinkRow] = q /\ draft' = draft
        BY <1>1, <3>1, <4>1, LocksDiffer DEF Framed, RowsFramed
      <4> QED
        BY <1>7, <4>1, <4>2 DEF Bound
    <3>2. CASE q = r
      <4>1. at[r] # "idle"
        BY <1>7, <2>5, <3>2, StepBinds
      <4>2. req'[r] = req[r]
        BY <1>2, <4>1
      <4>3. CASE req[r].cookie # None
        BY <3>2, <4>2, <4>3
      <4>4. CASE at[r] \in Counting /\ req[r].cookie = None
        <5>1. held[LinkRow] = r /\ draft.device = r
          BY <1>7, <4>4 DEF Bound
        <5>2. at'[r] # "done" /\ at[r] # "bindRow"
          BY <2>5, <3>2, <4>4 DEF Counting
        <5>3. held'[LinkRow] = r
          <6>1. at'[r] \in Holding \/ at'[r] \in {"count", "countRow"}
            BY <2>5, <3>2 DEF Counting, Holding
          <6>2. at'[r] \in Holding => held'[LinkRow] = r
            BY NextInv DEF Next, LinkInv, Local
          <6>3. at'[r] \in {"count", "countRow"} => held' = held
            BY <4>4, <5>2, StepCounts DEF Counting
          <6> QED
            BY <5>1, <6>1, <6>2, <6>3
        <5>4. draft'.device = r
          BY <1>1, <5>1, <5>2, <5>3 DEF RowsFramed
        <5> QED
          BY <3>2, <5>3, <5>4
      <4>5. CASE at[r] = "bindRow"
        <5>1. held'[LinkRow] = r /\ draft'.device = r
          BY <2>5, <3>2, <4>5, <1>1, BindTakes DEF Counting
        <5> QED
          BY <3>2, <5>1
      <4> QED
        BY <1>7, <2>5, <3>2, <4>1, <4>3, <4>4, <4>5, StepBinds
    <3> QED
      BY <3>1, <3>2
  <2>6. ASSUME NEW q \in Reqs, at'[q] \in InSession \union {"touch"} \/ answer'[q] \in {"opened", "given"}
        PROVE  FromBound(q)'
    <3>1. CASE q # r
      BY <1>1, <1>2, <1>7, <2>1, <2>6, <3>1 DEF Framed, Bound
    <3>2. CASE q = r /\ at[r] = "idle"
      <4>1. at'[r] = "touch"
        BY <1>7, <2>6, <3>2, StepBinds DEF InSession
      <4>2. PICK b \in Browsers, s \in Reqs : /\ req'[r].browser = b /\ sessions[s].state # "none"
                                              /\ ~OtherDevice(sessions[s].device, b)
        BY <1>7, <3>2, <4>1, StepArrives
      <4>3. link.device # None /\ sessions[s].device = link.device
        BY <1>7, <4>2 DEF Bound
      <4>4. jar[b] = link.device
        BY <1>7, <4>2, <4>3 DEF OtherDevice
      <4>5. req[link.device].browser = b
        BY <1>7, <4>3, <4>4 DEF Bound
      <4> QED
        BY <1>3, <3>2, <4>2, <4>3, <4>5 DEF FromBound
    <3>3. CASE q = r /\ at[r] # "idle"
      <4>1. req'[r] = req[r]
        BY <1>2, <3>3
      <4>2. CASE at[r] \in InSession \union {"touch"}
        BY <1>7, <2>1, <3>3, <4>1, <4>2 DEF Bound
      <4>3. CASE at[r] \notin InSession \union {"touch"}
        <5>1. answer'[r] = "opened"
          BY <1>7, <2>6, <3>3, <4>3, StepBinds
        <5>2. Opened(r) /\ Live(draft)
          BY <5>1, OpenedTells
        <5> QED
          BY <2>2, <3>3, <5>2 DEF FromBound
      <4> QED
        BY <4>2, <4>3
    <3> QED
      BY <3>1, <3>2, <3>3
  <2>7. ASSUME NEW q \in Reqs, sessions'[q].state # "none"
        PROVE  link'.device # None /\ sessions'[q].device = link'.device
    <3>1. CASE DevicesKept
      <4>1. sessions[q].state # "none" /\ sessions'[q].device = sessions[q].device
        BY <2>7, <3>1 DEF DevicesKept
      <4>2. link.device # None /\ sessions[q].device = link.device
        BY <1>7, <4>1 DEF Bound
      <4> QED
        BY <1>3, <4>1, <4>2
    <3>2. CASE Opened(r) /\ Live(draft)
      <4>1. CASE q = r
        <5>1. sessions'[r].device = draft.device
          BY <2>2, <3>2, RemovedRows DEF LinkInv
        <5> QED
          BY <2>2, <3>2, <4>1, <5>1
      <4>2. CASE q # r
        <5>1. \A s \in HeldSessions(r) : s \in Reqs /\ sessions[s].state # "none"
          BY DEF HeldSessions, LinkInv, Local
        <5>2. sessions'[q] = SessionsRemoved(HeldSessions(r))[q]
          BY <2>2, <3>2, <4>2, RemovedRows DEF LinkInv
        <5>3. sessions[q].state # "none" /\ sessions'[q].device = sessions[q].device
          BY <2>7, <5>1, <5>2, RemovedDevices
        <5> QED
          BY <1>3, <1>7, <5>3 DEF Bound
      <4> QED
        BY <4>1, <4>2
    <3> QED
      BY <3>1, <3>2, StepDevices
  <2> QED
    BY <2>3, <2>4, <2>5, <2>6, <2>7
<1> QED
  BY <1>1, <1>5, <1>6, <1>7 DEF Bound

\* A code's row changes only with the answer of whoever tries it, or sends one.
LEMMA StepCodes ==
  ASSUME LinkInv, NEW r \in Reqs, Step(r)
  PROVE  \/ codes' = codes
         \/ Mail(r)
         \/ /\ code[r] # None /\ at[r] \in Trying \ {"try", "tryRow"} /\ at'[r] = "done"
            /\ \/ codes' = [codes EXCEPT ![code[r]].state = "used"]
               \/ codes' = [codes EXCEPT ![code[r]].tries = @ + 1]
<1> DEFINE Touched == /\ code[r] # None /\ at[r] \in Trying \ {"try", "tryRow"} /\ at'[r] = "done"
                      /\ \/ codes' = [codes EXCEPT ![code[r]].state = "used"]
                         \/ codes' = [codes EXCEPT ![code[r]].tries = @ + 1]
<1>1. ASSUME NEW a, Answered(r, a) PROVE at'[r] = "done"
  BY <1>1 DEF Answered, Goes, LinkInv, TypeOK
<1>2. ASSUME NEW a, RefusedKeeping(r, a), at[r] \in {"device", "bindRow", "count", "countRow"}
      PROVE  codes' = codes \/ Touched
  BY <1>1, <1>2 DEF RefusedKeeping, CodeUsed, Trying, Counting
<1>3. CASE AskBind(r) \/ Bind(r) \/ AskCount(r) \/ CountOpen(r)
  <2>1. /\ at[r] \in {"device", "bindRow", "count", "countRow"}
        /\ codes' = codes \/ \E a : RefusedKeeping(r, a)
    BY <1>3 DEF AskBind, Bind, AskCount, CountOpen, rows
  <2> QED
    BY <1>2, <2>1
<1>4. CASE Wrong(r) \/ Locked(r)
  <2>1. at[r] \in {"check", "lockLine"} /\ at'[r] = "done" /\ CodeTried(r)
    BY <1>1, <1>4 DEF Wrong, Locked
  <2> QED
    BY <2>1 DEF CodeTried, Trying
<1>5. CASE Opened(r)
  <2>1. codes' = codes \/ (at[r] = "view" /\ at'[r] = "done" /\ CodeUsed(r))
    BY <1>1, <1>5 DEF Opened, Undone
  <2> QED
    BY <2>1 DEF CodeUsed, Trying, Counting
<1>6. ASSUME NEW b \in Browsers, NEW n \in Reqs \union {None}, NEW right \in BOOLEAN,
             Open(r, b, n, right) \/ Fetch(r, b, n) \/ SendCode(r, b)
      PROVE  codes' = codes
  BY <1>6 DEF Open, Fetch, SendCode, Undone, rows
<1>7. CASE \/ TakeCode(r) \/ AskTry(r) \/ Reserve(r) \/ Right(r) \/ Lock(r) \/ Clear(r)
           \/ Drop(r) \/ Touch(r) \/ Gives(r) \/ CountDownload(r) \/ Finish(r)
           \/ CountSends(r) \/ EndCodes(r) \/ SendLine(r) \/ NotMailed(r)
           \/ Revoke(r) \/ RevokeRow(r) \/ RevokeSessions(r) \/ Revoked(r) \/ Fail(r)
  BY <1>7 DEF TakeCode, AskTry, Reserve, Right, Lock, Clear, Drop, Touch, Gives, CountDownload, Finish,
              CountSends, EndCodes, SendLine, NotMailed, Revoke, RevokeRow, RevokeSessions, Revoked, Fail,
              Undone, SessionEnds, rows
<1>8. (\E b \in Browsers : SendCode(r, b)) =>
          \E b \in Browsers, n \in Reqs \union {None}, right \in BOOLEAN : Open(r, b, n, right) \/ SendCode(r, b)
  OBVIOUS
<1> QED
  BY <1>3, <1>4, <1>5, <1>6, <1>7, <1>8 DEF Step

\* What becomes of the codes that are sent: one that was used stays used, and
\* one another request holds stays as it is.
LEMMA CodesMove ==
  ASSUME LinkInv, CodesHeld, \A c \in Reqs : codes[c].tries <= CodeTries, NEW r \in Reqs, Step(r),
         NEW c \in Reqs
  PROVE  /\ codes'[c].state = "none" <=> codes[c].state = "none" /\ ~(Mail(r) /\ c = r)
         /\ codes'[c].state = "live" => codes[c].state = "live" \/ (Mail(r) /\ c = r)
         /\ codes[c].state = "used" => codes'[c].state = "used"
         /\ held[CodeRow(c)] \notin {None, r} => codes'[c] = codes[c]
         /\ codes'[c].tries <= CodeTries
         /\ at'[r] # "done" => codes' = codes
<1>1. codes[c] \in Codes /\ CodeTries \in Nat /\ code[r] \in Reqs \union {None} /\ r # None
  BY LinksAssumption DEF LinkInv, TypeOK
<1>2. held[CodeRow(c)] # None => codes[c].state \in {"live", "ended"}
  BY DEF CodesHeld, Free
<1>3. code[r] = c /\ at[r] \in Trying \ {"try", "tryRow"} =>
        held[CodeRow(c)] = r /\ codes[c].tries < CodeTries /\ codes[c].state \in {"live", "ended"}
  BY <1>1, <1>2 DEF CodesHeld, Trying, Counting
<1>4. CASE codes' = codes /\ ~Mail(r)
  BY <1>1, <1>4
<1>5. CASE Mail(r)
  <2>1. codes' = [d \in Reqs |-> IF d = r THEN [state |-> "live", tries |-> 0]
                               ELSE IF held[CodeRow(d)] = r THEN [codes[d] EXCEPT !.state = "ended"]
                               ELSE codes[d]]
        /\ at[r] = "mail" /\ at'[r] = "done"
    BY <1>5 DEF Mail, Answered, Goes, LinkInv, TypeOK
  <2>2. codes[r].state = "none" /\ held[CodeRow(r)] = None
    BY <2>1 DEF CodesHeld, Free
  <2>3. CASE c = r
    BY <1>1, <1>5, <2>1, <2>2, <2>3
  <2>4. CASE c # r /\ held[CodeRow(c)] = r
    <3>1. codes'[c] = [codes[c] EXCEPT !.state = "ended"]
      BY <2>1, <2>4
    <3>2. codes'[c].state = "ended" /\ codes'[c].tries = codes[c].tries
      BY <1>1, <3>1 DEF Codes
    <3> QED
      BY <1>1, <1>2, <2>1, <2>4, <3>2
  <2>5. CASE c # r /\ held[CodeRow(c)] # r
    <3>1. codes'[c] = codes[c]
      BY <2>1, <2>5
    <3> QED
      BY <2>1, <2>5, <3>1
  <2> QED
    BY <2>3, <2>4, <2>5
<1>6. CASE code[r] # None /\ at[r] \in Trying \ {"try", "tryRow"} /\ at'[r] = "done" /\ ~Mail(r)
           /\ codes' = [codes EXCEPT ![code[r]].state = "used"]
  <2>1. CASE c = code[r]
    <3>1. codes'[c].state = "used" /\ codes'[c].tries = codes[c].tries
      BY <1>1, <1>6, <2>1 DEF LinkInv, TypeOK, Codes
    <3> QED
      BY <1>3, <1>6, <2>1, <3>1
  <2>2. CASE c # code[r]
    <3>1. codes'[c] = codes[c]
      BY <1>1, <1>6, <2>2 DEF LinkInv, TypeOK
    <3> QED
      BY <1>6, <3>1
  <2> QED
    BY <2>1, <2>2
<1>7. CASE code[r] # None /\ at[r] \in Trying \ {"try", "tryRow"} /\ at'[r] = "done" /\ ~Mail(r)
           /\ codes' = [codes EXCEPT ![code[r]].tries = @ + 1]
  <2>1. CASE c = code[r]
    <3>1. codes'[c].state = codes[c].state /\ codes'[c].tries = codes[c].tries + 1 /\ codes[c].tries \in Nat
      BY <1>1, <1>7, <2>1 DEF LinkInv, TypeOK, Codes
    <3> QED
      BY <1>1, <1>3, <1>7, <2>1, <3>1
  <2>2. CASE c # code[r]
    <3>1. codes'[c] = codes[c]
      BY <1>1, <1>7, <2>2 DEF LinkInv, TypeOK
    <3> QED
      BY <1>7, <3>1
  <2> QED
    BY <2>1, <2>2
<1> QED
  BY <1>4, <1>5, <1>6, <1>7, StepCodes

\* The code a request tries, and the rows of codes it takes.
LEMMA StepTries ==
  ASSUME LinkInv, NEW r \in Reqs, Step(r), at'[r] # "done"
  PROVE  \/ /\ at[r] = "idle" /\ held' = held
            /\ code'[r] = code[r] \/ (at'[r] = "codeRow" /\ code'[r] \in Reqs /\ codes[code'[r]].state = "live")
         \/ TakeCode(r)
         \/ /\ at[r] \in Sending \union {"send"} /\ at'[r] \in Sending /\ code' = code
            /\ \A c \in Reqs : held'[CodeRow(c)] = r => held[CodeRow(c)] = r \/ codes[c].state = "live"
         \/ /\ code' = code /\ at[r] \notin Sending \union {"idle", "send", "codeRow"}
            /\ \A c \in Reqs : held'[CodeRow(c)] = held[CodeRow(c)]
            /\ at[r] \in Trying => at'[r] \in Trying
<1> DEFINE Idle == /\ at[r] = "idle" /\ held' = held
                   /\ \/ code'[r] = code[r]
                      \/ at'[r] = "codeRow" /\ code'[r] \in Reqs /\ codes[code'[r]].state = "live"
           Other == /\ code' = code /\ at[r] \notin Sending \union {"idle", "send", "codeRow"}
                    /\ \A c \in Reqs : held'[CodeRow(c)] = held[CodeRow(c)]
                    /\ at[r] \in Trying => at'[r] \in Trying
           Sends1 == /\ at[r] \in Sending \union {"send"} /\ at'[r] \in Sending /\ code' = code
                     /\ \A c \in Reqs : held'[CodeRow(c)] = r => held[CodeRow(c)] = r \/ codes[c].state = "live"
<1>1. ASSUME NEW a, Answered(r, a) PROVE FALSE
  BY <1>1 DEF Answered, Goes, LinkInv, TypeOK
<1>2. ASSUME NEW x, Goes(r, x) PROVE at'[r] = x
  BY <1>2 DEF Goes, LinkInv, TypeOK
<1>3. ASSUME NEW l, l = LinkRow \/ l = Log \/ l = SendLock \/ (\E s \in Reqs : l = SessionRow(s)), Take(l, r)
      PROVE  \A c \in Reqs : held'[CodeRow(c)] = held[CodeRow(c)]
  <2>1. \A c \in Reqs : l # CodeRow(c)
    BY <1>3 DEF LinkRow, Log, SendLock, SessionRow, CodeRow
  <2> QED
    BY <1>3, <2>1, LocksDiffer DEF Take, LinkInv, TypeOK
<1>4. ASSUME NEW b \in Browsers, NEW n \in Reqs \union {None}, NEW right \in BOOLEAN,
             Open(r, b, n, right) \/ Fetch(r, b, n) \/ SendCode(r, b)
      PROVE  Idle
  <2>1. at[r] = "idle" /\ held' = held
    BY <1>1, <1>4 DEF Open, Fetch, SendCode, Arrives, Undone, hands
  <2>2. \/ code' = code
        \/ \E c \in Reqs : Usable(c) /\ code' = [code EXCEPT ![r] = c] /\ Goes(r, "codeRow")
    BY <1>1, <1>4 DEF Open, Fetch, SendCode, Undone, hands
  <2>3. ASSUME NEW c \in Reqs, Usable(c), code' = [code EXCEPT ![r] = c], Goes(r, "codeRow")
        PROVE  at'[r] = "codeRow" /\ code'[r] \in Reqs /\ codes[code'[r]].state = "live"
    BY <1>2, <2>3 DEF Usable, LinkInv, TypeOK
  <2> QED
    BY <2>1, <2>2, <2>3
<1>5. CASE AskTry(r) \/ Reserve(r) \/ Right(r) \/ Wrong(r) \/ Lock(r) \/ Locked(r)
  <2>1. at[r] \in {"try", "tryRow", "check", "lockLine"} /\ code' = code
    BY <1>1, <1>5 DEF AskTry, Reserve, Right, Wrong, Lock, Locked, Undone, hands
  <2>2. \/ held' = held
        \/ Take(LinkRow, r)
        \/ held' = [held EXCEPT ![LinkRow] = None]
        \/ EndSessions(r, "lockLine")
    BY <1>1, <1>5 DEF AskTry, Reserve, Right, Wrong, Lock, Locked, Undone, hands
  <2>3. \A c \in Reqs : held'[CodeRow(c)] = held[CodeRow(c)]
    <3>1. EndSessions(r, "lockLine") => \A c \in Reqs : held'[CodeRow(c)] = held[CodeRow(c)]
      BY LocksDiffer DEF EndSessions, ToEnd
    <3>2. held' = [held EXCEPT ![LinkRow] = None] => \A c \in Reqs : held'[CodeRow(c)] = held[CodeRow(c)]
      BY LocksDiffer DEF LinkInv, TypeOK
    <3> QED
      BY <1>3, <2>2, <3>1, <3>2
  <2>4. at'[r] \in Trying
    <3>1. \E x \in {"tryRow", "check", "device", "count", "lockLine"} : Goes(r, x)
      BY <1>1, <1>5 DEF AskTry, Reserve, Right, Wrong, Lock, Locked, Undone, EndSessions, AfterFactors
    <3> QED
      BY <1>2, <3>1 DEF Trying, Counting
  <2>5. Other
    BY <2>1, <2>3, <2>4 DEF Sending
  <2> QED
    BY <2>5
<1>6. CASE AskBind(r) \/ Bind(r) \/ AskCount(r) \/ CountOpen(r) \/ Clear(r) \/ Opened(r)
  <2>1. at[r] \in {"device", "bindRow", "count", "countRow", "clear", "view"} /\ code' = code
    BY <1>1, <1>6 DEF AskBind, Bind, AskCount, CountOpen, Clear, Opened, Undone, RefusedKeeping, hands
  <2>2. held' = held \/ Take(LinkRow, r) \/ \E s \in Reqs : Take(SessionRow(s), r)
    BY <1>1, <1>6 DEF AskBind, Bind, AskCount, CountOpen, Clear, Opened, Undone, RefusedKeeping, hands, LinkInv, TypeOK
  <2>3. \/ \E x \in {"count", "bindRow", "countRow", "clear", "view"} : Goes(r, x)
        \/ at' = at
    BY <1>1, <1>6 DEF AskBind, Bind, AskCount, CountOpen, Clear, Opened, Undone, RefusedKeeping
  <2>4. at[r] \in Trying => at'[r] \in Trying
    BY <1>2, <2>3 DEF Trying, Counting
  <2>5. Other
    BY <1>3, <2>1, <2>2, <2>4 DEF Sending
  <2> QED
    BY <2>5
<1>7. CASE \/ Drop(r) \/ Touch(r) \/ Gives(r) \/ CountDownload(r) \/ Finish(r)
           \/ RevokeRow(r) \/ RevokeSessions(r) \/ Revoked(r)
  <2>1. at[r] \in {"dropSession", "dropLink", "touch", "gives", "downRow", "finish", "revokeRow", "endSessions",
                   "revokeLine"} /\ code' = code
    BY <1>1, <1>7 DEF Drop, Touch, Gives, CountDownload, Finish, RevokeRow, RevokeSessions, Revoked, Undone,
                      SessionEnds, hands
  <2>2. \/ held' = held \/ Take(LinkRow, r) \/ EndSessions(r, "revokeLine")
        \/ at[r] = "touch" /\ Take(SessionRow(req[r].names), r)
    BY <1>1, <1>7 DEF Drop, Touch, Gives, CountDownload, Finish, RevokeRow, RevokeSessions, Revoked, Undone,
                      SessionEnds, hands
  <2>3. at[r] = "touch" => req[r].names \in Reqs
    BY DEF LinkInv, Local, Fetching
  <2>4. EndSessions(r, "revokeLine") => \A c \in Reqs : held'[CodeRow(c)] = held[CodeRow(c)]
    BY LocksDiffer DEF EndSessions, ToEnd
  <2>5. Other
    BY <1>3, <2>1, <2>2, <2>3, <2>4 DEF Sending, Trying, Counting
  <2> QED
    BY <2>5
<1>8. CASE CountSends(r) \/ EndCodes(r) \/ SendLine(r) \/ Mail(r) \/ NotMailed(r)
  <2>1. at[r] \in Sending \union {"send"} /\ code' = code
    BY <1>1, <1>8 DEF CountSends, EndCodes, SendLine, Mail, NotMailed, Undone, Sending
  <2>2. at'[r] \in Sending
    <3>1. \/ \E x \in {"endCodes", "sendLine", "mail"} : Goes(r, x)
          \/ at' = at /\ at[r] = "endCodes"
      BY <1>1, <1>8 DEF CountSends, EndCodes, SendLine, Mail, NotMailed, Undone
    <3> QED
      BY <1>2, <3>1 DEF Sending
  <2>3. \/ held' = held \/ Take(SendLock, r) \/ Take(Log, r)
        \/ \E d \in Reqs : codes[d].state = "live" /\ Take(CodeRow(d), r)
    BY <1>1, <1>8 DEF CountSends, EndCodes, SendLine, Mail, NotMailed, Undone, LinkInv, TypeOK
  <2>4. ASSUME NEW d \in Reqs, codes[d].state = "live", Take(CodeRow(d), r), NEW c \in Reqs, held'[CodeRow(c)] = r
        PROVE  held[CodeRow(c)] = r \/ codes[c].state = "live"
    BY <2>4, LocksDiffer DEF Take, CodeRow, LinkInv, TypeOK
  <2>5. Sends1
    BY <1>3, <2>1, <2>2, <2>3, <2>4
  <2> QED
    BY <2>5
<1>9. CASE Revoke(r)
  <2>1. Idle
    BY <1>9 DEF Revoke, hands
  <2> QED
    BY <2>1
<1>10. CASE TakeCode(r)
  BY <1>10
<1>11. ~Fail(r)
  BY <1>1 DEF Fail, Undone
<1>12. CASE \/ \E b \in Browsers, n \in Reqs \union {None}, right \in BOOLEAN : Open(r, b, n, right)
            \/ \E b \in Browsers, s \in Reqs : Fetch(r, b, s)
            \/ \E b \in Browsers : SendCode(r, b)
  <2>1. Idle
    <3>1. ASSUME NEW b \in Browsers, NEW n \in Reqs \union {None}, NEW right \in BOOLEAN, Open(r, b, n, right)
          PROVE  Idle
      BY <1>4, <3>1
    <3>2. ASSUME NEW b \in Browsers, NEW s \in Reqs, Fetch(r, b, s) PROVE Idle
      BY <1>4, <3>2
    <3>3. ASSUME NEW b \in Browsers, SendCode(r, b) PROVE Idle
      BY <1>4, <3>3
    <3> QED
      BY <1>12, <3>1, <3>2, <3>3
  <2> QED
    BY <2>1
<1> QED
  BY <1>5, <1>6, <1>7, <1>8, <1>9, <1>10, <1>11, <1>12 DEF Step

\* Past its factors, a request has the code it named.
LEMMA StepNames ==
  ASSUME LinkInv, NEW r \in Reqs, Step(r), made.code, at'[r] \in {"device", "bindRow"} \union Counting
  PROVE  \/ at[r] \in {"device", "bindRow"} \union Counting
         \/ at[r] = "check" /\ CodeRight(r)
<1>1. ASSUME NEW a, Answered(r, a) PROVE FALSE
  BY <1>1 DEF Answered, Goes, Counting, LinkInv, TypeOK
<1>2. ASSUME NEW x, x \notin {"device", "bindRow"} \union Counting, Goes(r, x) PROVE FALSE
  BY <1>2 DEF Goes, LinkInv, TypeOK
<1>3. ASSUME NEW b \in Browsers, NEW n \in Reqs \union {None}, NEW right \in BOOLEAN,
             Open(r, b, n, right) \/ Fetch(r, b, n) \/ SendCode(r, b)
      PROVE  FALSE
  <2>1. \/ \E a : Answered(r, a)
        \/ \E x \in {"try", "codeRow", "dropSession", "dropLink", "touch", "send"} : Goes(r, x)
    BY <1>3 DEF Open, Fetch, SendCode, Undone
  <2> QED
    BY <1>1, <1>2, <2>1 DEF Counting
<1>4. ~\/ TakeCode(r) \/ AskTry(r) \/ Reserve(r) \/ Wrong(r) \/ Lock(r) \/ Locked(r) \/ Fail(r)
       \/ Drop(r) \/ Touch(r) \/ Gives(r) \/ CountDownload(r) \/ Finish(r)
       \/ CountSends(r) \/ SendLine(r) \/ Mail(r) \/ NotMailed(r)
       \/ Revoke(r) \/ RevokeRow(r) \/ RevokeSessions(r) \/ Revoked(r)
  <2>1. SUFFICES ASSUME \/ TakeCode(r) \/ AskTry(r) \/ Reserve(r) \/ Wrong(r) \/ Lock(r) \/ Locked(r) \/ Fail(r)
                        \/ Drop(r) \/ Touch(r) \/ Gives(r) \/ CountDownload(r) \/ Finish(r)
                        \/ CountSends(r) \/ SendLine(r) \/ Mail(r) \/ NotMailed(r)
                        \/ Revoke(r) \/ RevokeRow(r) \/ RevokeSessions(r) \/ Revoked(r)
                 PROVE  FALSE
    OBVIOUS
  <2>2. \/ \E a : Answered(r, a)
        \/ \E x \in {"try", "tryRow", "check", "lockLine", "gives", "finish", "downRow", "endCodes", "mail",
                     "revokeRow", "endSessions", "revokeLine"} : Goes(r, x)
    BY <2>1 DEF TakeCode, AskTry, Reserve, Wrong, Lock, Locked, Fail, Drop, Touch, Gives, CountDownload, Finish,
                CountSends, SendLine, Mail, NotMailed, Revoke, RevokeRow, RevokeSessions, Revoked, Undone,
                SessionEnds, EndSessions
  <2> QED
    BY <1>1, <1>2, <2>2 DEF Counting
<1>5. ~EndCodes(r)
  <2>1. EndCodes(r) => Goes(r, "sendLine") \/ (at' = at /\ at[r] = "endCodes")
    BY DEF EndCodes
  <2> QED
    BY <1>2, <2>1 DEF Counting
<1>6. AskBind(r) \/ Bind(r) \/ AskCount(r) \/ CountOpen(r) \/ Clear(r) \/ Opened(r) =>
        at[r] \in {"device", "bindRow"} \union Counting
  BY DEF AskBind, Bind, AskCount, CountOpen, Clear, Opened, Counting
<1>7. Right(r) => at[r] = "check" /\ CodeRight(r)
  BY DEF Right
<1>8. /\ ~\E b \in Browsers, n \in Reqs \union {None}, right \in BOOLEAN : Open(r, b, n, right)
      /\ ~\E b \in Browsers, s \in Reqs : Fetch(r, b, s)
      /\ ~\E b \in Browsers : SendCode(r, b)
  <2>1. ASSUME NEW b \in Browsers, NEW n \in Reqs \union {None}, NEW right \in BOOLEAN, Open(r, b, n, right)
        PROVE  FALSE
    BY <1>3, <2>1
  <2>2. ASSUME NEW b \in Browsers, NEW s \in Reqs, Fetch(r, b, s) PROVE FALSE
    BY <1>3, <2>2
  <2>3. ASSUME NEW b \in Browsers, SendCode(r, b) PROVE FALSE
    BY <1>3, <2>3
  <2> QED
    BY <2>1, <2>2, <2>3
<1> QED
  BY <1>4, <1>5, <1>6, <1>7, <1>8 DEF Step

LEMMA CodesHeldStep ==
  ASSUME LinkInv, CodesHeld, \A c \in Reqs : codes[c].tries <= CodeTries, NEW r \in Reqs, Step(r)
  PROVE  CodesHeld'
<1>1. Framed(r) /\ at[r] # "done" /\ made' = made /\ r # None /\ None \notin Reqs
  BY StepFrames, StepNotDone, StepMade, LinksAssumption DEF world
<1>2. \A c \in Reqs : CodeRow(c) \in Locks
  BY LocksDiffer
<1>3. \A c \in Reqs : code[r] = c => at[r] \in Trying \union {"codeRow"}
  BY DEF CodesHeld
<1>4. TakeCode(r) /\ at'[r] # "done" => at[r] = "codeRow" /\ at'[r] = "try" /\ codes' = codes
  BY DEF TakeCode, Goes, rows, LinkInv, TypeOK
<1>5. ASSUME TakeCode(r), NEW c \in Reqs, code'[r] = c
      PROVE  code[r] = c /\ held'[CodeRow(c)] = r /\ codes[c].state = "live" /\ codes[c].tries < CodeTries
  <2>1. StillUsable(code[r])
    BY <1>1, <1>5 DEF TakeCode, LinkInv, TypeOK
  <2>2. code' = code /\ Take(CodeRow(code[r]), r)
    BY <1>5, <2>1 DEF TakeCode
  <2> QED
    BY <1>2, <1>5, <2>1, <2>2 DEF StillUsable, Usable, Take, LinkInv, TypeOK
<1>6. ASSUME NEW c \in Reqs, TakeCode(r), held'[CodeRow(c)] = r, held[CodeRow(c)] # r
      PROVE  code'[r] = c /\ codes[c].state = "live"
  <2>1. StillUsable(code[r]) /\ Take(CodeRow(code[r]), r) /\ code' = code
    BY <1>6 DEF TakeCode
  <2>2. CodeRow(c) = CodeRow(code[r])
    BY <1>2, <1>6, <2>1 DEF Take, LinkInv, TypeOK
  <2> QED
    BY <2>1, <2>2 DEF CodeRow, StillUsable, Usable
<1>7. ASSUME NEW q \in Reqs, NEW c \in Reqs, code'[q] = c
      PROVE  /\ at'[q] \in Trying \union {"codeRow"} /\ codes'[c].state # "none"
             /\ at'[q] # "codeRow" => held'[CodeRow(c)] = q /\ codes'[c].tries < CodeTries
  <2>1. CASE q # r
    <3>1. code[q] = c /\ at'[q] = at[q]
      BY <1>1, <1>7, <2>1 DEF Framed
    <3>2. /\ at[q] \in Trying \union {"codeRow"} /\ codes[c].state # "none"
          /\ at[q] # "codeRow" => held[CodeRow(c)] = q /\ codes[c].tries < CodeTries
      BY <3>1 DEF CodesHeld
    <3>3. codes'[c].state # "none"
      BY <3>2, CodesMove
    <3>4. held[CodeRow(c)] = q => held'[CodeRow(c)] = q /\ codes'[c] = codes[c]
      BY <1>1, <1>2, <2>1, CodesMove DEF Framed
    <3> QED
      BY <3>1, <3>2, <3>3, <3>4
  <2>2. CASE q = r
    <3>1. at'[r] # "done"
      BY <1>1, <1>7, <2>2 DEF Framed
    <3>2. codes' = codes
      BY <3>1, CodesMove
    <3>3. CASE TakeCode(r)
      BY <1>4, <1>5, <1>7, <2>2, <3>1, <3>2, <3>3 DEF Trying
    <3>4. CASE at[r] = "idle"
      <4>1. code[r] # c
        BY <1>3, <3>4 DEF Trying, Counting
      <4>2. ~TakeCode(r)
        BY <3>4 DEF TakeCode
      <4> QED
        BY <1>7, <2>2, <3>1, <3>2, <3>4, <4>1, <4>2, StepTries DEF Sending
    <3>5. CASE at[r] # "idle" /\ ~TakeCode(r)
      <4>1. code' = code /\ at[r] # "codeRow" /\ at[r] \in Trying \union {"codeRow"}
        BY <1>3, <1>7, <2>2, <3>1, <3>5, StepTries DEF Sending, Trying, Counting
      <4>2. held'[CodeRow(c)] = held[CodeRow(c)] /\ at'[r] \in Trying
        BY <3>1, <3>5, <4>1, StepTries DEF Sending, Trying, Counting
      <4> QED
        BY <1>7, <2>2, <3>2, <4>1, <4>2 DEF CodesHeld
    <3> QED
      BY <3>3, <3>4, <3>5
  <2> QED
    BY <2>1, <2>2
<1>8. ASSUME NEW q \in Reqs, NEW c \in Reqs, held'[CodeRow(c)] = q
      PROVE  /\ code'[q] = c \/ at'[q] \in Sending
             /\ codes'[c].state \in {"live", "ended"}
  <2>1. CASE q # r
    <3>1. held[CodeRow(c)] = q /\ q # None
      BY <1>1, <1>2, <1>8, <2>1 DEF Framed
    <3>2. codes'[c] = codes[c] /\ codes[c].state \in {"live", "ended"}
      BY <2>1, <3>1, CodesMove DEF CodesHeld, Free
    <3> QED
      BY <1>1, <2>1, <3>1, <3>2 DEF Framed, CodesHeld
  <2>2. CASE q = r
    <3>1. at'[r] # "done"
      BY <1>1, <1>2, <1>8, <2>2 DEF Framed
    <3>2. codes' = codes
      BY <3>1, CodesMove
    <3>3. held[CodeRow(c)] = r => codes[c].state \in {"live", "ended"} /\ (code[r] = c \/ at[r] \in Sending)
      BY <1>1 DEF CodesHeld, Free
    <3>4. CASE TakeCode(r)
      <4>1. CASE held[CodeRow(c)] = r
        <5>1. code[r] = c /\ at[r] = "codeRow"
          BY <3>3, <3>4, <4>1 DEF TakeCode, Sending
        <5>2. Free(CodeRow(c))
          BY <3>4, <5>1 DEF TakeCode
        <5> QED
          BY <1>1, <4>1, <5>2 DEF Free
      <4> QED
        BY <1>6, <1>8, <2>2, <3>2, <3>4, <4>1
    <3>5. CASE at[r] = "idle"
      <4>1. held' = held /\ ~TakeCode(r)
        BY <3>1, <3>5, StepTries DEF Sending, TakeCode
      <4> QED
        BY <1>3, <1>8, <2>2, <3>3, <3>5, <4>1 DEF Sending, Trying, Counting
    <3>6. CASE at[r] \in Sending \union {"send"}
      <4>1. at'[r] \in Sending /\ (held[CodeRow(c)] = r \/ codes[c].state = "live")
        BY <1>8, <2>2, <3>1, <3>6, StepTries DEF Sending, TakeCode, Trying
      <4> QED
        BY <2>2, <3>2, <3>3, <4>1
    <3>7. CASE ~TakeCode(r) /\ at[r] # "idle" /\ at[r] \notin Sending \union {"send"}
      <4>1. code' = code /\ held'[CodeRow(c)] = held[CodeRow(c)]
        BY <3>1, <3>7, StepTries
      <4> QED
        BY <1>8, <2>2, <3>2, <3>3, <3>7, <4>1
    <3> QED
      BY <3>4, <3>5, <3>6, <3>7
  <2> QED
    BY <2>1, <2>2
<1>9. ASSUME NEW c \in Reqs, held'[CodeRow(c)] # None PROVE codes'[c].state \in {"live", "ended"}
  <2>1. held'[CodeRow(c)] \in Reqs
    <3>1. held[CodeRow(c)] \in Reqs \union {None}
      BY <1>2 DEF LinkInv, TypeOK
    <3> QED
      BY <1>1, <1>2, <1>9, <3>1 DEF Framed
  <2> QED
    BY <1>8, <2>1
<1>10. ASSUME NEW q \in Reqs, at'[q] # "done" PROVE codes'[q].state = "none"
  <2>1. at[q] # "done"
    BY <1>1, <1>10 DEF Framed
  <2>2. ~(Mail(r) /\ q = r)
    BY <1>10 DEF Mail, Answered, Goes, LinkInv, TypeOK
  <2> QED
    BY <2>1, <2>2, CodesMove DEF CodesHeld
<1>11. ASSUME NEW q \in Reqs, made'.code, at'[q] \in {"device", "bindRow"} \union Counting
       PROVE  code'[q] # None /\ req'[q].names = code'[q]
  <2>1. CASE q # r
    BY <1>1, <1>11, <2>1 DEF Framed, CodesHeld
  <2>2. CASE q = r
    <3>1. /\ at[r] \in {"device", "bindRow", "check"} \union Counting
          /\ code[r] # None /\ req[r].names = code[r]
      BY <1>1, <1>11, <2>2, StepNames DEF CodesHeld, CodeRight
    <3>2. req'[r] = req[r] /\ at'[r] # "done" /\ ~TakeCode(r)
      BY <1>1, <1>11, <2>2, <3>1 DEF Framed, Counting, TakeCode
    <3>3. code' = code
      BY <3>1, <3>2, StepTries DEF Sending, Counting
    <3> QED
      BY <2>2, <3>1, <3>2, <3>3
  <2> QED
    BY <2>1, <2>2
<1>12. ASSUME NEW c \in Reqs, ~Free(CodeRow(c))' PROVE codes'[c].state \in {"live", "ended"}
  BY <1>9, <1>12 DEF Free
<1>13. ASSUME NEW q \in Reqs, made'.code, answer'[q] = "opened" PROVE req'[q].names \in Reqs
  <2>1. CASE q # r
    BY <1>1, <1>13, <2>1 DEF Framed, CodesHeld
  <2>2. CASE q = r
    <3>1. at[r] = "view" /\ req' = req
      BY <1>13, <2>2, OpenedTells DEF Opened
    <3> QED
      BY <1>1, <1>13, <2>2, <3>1 DEF CodesHeld, Counting, LinkInv, TypeOK
  <2> QED
    BY <2>1, <2>2
<1> QED
  BY <1>7, <1>8, <1>10, <1>11, <1>12, <1>13 DEF CodesHeld

LEMMA CodeOpensStep ==
  ASSUME LinkInv, CodesHeld, CodeOpensOnce, NEW r \in Reqs, Step(r)
  PROVE  CodeOpensOnce'
<1>1. Framed(r) /\ at[r] # "done" /\ made' = made /\ answer[r] = "none"
  BY StepFrames, StepNotDone, StepMade DEF world, LinkInv, Local
<1>2. \A c \in Reqs : codes[c].tries <= CodeTries
  BY DEF CodeOpensOnce
<1>3. \A c \in Reqs : codes'[c].tries <= CodeTries /\ (codes[c].state = "used" => codes'[c].state = "used")
  BY <1>2, CodesMove
<1>4. ASSUME made.code
      PROVE  \A q, p \in Got("opened")' : /\ codes'[req'[q].names].state = "used"
                                          /\ req'[q].names = req'[p].names => q = p
  <2>1. ASSUME NEW q \in Got("opened") PROVE req[q].names \in Reqs /\ q # r /\ req'[q] = req[q]
    <3>1. q \in Reqs /\ q # r
      BY <1>1 DEF Got
    <3>2. req'[q] = req[q]
      BY <1>1, <3>1 DEF Framed
    <3> QED
      BY <1>4, <3>1, <3>2 DEF CodesHeld, Got
  <2>2. CASE answer'[r] # "opened"
    <3>1. Got("opened")' = Got("opened")
      BY <1>1, <2>2 DEF Got, Framed
    <3> QED
      BY <1>3, <1>4, <2>1, <3>1 DEF CodeOpensOnce
  <2>3. CASE answer'[r] = "opened"
    <3>1. Opened(r) /\ Live(draft)
      BY <2>3, OpenedTells
    <3>2. code[r] \in Reqs /\ req[r].names = code[r] /\ req' = req /\ CodeUsed(r) /\ at[r] = "view"
      <4>1. at[r] = "view" /\ CodeUsed(r) /\ req' = req
        BY <3>1 DEF Opened
      <4> QED
        BY <1>4, <4>1 DEF CodesHeld, Counting, LinkInv, TypeOK
    <3>3. codes[code[r]].state # "used" /\ codes'[code[r]].state = "used"
      <4>1. held[CodeRow(code[r])] = r /\ r # None
        BY <3>2, LinksAssumption DEF CodesHeld
      <4>2. codes[code[r]].state # "used"
        BY <3>2, <4>1 DEF CodesHeld, Free
      <4>3. codes' = [codes EXCEPT ![code[r]].state = "used"]
        BY <3>2, LinksAssumption DEF CodeUsed
      <4> QED
        BY <3>2, <4>2, <4>3 DEF LinkInv, TypeOK, Codes
    <3>4. Got("opened")' = Got("opened") \union {r}
      BY <1>1, <2>3 DEF Got, Framed
    <3>5. \A q \in Got("opened") : codes[req[q].names].state = "used"
      BY <1>4 DEF CodeOpensOnce
    <3> QED
      BY <1>3, <1>4, <2>1, <3>2, <3>3, <3>4, <3>5 DEF CodeOpensOnce
  <2> QED
    BY <2>2, <2>3
<1> QED
  BY <1>1, <1>3, <1>4 DEF CodeOpensOnce

\* How a send of a code goes on: alone, its earlier codes in hand before its line.
LEMMA StepSends ==
  ASSUME LinkInv, IsFiniteSet(Sent), NEW r \in Reqs, Step(r), at'[r] \in Sending
  PROVE  \/ /\ at[r] = "send" /\ at'[r] = "endCodes" /\ Cardinality(Sent) < Sends
            /\ held'[SendLock] = r /\ todo'[r] = EarlierCodes
         \/ /\ at[r] = "endCodes" /\ held'[SendLock] = held[SendLock]
            /\ \A c \in Reqs : held[CodeRow(c)] = r => held'[CodeRow(c)] = r
            /\ \/ /\ at'[r] = "endCodes"
                  /\ \A c \in todo[r] : \/ c \in todo'[r] \/ held'[CodeRow(c)] = r
                                        \/ codes[c].state # "live"
               \/ at'[r] = "sendLine" /\ todo[r] = {}
         \/ /\ at[r] = "sendLine" /\ at'[r] = "mail" /\ held'[SendLock] = held[SendLock]
            /\ \A c \in Reqs : held'[CodeRow(c)] = held[CodeRow(c)]
<1>1. ASSUME NEW a, Answered(r, a) PROVE FALSE
  BY <1>1 DEF Answered, Goes, Sending, LinkInv, TypeOK
<1>2. ASSUME NEW x, Goes(r, x) PROVE at'[r] = x
  BY <1>2 DEF Goes, LinkInv, TypeOK
<1>3. CountSends(r) \/ EndCodes(r) \/ SendLine(r)
  <2>1. ASSUME NEW b \in Browsers, NEW n \in Reqs \union {None}, NEW right \in BOOLEAN,
               Open(r, b, n, right) \/ Fetch(r, b, n) \/ SendCode(r, b)
        PROVE  FALSE
    <3>1. \/ \E a : Answered(r, a)
          \/ \E x \in {"device", "count", "try", "codeRow", "dropSession", "dropLink", "touch", "send"} : Goes(r, x)
      BY <2>1 DEF Open, Fetch, SendCode, Undone, AfterFactors
    <3> QED
      BY <1>1, <1>2, <3>1 DEF Sending
  <2>2. ASSUME \/ TakeCode(r) \/ AskTry(r) \/ Reserve(r) \/ Right(r) \/ Wrong(r) \/ Lock(r) \/ Locked(r)
               \/ AskBind(r) \/ Bind(r) \/ AskCount(r) \/ CountOpen(r) \/ Clear(r) \/ Opened(r)
        PROVE  FALSE
    <3>1. \/ \E a : Answered(r, a)
          \/ \E x \in {"try", "tryRow", "check", "device", "count", "lockLine", "bindRow", "countRow", "clear",
                       "view"} : Goes(r, x)
          \/ at' = at /\ at[r] = "clear"
      BY <2>2 DEF TakeCode, AskTry, Reserve, Right, Wrong, Lock, Locked, AskBind, Bind, AskCount, CountOpen,
                  Clear, Opened, Undone, RefusedKeeping, EndSessions, AfterFactors
    <3> QED
      BY <1>1, <1>2, <3>1 DEF Sending
  <2>3. ASSUME \/ Drop(r) \/ Touch(r) \/ Gives(r) \/ CountDownload(r) \/ Finish(r) \/ Mail(r) \/ NotMailed(r)
               \/ Revoke(r) \/ RevokeRow(r) \/ RevokeSessions(r) \/ Revoked(r) \/ Fail(r)
        PROVE  FALSE
    <3>1. \/ \E a : Answered(r, a)
          \/ \E x \in {"gives", "finish", "downRow", "revokeRow", "endSessions", "revokeLine"} : Goes(r, x)
      BY <2>3 DEF Drop, Touch, Gives, CountDownload, Finish, Mail, NotMailed, Revoke, RevokeRow, RevokeSessions,
                  Revoked, Fail, Undone, SessionEnds, EndSessions
    <3> QED
      BY <1>1, <1>2, <3>1 DEF Sending
  <2>4. ASSUME NEW b \in Browsers, NEW n \in Reqs \union {None}, NEW right \in BOOLEAN, Open(r, b, n, right)
        PROVE  FALSE
    BY <2>1, <2>4
  <2>5. ASSUME NEW b \in Browsers, NEW s \in Reqs, Fetch(r, b, s) PROVE FALSE
    BY <2>1, <2>5
  <2>6. ASSUME NEW b \in Browsers, SendCode(r, b) PROVE FALSE
    BY <2>1, <2>6
  <2> QED
    BY <2>2, <2>3, <2>4, <2>5, <2>6 DEF Step
<1>4. CASE CountSends(r)
  <2>1. Cardinality(Sent) < Sends /\ Take(SendLock, r) /\ Goes(r, "endCodes") /\ at[r] = "send"
        /\ todo' = [todo EXCEPT ![r] = EarlierCodes]
    <3>1. ~(Cardinality(Sent) >= Sends)
      BY <1>1, <1>4 DEF CountSends, Undone
    <3>2. Cardinality(Sent) < Sends
      BY <3>1, FS_CardinalityType, LinksAssumption
    <3> QED
      BY <1>4, <3>1, <3>2 DEF CountSends
  <2>2. held'[SendLock] = r /\ todo'[r] = EarlierCodes
    BY <2>1, LocksDiffer DEF Take, LinkInv, TypeOK
  <2> QED
    BY <1>2, <2>1, <2>2
<1>5. CASE EndCodes(r)
  <2>1. CASE at' = at
    <3>1. PICK c \in todo[r] : /\ Free(CodeRow(c)) /\ todo' = [todo EXCEPT ![r] = @ \ {c}]
                               /\ IF codes[c].state = "live" THEN Take(CodeRow(c), r) ELSE UNCHANGED held
      BY <1>2, <1>5, <2>1 DEF EndCodes
    <3>2. c \in Reqs /\ r # None /\ at[r] = "endCodes"
      BY <1>5, LinksAssumption DEF EndCodes, LinkInv, TypeOK
    <3>3. /\ held'[SendLock] = held[SendLock]
          /\ \A d \in Reqs : held[CodeRow(d)] = r => held'[CodeRow(d)] = r
          /\ codes[c].state = "live" => held'[CodeRow(c)] = r
      BY <3>1, <3>2, LocksDiffer DEF Take, Free, LinkInv, TypeOK
    <3>4. todo'[r] = todo[r] \ {c}
      BY <3>1 DEF LinkInv, TypeOK
    <3> QED
      BY <2>1, <3>2, <3>3, <3>4
  <2>2. CASE at' # at
    <3>1. todo[r] = {} /\ Goes(r, "sendLine") /\ held' = held /\ at[r] = "endCodes"
      BY <1>5, <2>2 DEF EndCodes
    <3> QED
      BY <1>2, <3>1
  <2> QED
    BY <2>1, <2>2
<1>6. CASE SendLine(r)
  <2>1. at[r] = "sendLine" /\ Take(Log, r) /\ Goes(r, "mail")
    BY <1>6 DEF SendLine
  <2>2. held'[SendLock] = held[SendLock] /\ \A c \in Reqs : held'[CodeRow(c)] = held[CodeRow(c)]
    <3>1. \A c : Log # CodeRow(c)
      BY DEF Log, CodeRow
    <3> QED
      BY <2>1, <3>1, LocksDiffer DEF Take, LinkInv, TypeOK
  <2> QED
    BY <1>2, <2>1, <2>2
<1> QED
  BY <1>3, <1>4, <1>5, <1>6

LEMMA OneSendsStep ==
  ASSUME LinkInv, CodesHeld, \A c \in Reqs : codes[c].tries <= CodeTries, OneSends, OnlyNewestCode,
         NEW r \in Reqs, Step(r)
  PROVE  OneSends' /\ OnlyNewestCode'
<1>1. Framed(r) /\ at[r] # "done" /\ r # None /\ None \notin Reqs /\ codes[r].state = "none"
  BY StepFrames, StepNotDone, LinksAssumption DEF CodesHeld
<1>2. SendLock \in Locks /\ \A c \in Reqs : CodeRow(c) \in Locks
  BY LocksDiffer
<1>3. IsFiniteSet(Sent) /\ Cardinality(Sent) \in Nat /\ Sends \in Nat /\ Cardinality(Sent) <= Sends
  BY FS_CardinalityType, LinksAssumption DEF OneSends, OnlyNewestCode
<1>4. ASSUME Mail(r)
      PROVE  /\ Sent' = Sent \union {r} /\ r \notin Sent
             /\ at[r] = "mail" /\ at'[r] = "done" /\ log' = Append(log, r)
             /\ \A c \in Reqs : codes'[c].state = "live" => c = r
  <2>1. \A c \in Reqs : codes'[c].state = "none" <=> codes[c].state = "none" /\ c # r
    BY <1>4, CodesMove
  <2>2. Sent' = Sent \union {r} /\ r \notin Sent
    BY <1>1, <2>1 DEF Sent
  <2>3. /\ codes' = [d \in Reqs |-> IF d = r THEN [state |-> "live", tries |-> 0]
                               ELSE IF held[CodeRow(d)] = r THEN [codes[d] EXCEPT !.state = "ended"]
                               ELSE codes[d]]
        /\ at[r] = "mail" /\ at'[r] = "done" /\ log' = Append(log, r)
    BY <1>4 DEF Mail, LineWritten, Answered, Goes, LinkInv, TypeOK
  <2>4. ASSUME NEW c \in Reqs, c # r PROVE codes'[c].state # "live"
    <3>1. CASE held[CodeRow(c)] = r
      <4>1. codes'[c] = [codes[c] EXCEPT !.state = "ended"]
        BY <2>3, <2>4, <3>1
      <4> QED
        BY <4>1 DEF LinkInv, TypeOK, Codes
    <3>2. CASE held[CodeRow(c)] # r
      <4>1. codes'[c] = codes[c]
        BY <2>3, <2>4, <3>2
      <4> QED
        BY <2>3, <3>2, <4>1 DEF OneSends
    <3> QED
      BY <3>1, <3>2
  <2> QED
    BY <2>2, <2>3, <2>4
<1>5. ASSUME ~Mail(r) PROVE Sent' = Sent
  <2>1. \A c \in Reqs : codes'[c].state = "none" <=> codes[c].state = "none"
    BY <1>5, CodesMove
  <2> QED
    BY <2>1 DEF Sent
<1>6. ASSUME NEW c \in Reqs, codes'[c].state = "live", c # r \/ ~Mail(r) PROVE codes[c].state = "live"
  BY <1>6, CodesMove
<1>7. ASSUME NEW c \in Sent', ~(Mail(r) /\ c = r)
      PROVE  c \in Sent
  BY <1>4, <1>5, <1>7
<1>8. \A i \in DOMAIN log : i \in DOMAIN log' /\ log'[i] = log[i]
  <2>1. log \in Seq(Reqs) /\ (log' = log \/ log' = Append(log, r))
    BY StepLogs DEF LinkInv, TypeOK
  <2> QED
    BY <2>1
<1>9. IsFiniteSet(Sent') /\ Cardinality(Sent') <= Sends
  <2>1. CASE Mail(r)
    <3>1. Cardinality(Sent) < Sends
      BY <1>4, <2>1 DEF OneSends, Sending
    <3>2. IsFiniteSet(Sent \union {r}) /\ Cardinality(Sent \union {r}) = Cardinality(Sent) + 1
      BY <1>3, <1>4, <2>1, FS_AddElement
    <3>3. Cardinality(Sent) + 1 <= Sends
      BY <1>3, <3>1
    <3>4. Sent' = Sent \union {r}
      BY <1>4, <2>1
    <3> QED
      BY <3>2, <3>3, <3>4
  <2>2. CASE ~Mail(r)
    BY <1>3, <1>5, <2>2
  <2> QED
    BY <2>1, <2>2
<1>10. ASSUME NEW q \in Reqs, at'[q] \in Sending PROVE held'[SendLock] = q /\ Cardinality(Sent') < Sends
  <2>1. CASE q # r
    <3>1. held[SendLock] = q /\ Cardinality(Sent) < Sends
      BY <1>1, <1>10, <2>1 DEF Framed, OneSends
    <3>2. held'[SendLock] = q
      BY <1>1, <1>2, <2>1, <3>1 DEF Framed
    <3>3. ~Mail(r)
      <4>1. Mail(r) => at[r] \in Sending
        BY DEF Mail, Sending
      <4> QED
        BY <2>1, <3>1, <4>1 DEF OneSends
    <3> QED
      BY <1>5, <3>1, <3>2, <3>3
  <2>2. CASE q = r
    <3>1. ~Mail(r)
      BY <1>4, <1>10, <2>2 DEF Sending
    <3>2. \/ at[r] = "send" /\ Cardinality(Sent) < Sends /\ held'[SendLock] = r
          \/ at[r] \in Sending /\ held'[SendLock] = held[SendLock]
      BY <1>10, <2>2, <1>3, StepSends DEF Sending
    <3>3. Cardinality(Sent) < Sends /\ held'[SendLock] = r
      BY <3>2 DEF OneSends
    <3> QED
      BY <1>5, <2>2, <3>1, <3>3
  <2> QED
    BY <2>1, <2>2
<1>11. ASSUME NEW q \in Reqs, q # r, at'[q] \in Sending, NEW c \in Reqs, codes'[c].state = "live"
       PROVE  codes[c].state = "live" /\ at[q] = at'[q] /\ (held[CodeRow(c)] = q => held'[CodeRow(c)] = q)
              /\ todo'[q] = todo[q]
  <2>1. at[q] = at'[q] /\ todo'[q] = todo[q] /\ (held[CodeRow(c)] = q => held'[CodeRow(c)] = q)
    BY <1>1, <1>2, <1>11 DEF Framed
  <2>2. ~Mail(r)
    <3>1. Mail(r) => at[r] \in Sending
      BY DEF Mail, Sending
    <3> QED
      BY <1>11, <2>1, <3>1 DEF OneSends
  <2> QED
    BY <1>6, <1>11, <2>1, <2>2
<1>12. ASSUME NEW q \in Reqs, at'[q] = "endCodes", NEW c \in Reqs, codes'[c].state = "live"
       PROVE  c \in todo'[q] \/ held'[CodeRow(c)] = q
  <2>1. CASE q # r
    BY <1>11, <1>12, <2>1 DEF OneSends, Sending
  <2>2. CASE q = r
    <3>1. ~Mail(r)
      BY <1>4, <1>12, <2>2
    <3>2. codes[c].state = "live"
      BY <1>6, <1>12, <3>1
    <3>3. CASE at[r] = "send"
      <4>1. todo'[r] = EarlierCodes
        BY <1>12, <2>2, <3>3, <1>3, StepSends DEF Sending
      <4> QED
        BY <2>2, <3>2, <4>1 DEF EarlierCodes
    <3>4. CASE at[r] # "send"
      <4>1. /\ at[r] = "endCodes"
            /\ \A d \in Reqs : held[CodeRow(d)] = r => held'[CodeRow(d)] = r
            /\ \A d \in todo[r] : d \in todo'[r] \/ held'[CodeRow(d)] = r \/ codes[d].state # "live"
        BY <1>12, <2>2, <3>4, <1>3, StepSends DEF Sending
      <4> QED
        BY <2>2, <3>2, <4>1 DEF OneSends
    <3> QED
      BY <3>3, <3>4
  <2> QED
    BY <2>1, <2>2
<1>13. ASSUME NEW q \in Reqs, at'[q] \in {"sendLine", "mail"}, NEW c \in Reqs, codes'[c].state = "live"
       PROVE  held'[CodeRow(c)] = q
  <2>1. CASE q # r
    BY <1>11, <1>13, <2>1 DEF OneSends, Sending
  <2>2. CASE q = r
    <3>1. ~Mail(r)
      BY <1>4, <1>13, <2>2
    <3>2. codes[c].state = "live"
      BY <1>6, <1>13, <3>1
    <3>3. \/ /\ at[r] = "endCodes" /\ todo[r] = {}
             /\ \A d \in Reqs : held[CodeRow(d)] = r => held'[CodeRow(d)] = r
          \/ at[r] = "sendLine" /\ \A d \in Reqs : held'[CodeRow(d)] = held[CodeRow(d)]
      BY <1>13, <2>2, <1>3, StepSends DEF Sending
    <3>4. held[CodeRow(c)] = r
      BY <3>2, <3>3 DEF OneSends
    <3> QED
      BY <2>2, <3>3, <3>4
  <2> QED
    BY <2>1, <2>2
<1>14. ASSUME NEW c \in Sent' PROVE \E i \in DOMAIN log' : log'[i] = c
  <2>1. CASE Mail(r) /\ c = r
    <3>1. log' = Append(log, r) /\ log \in Seq(Reqs)
      BY <1>4, <2>1 DEF LinkInv, TypeOK
    <3>2. Len(log) + 1 \in DOMAIN log' /\ log'[Len(log) + 1] = r
      BY <3>1
    <3> QED
      BY <2>1, <3>2
  <2>2. CASE ~(Mail(r) /\ c = r)
    BY <1>7, <1>8, <1>14, <2>2 DEF OneSends
  <2> QED
    BY <2>1, <2>2
<1>15. ASSUME NEW c \in Reqs, NEW d \in Reqs, codes'[c].state = "live", codes'[d].state # "none", c # d
       PROVE  \E i, j \in DOMAIN log' : log'[i] = d /\ log'[j] = c /\ i < j
  <2>1. CASE Mail(r)
    <3>1. c = r /\ d \in Sent
      <4>1. c = r
        BY <1>4, <1>15, <2>1
      <4> QED
        BY <1>4, <1>15, <2>1, <4>1 DEF Sent
    <3>2. PICK i \in DOMAIN log : log[i] = d
      BY <3>1 DEF OneSends
    <3>3. log' = Append(log, r) /\ log \in Seq(Reqs)
      BY <1>4, <2>1 DEF LinkInv, TypeOK
    <3>4. Len(log) + 1 \in DOMAIN log' /\ log'[Len(log) + 1] = r /\ i < Len(log) + 1
      BY <3>3
    <3> QED
      BY <1>8, <3>1, <3>2, <3>4
  <2>2. CASE ~Mail(r)
    <3>1. codes[c].state = "live" /\ codes[d].state # "none"
      BY <1>6, <1>15, <2>2, CodesMove
    <3>2. PICK i \in DOMAIN log, j \in DOMAIN log : log[i] = d /\ log[j] = c /\ i < j
      BY <1>15, <3>1 DEF OnlyNewestCode
    <3> QED
      BY <1>8, <3>2
  <2> QED
    BY <2>1, <2>2
<1>16. OneSends'
  BY <1>9, <1>10, <1>12, <1>13, <1>14 DEF OneSends
<1>17. OnlyNewestCode'
  BY <1>9, <1>15 DEF OnlyNewestCode
<1> QED
  BY <1>16, <1>17

\* All that were let in come from the browser the link is bound to.
LEMMA BoundGives == Bound => OneBrowser
<1> SUFFICES ASSUME Bound, made.oneDevice, NEW r \in Got("opened") \union Got("given"),
                    NEW q \in Got("opened") \union Got("given")
             PROVE  req[r].browser = req[q].browser
  BY DEF OneBrowser
<1>1. FromBound(r) /\ FromBound(q)
  BY DEF Bound, Got
<1> QED
  BY <1>1 DEF FromBound

LEMMA OpensSoundInit == Init => OpensSound
<1> SUFFICES ASSUME Init PROVE OpensSound
  OBVIOUS
<1>1. LinkInv /\ None \notin Reqs /\ None \notin Browsers
  BY InitInv, LinksAssumption
<1>2. /\ \A r \in Reqs : at[r] = "idle" /\ answer[r] = "none" /\ code[r] = None /\ req[r] = NoReq
      /\ \A r \in Reqs : codes[r].state = "none" /\ codes[r].tries = 0 /\ sessions[r].state = "none"
      /\ \A b \in Browsers : jar[b] = None
      /\ \A l \in Locks : held[l] = None
      /\ DOMAIN log = {} /\ link.device = None /\ ~link.revoked /\ draft = link
  BY DEF Init
<1>3. Bound
  BY <1>1, <1>2, LocksDiffer DEF Bound, NoReq, Counting, InSession
<1>4. CodesHeld
  BY <1>1, <1>2, LocksDiffer DEF CodesHeld, Free, Counting
<1>5. Sent = {} /\ Got("opened") = {} /\ Got("revoked") = {}
  BY <1>2 DEF Sent, Got
<1>6. OneSends /\ OnlyNewestCode
  <2>1. IsFiniteSet(Sent) /\ Cardinality(Sent) <= Sends
    BY <1>5, FS_EmptySet, LinksAssumption
  <2> QED
    BY <1>2, <1>5, <2>1 DEF OneSends, OnlyNewestCode, Sending
<1>7. EndsLogged /\ NothingAfterTheEnd
  BY <1>2, <1>5 DEF EndsLogged, NothingAfterTheEnd
<1>8. CodeOpensOnce
  BY <1>2, <1>5, LinksAssumption DEF CodeOpensOnce
<1> QED
  BY <1>3, <1>4, <1>6, <1>7, <1>8, BoundGives DEF OpensSound

LEMMA OpensSoundStep == ASSUME LinkInv, OpensSound, NEW r \in Reqs, Step(r) PROVE OpensSound'
<1>1. /\ Bound /\ CodesHeld /\ OneSends /\ EndsLogged
      /\ CodeOpensOnce /\ OnlyNewestCode /\ NothingAfterTheEnd
      /\ \A c \in Reqs : codes[c].tries <= CodeTries
  BY DEF OpensSound, CodeOpensOnce
<1>2. Bound' /\ OneBrowser'
  <2>1. Bound' => OneBrowser'
    BY BoundGives, PTL
  <2> QED
    BY <1>1, <2>1, BoundStep
<1>3. CodesHeld' /\ CodeOpensOnce'
  BY <1>1, CodesHeldStep, CodeOpensStep
<1>4. OneSends' /\ OnlyNewestCode'
  BY <1>1, OneSendsStep
<1>5. EndsLogged' /\ NothingAfterTheEnd'
  BY <1>1, EndsLoggedStep, NothingAfterStep
<1> QED
  BY <1>2, <1>3, <1>4, <1>5 DEF OpensSound

\* Time, and the link's maker and document: no request moves, and a code may
\* only end.
LEMMA OpensSoundWorld ==
  ASSUME LinkInv, OpensSound, UNCHANGED <<made, link, draft, jar, log, hands, at, req>>, DevicesKept,
         \A c \in Reqs : /\ codes'[c].tries = codes[c].tries
                         /\ \/ codes'[c].state = codes[c].state
                            \/ codes[c].state = "live" /\ codes'[c].state = "ended"
  PROVE  OpensSound'
<1>1. UNCHANGED <<held, code, todo, answer>>
  BY DEF hands
<1>2. /\ Bound /\ CodesHeld /\ OneSends /\ EndsLogged
      /\ CodeOpensOnce /\ OnlyNewestCode /\ NothingAfterTheEnd
  BY DEF OpensSound
<1>3. Sent' = Sent
  BY DEF Sent
<1>4. \A a : Got(a)' = Got(a)
  BY <1>1 DEF Got
<1>5. Bound'
  BY <1>1, <1>2 DEF Bound, FromBound, DevicesKept
<1>6. CodesHeld'
  BY <1>1, <1>2 DEF CodesHeld, Free
<1>7. CodeOpensOnce'
  <2>1. \A c \in Reqs : codes'[c].tries <= CodeTries
    BY <1>2 DEF CodeOpensOnce
  <2>2. ASSUME made.code, NEW q \in Got("opened") PROVE codes'[req[q].names].state = "used"
    <3>1. req[q].names \in Reqs
      BY <1>2, <2>2 DEF CodesHeld, Got
    <3> QED
      BY <1>2, <2>2, <3>1 DEF CodeOpensOnce
  <2> QED
    BY <1>2, <1>4, <2>1, <2>2 DEF CodeOpensOnce
<1>8. OneSends'
  BY <1>1, <1>2, <1>3 DEF OneSends
<1>9. OnlyNewestCode'
  BY <1>2, <1>3 DEF OnlyNewestCode
<1>10. EndsLogged' /\ NothingAfterTheEnd'
  BY <1>1, <1>2, <1>4 DEF EndsLogged, NothingAfterTheEnd
<1>11. Bound' => OneBrowser'
  BY BoundGives, PTL
<1> QED
  BY <1>5, <1>6, <1>7, <1>8, <1>9, <1>10, <1>11 DEF OpensSound

LEMMA OpensSoundNext == LinkInv /\ OpensSound /\ [Next]_vars => OpensSound'
<1> SUFFICES ASSUME LinkInv, OpensSound, [Next]_vars PROVE OpensSound'
  OBVIOUS
<1>1. CASE \E r \in Reqs : Step(r)
  BY <1>1, OpensSoundStep
<1>2. CASE ~\E r \in Reqs : Step(r)
  <2>1. UNCHANGED <<made, link, draft, jar, log, hands, at, req>>
    BY <1>2 DEF Next, Quiet, vars, SessionLapses, CodeLapses, Lend, Expire, world, rows, hands
  <2>2. DevicesKept
    <3>1. CASE sessions' = sessions
      BY <2>1, <3>1 DEF DevicesKept
    <3>2. CASE sessions' # sessions
      <4>1. PICK s \in Reqs : SessionLapses(s)
        BY <1>2, <3>2 DEF Next, Quiet, vars, CodeLapses, Lend, Expire, rows
      <4> QED
        BY <2>1, <4>1 DEF SessionLapses, DevicesKept, LinkInv, TypeOK, Sessions
    <3> QED
      BY <3>1, <3>2
  <2>3. \A c \in Reqs : /\ codes'[c].tries = codes[c].tries
                        /\ \/ codes'[c].state = codes[c].state
                           \/ codes[c].state = "live" /\ codes'[c].state = "ended"
    <3>1. CASE codes' # codes
      <4>1. PICK c \in Reqs : CodeLapses(c)
        BY <1>2, <3>1 DEF Next, Quiet, vars, SessionLapses, Lend, Expire, rows
      <4> QED
        BY <4>1 DEF CodeLapses, LinkInv, TypeOK, Codes
    <3> QED
      BY <3>1
  <2> QED
    BY <2>1, <2>2, <2>3, OpensSoundWorld
<1> QED
  BY <1>1, <1>2

\* However Opens, sends of a code, tries and the link's end cross: a link for
\* one device lets one browser in, a code lets one Open in and is the newest,
\* and the log says nothing of a link after its end (unlock, tryFactors,
\* sendCode, refuse, revoke).
THEOREM OpensSoundHolds == Spec => []OpensSound
BY OpensSoundInit, OpensSoundNext, SpecInv, PTL DEF Spec

-----------------------------------------------------------------------------
(* Who may wait for whom.                                                  *)

\* The steps at which a request has the log, the link's sends, or a session;
\* and one that waits for a code's row has a code.
HeldInTurn ==
  \A r \in Reqs :
    /\ at[r] = "codeRow" => code[r] \in Reqs
    /\ held[Log] = r => at[r] = "mail"
    /\ held[SendLock] = r => at[r] \in Sending
    /\ \A s \in Reqs : held[SessionRow(s)] = r =>
         at[r] \in InSession \union {"lockLine", "clear", "view", "revokeLine"}

\* Whoever waits for a code's row has found the code.
LEMMA StepAsks ==
  ASSUME LinkInv, NEW r \in Reqs, Step(r), at'[r] = "codeRow"
  PROVE  code'[r] \in Reqs
<1>1. ASSUME NEW a, Answered(r, a) PROVE FALSE
  BY <1>1 DEF Answered, Goes, LinkInv, TypeOK
<1>2. ASSUME NEW x, x # "codeRow", Goes(r, x) PROVE FALSE
  BY <1>2 DEF Goes, LinkInv, TypeOK
<1>3. ASSUME NEW b \in Browsers, NEW n \in Reqs \union {None}, NEW right \in BOOLEAN, Open(r, b, n, right)
      PROVE  code'[r] \in Reqs
  <2>1. \/ \E a : Answered(r, a)
        \/ \E x \in {"device", "count", "try"} : Goes(r, x)
        \/ \E c \in Reqs : code' = [code EXCEPT ![r] = c]
    BY <1>3 DEF Open, Undone, AfterFactors
  <2> QED
    BY <1>1, <1>2, <2>1 DEF LinkInv, TypeOK
<1>4. ASSUME NEW b \in Browsers, NEW n \in Reqs \union {None}, Fetch(r, b, n) \/ SendCode(r, b)
      PROVE  FALSE
  <2>1. \/ \E a : Answered(r, a)
        \/ \E x \in {"dropSession", "dropLink", "touch", "send"} : Goes(r, x)
    BY <1>4 DEF Fetch, SendCode, Undone
  <2> QED
    BY <1>1, <1>2, <2>1
<1>5. ASSUME \/ TakeCode(r) \/ AskTry(r) \/ Reserve(r) \/ Right(r) \/ Wrong(r) \/ Lock(r) \/ Locked(r)
             \/ AskBind(r) \/ Bind(r) \/ AskCount(r) \/ CountOpen(r) \/ Clear(r) \/ Opened(r)
      PROVE  FALSE
  <2>1. \/ \E a : Answered(r, a)
        \/ \E x \in {"try", "tryRow", "check", "device", "count", "lockLine", "bindRow", "countRow", "clear",
                     "view"} : Goes(r, x)
        \/ at' = at /\ at[r] = "clear"
    BY <1>5 DEF TakeCode, AskTry, Reserve, Right, Wrong, Lock, Locked, AskBind, Bind, AskCount, CountOpen,
                Clear, Opened, Undone, RefusedKeeping, EndSessions, AfterFactors
  <2> QED
    BY <1>1, <1>2, <2>1
<1>6. ASSUME \/ Drop(r) \/ Touch(r) \/ Gives(r) \/ CountDownload(r) \/ Finish(r) \/ Mail(r) \/ NotMailed(r)
             \/ Revoke(r) \/ RevokeRow(r) \/ RevokeSessions(r) \/ Revoked(r) \/ Fail(r)
             \/ CountSends(r) \/ EndCodes(r) \/ SendLine(r)
      PROVE  FALSE
  <2>1. \/ \E a : Answered(r, a)
        \/ \E x \in {"gives", "finish", "downRow", "revokeRow", "endSessions", "revokeLine", "endCodes",
                     "sendLine", "mail"} : Goes(r, x)
        \/ at' = at /\ at[r] = "endCodes"
    BY <1>6 DEF Drop, Touch, Gives, CountDownload, Finish, Mail, NotMailed, Revoke, RevokeRow, RevokeSessions,
                Revoked, Fail, CountSends, EndCodes, SendLine, Undone, SessionEnds, EndSessions
  <2> QED
    BY <1>1, <1>2, <2>1
<1>7. ASSUME NEW b \in Browsers, NEW s \in Reqs, Fetch(r, b, s) PROVE FALSE
  BY <1>4, <1>7
<1>8. ASSUME NEW b \in Browsers, SendCode(r, b) PROVE FALSE
  BY <1>4, <1>8
<1> QED
  BY <1>3, <1>5, <1>6, <1>7, <1>8 DEF Step

LEMMA HeldInTurnStep ==
  ASSUME LinkInv, HeldInTurn, NEW r \in Reqs, Step(r)
  PROVE  HeldInTurn'
<1> DEFINE InOne == InSession \union {"lockLine", "clear", "view", "revokeLine"}
           Turn == /\ at'[r] = "codeRow" => code'[r] \in Reqs
                   /\ held'[Log] = r => at'[r] = "mail"
                   /\ held'[SendLock] = r => at'[r] \in Sending
                   /\ \A s \in Reqs : held'[SessionRow(s)] = r => at'[r] \in InOne
           Same == /\ held'[Log] = held[Log] /\ held'[SendLock] = held[SendLock]
                   /\ \A s \in Reqs : held'[SessionRow(s)] = held[SessionRow(s)]
<1>1. Framed(r) /\ r # None /\ None \notin Reqs
  BY StepFrames, LinksAssumption
<1>0. at'[r] = "codeRow" => code'[r] \in Reqs
  BY StepAsks
<1>2. /\ Log \in Locks /\ SendLock \in Locks /\ LinkRow \in Locks
      /\ \A s \in Reqs : SessionRow(s) \in Locks /\ CodeRow(s) \in Locks
  BY LocksDiffer
<1>3. held[Log] = r => at[r] = "mail"
  BY DEF HeldInTurn
<1>4. held[SendLock] = r => at[r] \in Sending
  BY DEF HeldInTurn
<1>5. \A s \in Reqs : held[SessionRow(s)] = r => at[r] \in InOne
  BY DEF HeldInTurn
<1>6. ASSUME NEW a, Answered(r, a) PROVE Turn
  BY <1>0, <1>1, <1>2, <1>6 DEF Answered
<1>7. ASSUME NEW x, Goes(r, x) PROVE at'[r] = x
  BY <1>7 DEF Goes, LinkInv, TypeOK
<1>8. ASSUME Same, at[r] \notin InOne \union Sending PROVE Turn
  BY <1>0, <1>3, <1>4, <1>5, <1>8 DEF Sending
<1>9. held' = held => Same
  OBVIOUS
<1>10. Take(LinkRow, r) => Same
  BY LocksDiffer DEF Take, LinkInv, TypeOK
<1>11. \A c : Take(CodeRow(c), r) => Same
  <2>1. \A c : Log # CodeRow(c) /\ SendLock # CodeRow(c) /\ \A s \in Reqs : SessionRow(s) # CodeRow(c)
    BY DEF Log, SendLock, SessionRow, CodeRow
  <2> QED
    BY <1>2, <2>1 DEF Take, LinkInv, TypeOK
<1>12. held' = [held EXCEPT ![LinkRow] = None] => Same
  BY LocksDiffer DEF LinkInv, TypeOK
<1>13. ASSUME NEW b \in Browsers, NEW n \in Reqs \union {None}, NEW right \in BOOLEAN,
              Open(r, b, n, right) \/ Fetch(r, b, n) \/ SendCode(r, b)
       PROVE  Turn
  <2>1. (\E a : Answered(r, a)) \/ (at[r] = "idle" /\ held' = held)
    BY <1>13 DEF Open, Fetch, SendCode, Arrives, Undone, hands
  <2>2. "idle" \notin InOne \union Sending
    BY DEF InSession, Sending
  <2> QED
    BY <1>6, <1>8, <1>9, <2>1, <2>2
<1>14. ASSUME TakeCode(r) \/ AskTry(r) \/ Reserve(r) \/ Right(r) \/ AskBind(r) \/ Bind(r) \/ AskCount(r)
             \/ CountOpen(r) \/ Revoke(r) \/ RevokeRow(r)
       PROVE  Turn
  <2>1. \/ \E a : Answered(r, a)
        \/ held' = held \/ Take(LinkRow, r) \/ (\E c : Take(CodeRow(c), r))
        \/ held' = [held EXCEPT ![LinkRow] = None]
    BY <1>14 DEF TakeCode, AskTry, Reserve, Right, AskBind, Bind, AskCount, CountOpen, Revoke, RevokeRow, Undone,
                 RefusedKeeping, hands
  <2>2. at[r] \in {"codeRow", "try", "tryRow", "check", "device", "bindRow", "count", "countRow", "idle", "revokeRow"}
    BY <1>14 DEF TakeCode, AskTry, Reserve, Right, AskBind, Bind, AskCount, CountOpen, Revoke, RevokeRow
  <2>3. at[r] \notin InOne \union Sending
    BY <2>2 DEF InSession, Sending
  <2>4. (\E a : Answered(r, a)) \/ Same
    BY <1>9, <1>10, <1>11, <1>12, <2>1
  <2> QED
    BY <1>6, <1>8, <2>3, <2>4
<1>15. ASSUME Lock(r) \/ RevokeSessions(r)
       PROVE  Turn
  <2>1. PICK x \in {"lockLine", "revokeLine"} : EndSessions(r, x) /\ at[r] \in {"check", "endSessions"}
    BY <1>15 DEF Lock, RevokeSessions
  <2>2. at'[r] \in InOne
    BY <1>7, <2>1 DEF EndSessions
  <2>3. held'[Log] = held[Log] /\ held'[SendLock] = held[SendLock]
    BY <2>1, LocksDiffer DEF EndSessions, ToEnd
  <2> QED
    BY <1>0, <1>3, <1>4, <2>1, <2>2, <2>3 DEF Sending
<1>16. ASSUME Clear(r)
       PROVE  Turn
  <2>1. at[r] = "clear" /\ at'[r] \in {"clear", "view"}
    BY <1>7, <1>16 DEF Clear
  <2>2. held' = held \/ \E s \in todo[r] : Take(SessionRow(s), r)
    BY <1>16 DEF Clear
  <2>3. held'[Log] = held[Log] /\ held'[SendLock] = held[SendLock]
    BY <1>2, <2>2, LocksDiffer DEF Take, LinkInv, TypeOK
  <2> QED
    BY <1>0, <1>3, <1>4, <2>1, <2>3 DEF Sending
<1>17. ASSUME Touch(r)
       PROVE  Turn
  <2>1. CASE \E a : Answered(r, a)
    BY <1>6, <2>1
  <2>2. CASE ~\E a : Answered(r, a)
    <3>1. at[r] = "touch" /\ at'[r] = "gives" /\ Take(SessionRow(req[r].names), r)
      BY <1>7, <1>17, <2>2 DEF Touch, Undone
    <3>2. held'[Log] = held[Log] /\ held'[SendLock] = held[SendLock]
      BY <1>2, <3>1, LocksDiffer DEF Take, LinkInv, TypeOK
    <3> QED
      BY <1>0, <1>3, <1>4, <3>1, <3>2 DEF Sending, InSession
  <2> QED
    BY <2>1, <2>2
<1>18. ASSUME Gives(r) \/ CountDownload(r)
       PROVE  Turn
  <2>1. CASE \E a : Answered(r, a)
    BY <1>6, <2>1
  <2>2. CASE ~\E a : Answered(r, a)
    <3>1. at[r] \in {"gives", "downRow"} /\ at'[r] \in {"finish", "downRow"} /\ (held' = held \/ Take(LinkRow, r))
      BY <1>7, <1>18, <2>2 DEF Gives, CountDownload, Undone, SessionEnds, hands
    <3> QED
      BY <1>0, <1>3, <1>4, <1>9, <1>10, <3>1 DEF Sending, InSession
  <2> QED
    BY <2>1, <2>2
<1>19. ASSUME CountSends(r)
       PROVE  Turn
  <2>1. CASE \E a : Answered(r, a)
    BY <1>6, <2>1
  <2>2. CASE ~\E a : Answered(r, a)
    <3>1. at[r] = "send" /\ at'[r] = "endCodes" /\ Take(SendLock, r)
      BY <1>7, <1>19, <2>2 DEF CountSends, Undone
    <3>2. held'[Log] = held[Log] /\ \A s \in Reqs : held'[SessionRow(s)] = held[SessionRow(s)]
      BY <1>2, <3>1, LocksDiffer DEF Take, LinkInv, TypeOK
    <3> QED
      BY <1>0, <1>3, <1>5, <3>1, <3>2 DEF Sending, InSession
  <2> QED
    BY <2>1, <2>2
<1>20. ASSUME EndCodes(r)
       PROVE  Turn
  <2>1. at[r] = "endCodes" /\ at'[r] \in {"endCodes", "sendLine"} /\ (held' = held \/ \E c : Take(CodeRow(c), r))
    BY <1>7, <1>20 DEF EndCodes
  <2>2. Same
    BY <1>9, <1>11, <2>1
  <2> QED
    BY <1>0, <1>3, <1>5, <2>1, <2>2 DEF Sending, InSession
<1>21. ASSUME SendLine(r)
       PROVE  Turn
  <2>1. at[r] = "sendLine" /\ at'[r] = "mail" /\ Take(Log, r)
    BY <1>7, <1>21 DEF SendLine
  <2>2. \A s \in Reqs : held'[SessionRow(s)] = held[SessionRow(s)]
    BY <1>2, <2>1, LocksDiffer DEF Take, LinkInv, TypeOK
  <2> QED
    BY <1>0, <1>5, <2>1, <2>2 DEF Sending, InSession
<1>22. ASSUME Wrong(r) \/ Locked(r) \/ Opened(r) \/ Drop(r) \/ Finish(r) \/ Mail(r) \/ NotMailed(r)
             \/ Revoked(r) \/ Fail(r)
       PROVE  Turn
  BY <1>6, <1>22 DEF Wrong, Locked, Opened, Drop, Finish, Mail, NotMailed, Revoked, Fail, Undone, SessionEnds
<1> HIDE DEF Turn
<1>23. Turn
  <2>1. ASSUME NEW b \in Browsers, NEW n \in Reqs \union {None}, NEW right \in BOOLEAN, Open(r, b, n, right)
        PROVE  Turn
    BY <1>13, <2>1
  <2>2. ASSUME NEW b \in Browsers, NEW s \in Reqs, Fetch(r, b, s) PROVE Turn
    BY <1>13, <2>2
  <2>3. ASSUME NEW b \in Browsers, SendCode(r, b) PROVE Turn
    BY <1>13, <2>3
  <2> QED
    BY <1>14, <1>15, <1>16, <1>17, <1>18, <1>19, <1>20, <1>21, <1>22, <2>1, <2>2, <2>3 DEF Step
<1>24. ASSUME NEW q \in Reqs, q # r
       PROVE  /\ at'[q] = "codeRow" => code'[q] \in Reqs
              /\ held'[Log] = q => at'[q] = "mail"
              /\ held'[SendLock] = q => at'[q] \in Sending
              /\ \A s \in Reqs : held'[SessionRow(s)] = q => at'[q] \in InOne
  <2>1. q # None /\ at'[q] = at[q] /\ code'[q] = code[q]
    BY <1>1, <1>24 DEF Framed
  <2>2. \A l \in Locks : held'[l] = q => held[l] = q
    BY <1>1, <1>24, <2>1 DEF Framed
  <2>3. /\ at[q] = "codeRow" => code[q] \in Reqs
        /\ held[Log] = q => at[q] = "mail"
        /\ held[SendLock] = q => at[q] \in Sending
        /\ \A s \in Reqs : held[SessionRow(s)] = q => at[q] \in InOne
    BY DEF HeldInTurn
  <2> QED
    BY <1>2, <2>1, <2>2, <2>3
<1> QED
  <2>1. ASSUME NEW q \in Reqs
        PROVE  /\ at'[q] = "codeRow" => code'[q] \in Reqs
               /\ held'[Log] = q => at'[q] = "mail"
               /\ held'[SendLock] = q => at'[q] \in Sending
               /\ \A s \in Reqs : held'[SessionRow(s)] = q => at'[q] \in InOne
    <3>1. CASE q # r
      BY <1>24, <3>1
    <3>2. CASE q = r
      <4> USE DEF Turn
      <4> QED
        BY <1>23, <3>2
    <3> QED
      BY <3>1, <3>2
  <2> QED
    BY <2>1 DEF HeldInTurn

THEOREM TurnsHold == Spec => []HeldInTurn
<1>1. Init => HeldInTurn
  BY LocksDiffer, LinksAssumption DEF Init, HeldInTurn
<1>2. LinkInv /\ HeldInTurn /\ [Next]_vars => HeldInTurn'
  <2> SUFFICES ASSUME LinkInv, HeldInTurn, [Next]_vars PROVE HeldInTurn'
    OBVIOUS
  <2>1. CASE \E r \in Reqs : Step(r)
    BY <2>1, HeldInTurnStep
  <2>2. CASE ~\E r \in Reqs : Step(r)
    <3>1. UNCHANGED <<held, at, code>>
      BY <2>2 DEF Next, Quiet, vars, SessionLapses, CodeLapses, Lend, Expire, hands
    <3> QED
      BY <3>1 DEF HeldInTurn
  <2> QED
    BY <2>1, <2>2
<1> QED
  BY <1>1, <1>2, SpecInv, PTL DEF Spec

\* In a circle none waits for the log, then none for the link's row, a session,
\* a code or the sends: each of those is held only by one that waits for another.
LEMMA TurnsGive ==
  ASSUME LinkInv, CodesHeld, OneSends, HeldInTurn
  PROVE  OnlyLapsedSessionsClash
<1> SUFFICES ASSUME NEW S \in SUBSET Reqs, S # {}, Circle(S), \A r \in S : at[r] # "clear"
             PROVE  FALSE
  BY DEF OnlyLapsedSessionsClash
<1>1. ASSUME NEW r \in S PROVE r \in Reqs /\ r # None /\ \E q \in S, l \in Wants(r) : held[l] = q /\ q # r
  <2>1. WaitsFor(r) # {} /\ WaitsFor(r) \subseteq S /\ r \in Reqs /\ r # None
    BY LinksAssumption DEF Circle
  <2>2. PICK q \in WaitsFor(r) : TRUE
    BY <2>1
  <2>3. q \in S /\ q # r /\ \E l \in Wants(r) : held[l] = q
    BY <2>1, <2>2 DEF WaitsFor
  <2> QED
    BY <2>1, <2>3
<1>2. ASSUME NEW r \in S PROVE at[r] \notin {"lockLine", "view", "revokeLine", "sendLine"}
  <2>1. SUFFICES ASSUME at[r] \in {"lockLine", "view", "revokeLine", "sendLine"} PROVE FALSE
    OBVIOUS
  <2>2. Wants(r) = {Log}
    BY <2>1 DEF Wants
  <2>3. PICK q \in S : held[Log] = q
    BY <1>1, <2>2
  <2>4. at[q] = "mail"
    BY <1>1, <2>3 DEF HeldInTurn
  <2>5. Wants(q) = {}
    BY <2>4 DEF Wants
  <2> QED
    BY <1>1, <2>5
<1>3. ASSUME NEW r \in S PROVE at[r] \notin {"check", "endSessions", "count", "finish", "gives", "try", "device", "mail"}
  <2>1. SUFFICES ASSUME at[r] \in {"check", "endSessions", "count", "finish", "gives", "try", "device", "mail"}
                 PROVE  FALSE
    OBVIOUS
  <2>2. Wants(r) = {} \/ Wants(r) = {SessionRow(s) : s \in ToEnd}
    BY <2>1 DEF Wants
  <2>3. \A l \in Wants(r) : held[l] = None
    BY <2>2 DEF ToEnd, Free
  <2> QED
    BY <1>1, <2>3
<1>4. ASSUME NEW r \in S PROVE at[r] \notin {"tryRow", "bindRow", "countRow", "downRow", "revokeRow"}
  <2>1. SUFFICES ASSUME at[r] \in {"tryRow", "bindRow", "countRow", "downRow", "revokeRow"} PROVE FALSE
    OBVIOUS
  <2>2. Wants(r) = {LinkRow}
    BY <2>1 DEF Wants
  <2>3. PICK q \in S : held[LinkRow] = q /\ q # r
    BY <1>1, <2>2
  <2>4. at[q] \in MayHold /\ q \in Reqs
    BY <1>1, <2>3 DEF LinkInv, Local
  <2>5. at[q] = "countRow"
    BY <1>2, <1>3, <2>3, <2>4 DEF MayHold, Holding
  <2>6. Wants(q) = {LinkRow}
    BY <2>5 DEF Wants
  <2> QED
    BY <1>1, <2>3, <2>6
<1>5. ASSUME NEW r \in S PROVE at[r] \notin {"dropSession", "dropLink", "touch"}
  <2>1. SUFFICES ASSUME at[r] \in {"dropSession", "dropLink", "touch"} PROVE FALSE
    OBVIOUS
  <2>2. Wants(r) = {SessionRow(req[r].names)} /\ req[r].names \in Reqs
    BY <1>1, <2>1 DEF Wants, LinkInv, Local, Fetching
  <2>3. PICK q \in S : held[SessionRow(req[r].names)] = q
    BY <1>1, <2>2
  <2>4. at[q] \in InSession \union {"lockLine", "clear", "view", "revokeLine"}
    BY <1>1, <2>2, <2>3 DEF HeldInTurn
  <2> QED
    BY <1>2, <1>3, <1>4, <2>3, <2>4 DEF InSession
<1>6. ASSUME NEW c \in Reqs, NEW q \in S, held[CodeRow(c)] = q PROVE at[q] = "endCodes"
  <2>1. code[q] = c \/ at[q] \in Sending
    BY <1>1, <1>6 DEF CodesHeld
  <2>2. CASE at[q] \in Sending
    BY <1>2, <1>3, <2>2 DEF Sending
  <2>3. CASE code[q] = c
    <3>1. at[q] \in Trying \union {"codeRow"}
      BY <1>1, <2>3 DEF CodesHeld
    <3>2. at[q] = "codeRow"
      BY <1>2, <1>3, <1>4, <3>1 DEF Trying, Counting
    <3>3. Wants(q) = {CodeRow(c)}
      BY <2>3, <3>2 DEF Wants
    <3> QED
      BY <1>1, <1>6, <3>3
  <2> QED
    BY <2>1, <2>2, <2>3
<1>7. ASSUME NEW r \in S PROVE at[r] # "endCodes"
  <2>1. SUFFICES ASSUME at[r] = "endCodes" PROVE FALSE
    OBVIOUS
  <2>2. Wants(r) = {CodeRow(c) : c \in todo[r]} /\ todo[r] \subseteq Reqs
    BY <1>1, <2>1 DEF Wants, LinkInv, TypeOK
  <2>3. PICK c \in Reqs, q \in S : held[CodeRow(c)] = q /\ q # r
    BY <1>1, <2>2
  <2>4. at[q] = "endCodes"
    BY <1>6, <2>3
  <2>5. held[SendLock] = q /\ held[SendLock] = r
    BY <1>1, <2>1, <2>4 DEF OneSends, Sending
  <2> QED
    BY <2>3, <2>5
<1>8. ASSUME NEW r \in S PROVE at[r] # "codeRow"
  <2>1. SUFFICES ASSUME at[r] = "codeRow" PROVE FALSE
    OBVIOUS
  <2>2. Wants(r) = {CodeRow(code[r])}
    BY <2>1 DEF Wants
  <2>3. PICK q \in S : held[CodeRow(code[r])] = q /\ q # r
    BY <1>1, <2>2
  <2>4. code[r] \in Reqs
    BY <1>1, <2>1 DEF HeldInTurn
  <2> QED
    BY <1>6, <1>7, <2>3, <2>4
<1>9. ASSUME NEW r \in S PROVE at[r] # "send"
  <2>1. SUFFICES ASSUME at[r] = "send" PROVE FALSE
    OBVIOUS
  <2>2. Wants(r) = {SendLock}
    BY <2>1 DEF Wants
  <2>3. PICK q \in S : held[SendLock] = q
    BY <1>1, <2>2
  <2>4. at[q] \in Sending
    BY <1>1, <2>3 DEF HeldInTurn
  <2> QED
    BY <1>2, <1>3, <1>7, <2>4 DEF Sending
<1>10. PICK r \in S : TRUE
  OBVIOUS
<1>11. Wants(r) = {}
  BY <1>2, <1>3, <1>4, <1>5, <1>7, <1>8, <1>9, <1>10 DEF Wants
<1> QED
  BY <1>1, <1>11

\* The rows are taken in an order that leaves one way to wait in a circle: an
\* Open clearing lapsed sessions while one of them is in use (unlock,
\* share-sessions.ts).
THEOREM OnlyLapsedClash == Spec => []OnlyLapsedSessionsClash
<1>1. LinkInv /\ OpensSound /\ HeldInTurn => OnlyLapsedSessionsClash
  BY TurnsGive DEF OpensSound
<1> QED
  BY <1>1, SpecInv, OpensSoundHolds, TurnsHold, PTL
=============================================================================
