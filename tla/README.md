# Family Documents Vault: the specification

TLA+ models of the vault's own logic, the TLC runs that check them on small
instances, and theorems about them that TLAPS checks for every value of the
constants. Every definition is translated from the source; PROJECT.json maps
each one to the lines it stands for, lists the hazards the properties are for,
and names for each property a fault in the code that would break it.

## The system

A household keeps its documents in a vault: an API (`apps/api`), a worker
(`apps/worker`) that takes jobs off a queue in the same PostgreSQL database, a
web app (`apps/web`) and apps that share a client (`packages/client`), and
packages for the database, cryptography, storage and shared rules. All state is
in PostgreSQL and in object storage. There are several API processes and a
worker, so nothing is ordered but by what the database orders: row locks,
advisory locks, unique indexes, triggers, and statements that change a row only
if it still says what was read.

### Inventory

For each part: what it keeps; what is done to it; what makes that hard; what
makes it correct.

**Sessions and refresh tokens** (`auth/service.ts`, `tokens.ts`). A session
row: the hash of the current refresh token, of the one before it, the tokens a
grace displaced, expiry, why it ended. Sign in, refresh, sign out; ended also by
a lock, a removed sign-in, a password, a guest's date. An answer can be lost, so
the token just replaced is good once more for half a minute; a thief may have
it. A refused token is looked up in a second transaction. Correct when a session
has one line of descent, a spent token that is refused ends the session before
the refusal leaves, and an ended session stays ended.

**The clients' stored session** (`packages/client/src/session.ts`,
`apps/web/src/session.ts`). Each tab's memory, and a store and a lock they
share. Renew, sign in, sign out, load anew, in any tab, with answers lost or late
and tries turned away for being too many. Correct when the browser's owner is
taken for a thief only where the vault cannot tell, and never loses the session
while every answer arrives.

**Owners, locks, sign-ins taken away** (`household/co-owners.ts`, `locks.ts`,
migrations 0015, 0022, 0023, 0051, 0059). Membership rows, suspensions, requests
to demote an owner. Owners act on each other at once; a demotion waits a week
and can be refused, withdrawn, carried out or lapse; a role is read when a
request begins and used later. Correct when an owner who can sign in always
remains, no owner is demoted without notice, a request ends once, and a lock is
not shed on the way.

**Passwords, resets, passkeys, two-step sign-in** (`auth/passwords.ts`,
`passkeys.ts`, `totp.ts`, `step-up.ts`, `household/owner-resets.ts`). A proof is
checked, then a session opened in another transaction; in between the password
may change. Links are issued, mailed, spent. Correct when a proof that no longer
holds opens nothing and a link is spent once.

**Documents, versions, uploads** (`documents/service.ts`, worker `uploads.ts`).
Documents, their versions, the objects in storage, and claims: the idempotency
key of an upload under way. A file is streamed to a temporary object outside any
transaction, then moved and committed; a try can be killed, given up on by the
sender, or taken for dead by the next. Correct when one file in is one version
out, a version's object exists, and what is in storage is named by something.

**Removing for good** (`documents/purge.ts`, worker `purge-leftovers.ts`,
`removed-files.ts`). A day's notice, then rows go and objects follow, while an
upload or a drawing may be writing more of them. Correct when nothing is removed
before the notice ran, no object is forgotten, and a restored backup brings no
document back without saying that its file is gone, where it could be looked for.

**Visibility and sealing** (`documents/visibility.ts`, `only-me-rule.ts`,
`sealed-*.ts`, worker `seal.ts`). Which key a document is wrapped under, who
sees it. A change races uploads, links and jobs.

**Share links and their sessions** (`documents/shares.ts`, `share-sessions.ts`,
worker `share-pages.ts`). Opens, tries, downloads left, codes, devices bound,
pages drawn. Limits are counted by many at once; ending a link meets sessions in
use.

**Batches** (`uploads/batches.ts`, worker `batches.ts`) and the **scanner folder**
(worker `watch-folder.ts`, `intake-ingest.ts`). Items, each a row and an object,
that come in from several sides, are read, filed, taken back within minutes, or
refused; each source may deliver twice or stop half-way, and each step writes
storage and the database one after the other. Correct when a file is in once, a
batch keeps to its size, a scan leaves its folder only once it is in, a file is
waiting or filed and never both, Undo takes back nobody's change, and no object
is left that nothing names.

**Upload requests** (`uploads/requests.ts`, `incoming.ts`), **email in**
(`mail-in`): further ways in, with the same two halves.

**Reminders and digests** (worker `reminders.ts`), **notifications** (alerts,
mail, push): at least once or at most once, by what is written before what is
sent.

**Invitations, guests, access restrictions** (`household/`): who comes in, for
how long, and what they are kept from. A link and a code, tried by many; the
person's limits, details and other links change while one is accepted. Correct
when a link lets one person in once and as it says, never somebody who had a
sign-in before, and what an owner decided is not undone by an adult.

**Activity log** (`packages/db/src/audit.ts`): a hash chain per household, with
one writer at a time.

**Backup, restore, master key** (worker `backup.ts`, `restore.ts`,
`packages/crypto/src/master-rotation.ts`): an older state comes back while
something may run; a rotation may stop part-way.

**The rest**: queries, screens, cryptography taken as ideal, readers of files
(OCR, previews, the model), commands and deployment. PROJECT.json
"components" lists every part, what is modelled of it and why the rest is not.

### How the parts interact

The API and the worker share the tables and the job queue; they call each other
in no other way. A call in the API is *authenticate*, which reads the session,
the membership and the role, and then one transaction (`withPrincipal`), or
several with work outside them in between (an upload's stream, a password hash,
a mail). The models cut a call exactly there, and where a transaction takes a
lock others wait for, again at its commit.

## The modules

| Module | Models | Composes / proofs |
|---|---|---|
| `RefreshFamily` | one session and its refresh tokens | `SessionClients_proofs` |
| `SessionClients` | tabs sharing a stored session, over the vault's side | extends `RefreshFamily` and implements it; `MCSessionClients` (symmetry), `SessionClients_proofs` |
| `Ownership` | roles, owner change requests, locks, removed sign-ins, restore | `MCOwnership` (symmetry), `Household_proofs` |
| `UploadClaims` | a file sent under an Idempotency-Key, its claim, its objects, the nightly sweep | `UploadClaims_proofs` |
| `SignIn` | what is promised of one person's way in, each step at once | abstract |
| `Credentials` | password, passkeys, reset links, locks and sessions of one person | implements `SignIn`; `MCCredentials` (symmetry), `Credentials_proofs` |
| `ShareLinks` | a link to a document: opens, tries, codes, downloads, its end, statement by statement | `MCShareLinks` (symmetry, kinds of link), `ShareLinks_proofs` |
| `DocumentPurge` | removing a document for good, its notice, its files, a restored backup | `MCDocumentPurge` (what is drawn, the bounds), `DocumentPurge_proofs` |
| `Arrivals` | files on their way into a batch, from a browser and a scanner folder | `MCArrivals` (symmetry), `Arrivals_proofs` |
| `Acceptance` | a waiting file filed, taken back, refused | goes on where `Arrivals` ends; `MCAcceptance` (symmetry), `Acceptance_proofs` |
| `Invitations` | one person invited by links and codes: made, replaced, taken back, accepted | `MCInvitations` (symmetry, view), `Household_proofs` |

### RefreshFamily

*Code*: `AuthService.refresh`, `endSpent`, `graceAllows`, `revokeSession`.
*State*: `session` is the row (current and previous token, `grace` =
`grace_hashes`, `graceUsed`, `rotatedAt`, `expiresAt`, the client it was last
used from, why it ended); `membership`; `spent`, the refusals between the two
transactions. `spends` and `refused` are history. A token is the number of its
making, so a refresh makes `issued + 1`.
*Actions*: `Rotate`, `Replay`, `NotAccepted` are the first transaction, under
the session's row lock; `EndSpent` the second; `Crash` the API process dying
between them; the rest is what else ends a session. Anybody presents any token
at any time: a client that lost an answer, a thief, a forger.
*A faithful detail*: the list of remembered tokens is cut to
`GraceHashesKept`, oldest first. A new session's first end is not held against its
absolute one (`Init`); a rotation's is (`SlidTo`).

### SessionClients

*Code*: `SessionCore` (`hydrate`, `renew`, `refreshOnce`, `accept`, `clear`),
`localStorageStore` and `tabLock`. *State*: `store`, `mem` (each tab's
`stored`), `renewal` (where its renewal is), `lock`, and `notBefore`, the store's
`retry_not_before`. A renewal is `Begin` (what it believes), `Load` (the store
again, under the lock), `Serve`/`ServeSpent` (the vault), `Answer` or a loss. A
request given up on stays in `late` and may be served after all. `TooMany` is a
429: the token was not spent, how long to wait goes into the store for every tab
(`ToldToWait`), and whoever asked waits a short one out outside the lock
(`WaitedOut`), twice at most; a call that does not wait (`wait: false`, `'join'`)
is the choice not to. `Reload` is a tab loaded anew or an app started again, at any
point of a renewal: it knows the store, and whatever was under way is lost to it.
`inARow` and `overtaken` are history.
*Abstraction*: `Tick` is `RefreshFamily`'s; the device's clock is the vault's. A
wait may be over before `until` only by a sign-in or a sign-out in that tab, as in
the code; after it a tab asks even when another has been told to wait since. The
cached access token only says when a renewal begins, which here is at any time. A
token of another sign-in (`NewSignIn`) is kept but not followed: it is another
family's.

### Ownership

*Code*: `CoOwnerService`, `LockService`, the triggers that keep the owner floor
and suspensions, and what a restore does to both. *State*: `person`, the
membership row or what `member.former_*` keeps of it; `changes`, the rows of
`owner_change_request`; `tx`, the requests under way; `backup`. A request is
`Authenticate` (role read), one action per call (its statements: row locks
taken, committed state read, own writes kept in `tx`), then `Commit`, where the
deferred owner floor is judged, or `Abandon`. `RowFree`/`ChangeFree` are the row
locks a statement would wait for.
*Abstraction*: the several statements of a call are one action reading one
committed state: the code holds the person's membership row first
(`membership`, `hold`, FOR NO KEY UPDATE) and reads the rest after it. What a
statement reads of other rows (`OtherOwner`) is read without a lock, as there,
and may be stale at commit. Two calls lock only a request's row (refuse,
withdraw); `settle` asks again under that lock whether the request is open,
which taking the state in that same action says.

### UploadClaims

*Code*: `accept`, `claim`, `commitFiling`, `release`, `moveObject` in
`documents/service.ts`, `pruneUploads` in the worker, and
`VisibilityService.change` as far as it wraps versions anew. *State*: `claim`,
the key's row; `try`, where each sending of the file has got to; `lock`, whose
transaction holds `lockKey` (and, from there on, the document's row); `sent`,
whether its COMMIT is on its way, so that the answer may be lost and the commit
happen after its process died; `objects`, storage; `wrapped`, the versions and
whose key each is wrapped with; `sweep`, between its read, its delete on storage
and its delete of the row. `forgotten` is history: from then on the key does not
remember the file.
*Actions*: `ClaimKey`/`ReplayKey`, `DropLeftover`, `Stream`, `Check`, `Place`,
`SendCommit`, `DatabaseEnds`, `Learn` are a try that goes well; `PlaceFails`,
`CleanUp`, `Release`, `ReleaseFails`, `Crash` one that does not. `Fault` bounds
how often storage, a connection or a process fails, anywhere.
*Abstraction*: the bytes, names, quotas and the document's own columns are left
out; the age of a claim is one of four, as the three limits part it. A captured
document and its version are one thing, as they are made in one transaction.

### Credentials and SignIn

*Code*: `openSessionForAccount`, `stillSignedIn`, `signInWithPassword`,
`PasswordsService` (`change`, `forgot`, `issue`, `reset`), `PasskeysService`,
`LocksService` (`lock`, `unlock`, `signOutEverywhere`), `OwnerResetsService.start`
and the triggers of migration 0052. *State*: `secret` and `passkeys`, numbered in
the order they are made, so that "added since a link was spent" (`created_at`
against `handover_spent_at`) is a comparison of numbers; `links`, `sessions`,
`suspended`, `private`; `calls`, the requests under way. `chose` says whose a
credential is; `resets`, `before` and `own` are history.
*Actions*: what a request does in a transaction of its own is an action:
`ProvePassword`/`ProvePasskey`, then `HoldToOpen` (the membership FOR SHARE, what
was proved asked again), then `OpenSession` (commit); the same for adding a
passkey or something private. `Change`, `Reset`, `Lock`, `Unlock` and
`StartReset` hold the membership FOR NO KEY UPDATE from their first statement to
their commit, so each is one action, taken when nobody holds it FOR SHARE.
`Forgot`, `RetireLinks`, `MakeLink` hold nothing, and are three.
*Two people*: a link an owner hands over may be spent by anybody; whoever is not
the person is the `intruder`. The person may learn any password chosen for them.
*Abstraction*: one household; a step-up is always fresh; an hour's end of a link
is the same as its being used; ending sessions one at a time (`revokeSession`)
and all at once (`signOutEverywhere`) is `EndSessions`, which waits for nobody.
An owner's reset on the operator's path changes nothing and is left out. What is
private is the set of sessions it was made from: the code's yes or no, and, for
the property, when it was made.

`SignIn` is the promise: each of these in one step, with no requests under way.
`Credentials` implements it with `sessions` mapped to what each live session
rests on (`Rests`).

### ShareLinks

*Code*: `documents/shares.ts` (`unlock`, `tryFactors`, `countOpen`, `sendCode`,
`inSession`, `sessionContent`, `revoke`), `share-sessions.ts` (`endSessions`), the
trigger `share_link_factors_fixed` and the database's `app_live_share`.
*State*: one link to a document: `link`, its row as committed, and `draft`, the
row as whoever holds it has written it; `codes`, `sessions`, the device cookie in
each browser's `jar`; `held`, who holds each row and advisory lock; `at`, the
statement each request is about to make; `log`, in the order it was written.
*Actions*: one per statement that waits or writes. Under READ COMMITTED a
statement decides by what was committed when it began, then waits for the row,
then asks the row again only what its `where` names; so asking (`AskTry`,
`AskBind`, `AskCount`) and writing (`Reserve`, `Bind`, `CountOpen`) are two
actions, and what each asks again is its own condition. A savepoint rolled back
lets go of the row (`Right`). What is not committed is seen by nobody: codes used,
sessions removed and the log's line appear as the transaction is answered. The
household's log is the last lock taken by all but `sendCode`, so writing the line
and committing are one action there, and two in `sendCode` (`SendLine`, `Mail`).
`Fail` is PostgreSQL ending one of those that wait for each other in a circle.
*Abstraction*: a code is the request that sent it, a session the Open that made
it, a device the Open that bound it. `lent` is everything the link's maker and
document must still be (`live()` asks it of many rows; none of them is the
link's). A session lapses, a code runs out and the link expires at any moment.
The windows of an hour and a day on codes sent are one window. Permission to view
only, notes and wordings are left out: nothing is counted for them.

### DocumentPurge

*Code*: `PurgeService` (`ask`, `lookAgain`, `remove`, `sweep`), `softDelete` and
`restore`, the worker's `removeLeftovers`, `processVersion` and its previews,
`markRemovedFiles` and `recheckRemovedFiles` after a database is restored. *State*: `db`, the rows (the
document, its versions, an upload's claim, `purge_leftover`); `call`, each
owner's request; `sweep`, the API's after a removal and the worker's nightly one;
`upload` and `drawing`, a version and the pages of one on their way; `objects`;
`backup`. `told`, `overlooked` and `astray` are history.
*Actions*: asking and removing are transactions, each one action; a sweep reads
(`SweepRead`), deletes object by object (`SweepDelete`) and forgets the rows
(`SweepForget`), and may stop between any two. A drawing writes its object
first and asks after it whether the version is still there (`FinishDrawing`).
*Abstraction*: one document. An owner's call decides in one transaction all that
it decides, so one owner meets every order two would, but for whose notice is
used by whom, which the proofs cover for any number. While a backup is restored
the vault is stopped (README.md, Restore), so no call is under way then.
A restore looks for the file of every version that is kept on some adapter or
folder. It may not reach the place, or not be able to ask after one file, or find
none of the vault's files there (`LooksEmpty`), which says more of the place than of
the files; those versions stay `Unchecked`, unmarked, and the restore's summary says
so. Only what is `ClearlyGone` is marked. The place of one version here stands for
the folder or adapter it is on: any set of versions may be out of reach. `overlooked`
keeps the versions that came back without a file and unchecked; putting the file
back (`PutBack`) ends that, `RecheckFiles` does not. Moving a vault is left out.

### Arrivals

*Code*: `BatchesService.addItem`, `removeItem`, `remove`; the scanner folder's
`takeOpen`, `placeItem`, `storeItem`, `arriveItem`, `discardItem`,
`clearStaleItem`; the trigger `incoming_file_leaves_bytes`; the worker's
`sweepBatches`. *State*: `at`, how far each try has got; `row`, its item; `batch`;
`objects` and `owed`, storage and `purge_leftover`; `folder`, whether the scan is
still there; `pending`, arrivals whose COMMIT was sent and not answered.
*Actions*: a row that holds a place (`Place`, `PlaceScan`), the bytes (`Put`), the
row said to have arrived (`Arrive`, then `DatabaseEnds`), and what each failure
undoes (`Discard`, `Unplace`, `ClearStale`, `LetGo`). A process stops anywhere
(`Stop`); an upload grows old (`Age`); the person decides, removes, or lets the
batch end.
*Abstraction*: one batch; the next day's is another. A scan moved to `processed/`
is out of the folder: it is deleted there after the days its owner chose. Sends
without an Idempotency-Key, which find no prior item, are left out, and so are
drawing and reading what has arrived. Deletes by the worker leave no leftover
row, as the trigger says: the worker removes the object itself. An upload that
outlived `UPLOAD_FRESH_MS` no longer counts against the limit, so `PlacesKept`
leaves it out of its count.

### Acceptance

*Code*: `BatchesService.accept`, `acceptReady`, `file`, `fileAsVersion`, `undo`,
`undoOne`, `versionBack`, `removeItem`, `removeObjects`, `dropCopy`,
`dropUndoCopy`, `remove`; the database's rules for them (migrations 0062, 0064,
0067); the worker's `removeDecided` and `keepFiled`. It goes on where `Arrivals`
ends: one file waiting. *State*: `item`, its row; `doc` and `version`, what it was
filed as and what became of that; `details`, the number and dates of a document
that was there before; `leftovers`, `objects`; `call` and `undo`, the calls under
way. `doc[d].since` is what the transaction of an Undo reads of the versions, the
log and everything that names the document: nothing, its uploader's own changes,
or more. `astray` and `mistaken` are history.
*Actions*: a filing copies the bytes inside its transaction, with the item's row
held, so `Accept` is one action, and `AcceptFails` what is left when it rolls
back; `DropCopy` is the question asked after it. Undo copies first, holding
nothing (`UndoCopy`), then decides in one transaction (`UndoCommit`, `UndoKept`,
`UndoFails`, `DropUndoCopy`). After a decision the object is deleted
(`RemoveObject`) and then the row said so (`MarkEmptied`).
*Abstraction*: one item and one document that was there. A filing as a version
always changes the details. Editing keeps a new document its uploader's to take
back; a version is kept once anybody, its uploader too, has changed the document.
The worker looks at decided files ten minutes after, and the time to undo is
five, so `SweepItem` waits until the window is not open. The sweep of leftovers
here deletes at once; how it fails is `DocumentPurge`'s. An Undo and a removal
take the item and the document in opposite order, so PostgreSQL may abort one;
nothing is done then, and the call says so: it is a call not made.

### Invitations

*Code*: `InvitationService.create`, `revoke`, `accept` and what they call; the
taking back of invitations by a lock (`LockService.lock`) and by a passing
(`HouseholdService.update`); `RestrictionService.restrict` and `remove`,
`GuestService.remove`, the beginning of `CoOwnerService.removeSignIn`; migrations
0014, 0054, 0056. *State*: `invitee`, the member and their sign-in, if any;
`limits`, their restriction; `link`, the invitations; `making` and `call`, the
calls under way. `making[a].there` is history: what was live when an inviter
began.
*Actions*: everything about one person holds them, in one of three strengths,
and that is what the guards `Unheld` (a `FOR UPDATE`, which waits for any other)
and `~SomeHold` (which waits for a `FOR UPDATE` only) say. Inviting is cut in
two, because it reads the other links and the limits, which it does not hold,
before it writes (`CreateBegin`, `CreateWrite`, `CreateFails`). Accepting is cut
in four: the link is looked up, a try of the code is reserved and given back,
the person is held and the link read again, the sign-in is written (`Look`,
`Reserve`, `Hold`, `Accept`). `Revoke` and `Lock` take a link back and hold no
person, so `link.revoked` is `"loose"` with them and `"held"` otherwise.
*Abstraction*: one person; a code is right or wrong by choice; what a viewer is
limited to is "limited" or "adults_only", as nothing else about it decides
anything here; an age is the set of roles it allows (`RolesByAge`: none, a teen's,
any other, or any where it is not known), and changes by a corrected date of birth,
not day by day (the code judges the role on the day of the invitation, so that a
teen's is still good at 18); an owner's role is given as an adult's is; a link's end by the
clock is noticed only while it is open. `after` says whether an invitation is
younger than the limits, which the code asks of two timestamps.

## The runs

- `refresh`: two clients and four tokens, the first from before families. Four
  are enough for a rotation, a replay, the token that the replay displaced, and
  one more rotation after all three; time runs to 4 with a grace of 1, a sliding
  end of 2 and an absolute end of 3, so each of the three limits is met before
  and after the others. `GraceHashesKept` is 2, so that the list overflows. One
  refusal at most is between its two transactions; each is independent of the
  others. An app's session, whose grace compares installations, is in the
  proofs.
- `clients_tabs`: two tabs with a shared lock, three tokens, two losses, time to 2
  with a grace of 1: two losses in a row end the session, and so does one with the
  grace gone by, each alone and both together. Waits of one tick are waited out,
  longer ones not. `ClientsInv` says that the lock is one tab's, that nobody is
  taken for a thief otherwise (`NoFalseAlarm`), and that the store never falls
  behind the session. The two tabs are alike, and exchanging them is sound.
- `ownership`: two owners, two calls at once, a notice and a lapse, locks,
  removed sign-ins and a restore. Two calls are the least that race; every
  request can open, run its notice and lapse.

A tab compares its own memory, not the store the tabs share, before it saves a
renewal's answer, so that answer can be written over another tab's sign-out,
though a comment in `session.ts` says it is thrown away. The vault has ended the
session by then, if it was told; each tab's own sign-out does stand, until that tab
is loaded anew and reads what the store holds (`OwnSignOutStands`).

- `uploads`: a new version, two tries under one key, two faults and one change
  of visibility. Two tries are the least that race; two faults are a lost answer
  of a commit and a process that dies, the pair every guard in `release` is
  about. `UploadsInv` holds, among the rest, that a version's object is there
  and that it is wrapped for whoever its document is for. Under fairness: `WF` of
  `Tick` (time passes), of `DatabaseEnds` (a statement sent to the database
  ends) and of `Sweep` (pg-boss runs the job nightly). No fairness is given to a
  try: a browser may never send again, and a process may hang. `MaxFaults` bounds
  how often storage fails the sweep, which is the code's own assumption: a
  storage that never answers keeps its claim.

- `credentials`: two requests, two sessions, a link, four credentials, no mail
  server. Two requests are the least that race; two sessions let a change keep
  one and end another; four credentials are the first password, the one a handed
  link sets, a passkey added with it, and the person's own. With a mail server
  nothing is handed over, which is the lesser case; the proofs cover both.
  `issue` retires and inserts in two statements that hold nothing, so two requests
  at once leave two live links, though a comment there says that nobody holds
  two; the model has it so, and the theorems hold for any number of links.

- `share_once`: four requests of three kinds of link (a PIN and one device; an
  emailed code; nothing), two browsers, two tries, two opens, two codes sent, a
  code tried once. Two opens and a limit of two want a third to be refused; a
  code needs one request to send it and two to spend it; a download takes two.
  A fifth request brings no new pair. Requests are interchangeable, and browsers
  are, so the run uses symmetry; no property names one.
- A code that waits for the log behind the Open that uses the link up is mailed to
  the address that Open cleared: `stillLive` sees a link taken back, locked or not
  lent, and a link used up is none of these. No property says otherwise;
  `NothingAfterTheEnd`, a part of `OpensSound`, is about links revoked and locked.
- `OnlyLapsedSessionsClash` is weaker than no deadlock at all. `endSessions`
  passes over rows in use because waiting was a deadlock; an Open that clears
  lapsed sessions does wait for them, holding the link's row, and a download in a
  session that lapses as it is used waits for that row. PostgreSQL ends one of
  the two. The property says that every circle has such an Open in it.

- `document_purge`: one owner and an upload, and one of two bounds (`Bounds`): two
  drawings (a page of the version that is there, the thumbnail of the one that
  comes) and one failure anywhere; or one failure and one restore, without drawings.
  `NothingForgotten`; `LeftoversGo`, under `WF` of the worker's sweep, which pg-boss
  runs nightly; the notice of a day (`NoticeKept`); and `PurgeInv`, in it that no
  document comes back with a file that is gone and does not say so, unless its
  restore could not look for it (`overlooked`). One failure is enough to leave an
  object behind at each step; a second one repeats the first. A backup no restore
  is left for is not kept, which only spares states.

`NothingForgotten` leaves out the objects of a writer that stopped or that storage
refused (`astray`). Migration 0045 says a crash leaves rows to finish, "never files
that nothing names"; that is so of the removal, and not of a worker that stops
between writing a page and asking whether its document is still there.

- `arrivals`: two sends and two rounds, two files of the browser, one place, one
  failure. Two tries of each side are the least that race for a place, for a
  key, or for the scan; with one place every pair meets at the limit; the one
  failure may be storage, a lost answer or a process that stops, at any step.
  Tries and files are interchangeable, and only invariants are checked, so
  symmetry is sound. `ScanKeptIfSure` leaves out an arrival, or a clearing, whose
  answer was lost.
- `arrivals_lost` (violation): that answer. `arriveItem` takes any error for "not
  arrived", `discardItem` deletes the bytes, and the next round finds the row
  that did arrive and takes the scan out of the folder. Nothing of it is left.

- `acceptance`: two filings, an Undo and a refusal, two failures, one edit. Filed,
  taken back and filed again is the shortest history in which a late step of the
  first filing meets the second; two failures are a filing or an Undo whose answer
  was lost and a deletion that failed after it; one edit after a filing is what
  Undo must not take with it. The two filings are interchangeable, and only
  invariants are checked, so symmetry is sound.

`NothingForgotten` exempts two kinds of object, each by name. `astray` holds what a
failure left. `mistaken` holds what no failure left: `removeObjects`
(`batches.ts`) deletes by the name its call read and then marks the item emptied by
id alone, so a call that was slow between the two, with an Undo and a second
decision in between, says of the item's new object what was true of its old one.
The comments there say "The sweep makes it good"; the sweep passes over an item that
is marked emptied, so that object stays, with nothing to name it. `mistaken` gains
a member in that step and in no other.

- `invitations`: an owner, an adult, three links and two calls that accept. Three
  links are two made across each other and what replaces either; two calls are two people with the same link, or one that tries the code while the
  other is let in. One wrong try is allowed: two sent at once are then the case
  that counts, as six are with five. States that differ only in what nothing asks any more
  are taken for one (`VIEW Asked`): all of a closed link but that it was made and
  whether it was accepted, unless somebody is held by it or signed in by it; the age
  of somebody who has signed in; and what was live when an owner began. No guard and
  no property tells such states apart.
- `invitations_swapped` (violation): the same people and one call; two callers
  making a link at once are enough.

Two things the code does are not what its comments say, and the properties say
exactly how far they go. `accept` reads the link again "inside the
writing transaction", since "between the check and here, somebody may have revoked
it"; the password is hashed after that read, and the link then written by its id
alone, so whoever takes it back in that time is answered that they did and the
person comes in all the same (`TakenBackStaysOut`: in no other case). And `create`
looks for somebody else's live invitation before it takes back whatever is open, so
that no adult can "quietly swap an owner's invitation for one of their own"; an
owner's made between those two statements is swapped, which `invitations_swapped` shows, as a
finding (`OnlyTheirOwnReplaced` is violated; `OwnersChoiceStands`: only one made
while the adult's was on its way). The adult's link then brings in a limited viewer,
or a teen, whom nobody limits and whom an adult may invite.

Only `uploads` and `document_purge` assume fairness; all else is safety. Every run
that passes explores its whole state space. Deadlock is checked except where a
cfg says the bounds stop the system.

## What is proved

For every value of the constants allowed by the named assumptions:

- `SessionClients_proofs`: `FamilyInvariant` (`Spec => []FamilyInv`). That a token
  buys at most a rotation and a replay is not inductive alone; it needs that the
  current token is the last made and unspent, and that the previous one, until
  the grace is used, was spent once, when and by whom the row says
  (`CurrentIsLast`, `CurrentUnspent`, `PreviousSpentOnce`). From it
  `OneLineOfDescentHolds` and `DisplacedStaysDeadHolds`. `RefusedMeansEndedHolds`
  needs only that a family token names its session, `EndedOnceForCauseHolds` that
  what waits for its second transaction was made and replaced since.
  `ClientsImplementFamily` (`ClientsSpec => Spec`) shows that each step of a tab, a
  late answer or the vault is a step of the family or a stutter, so that what is
  promised of anybody holds of the app (`ClientsKeepFamily`); `OwnSignOutStandsHolds`
  needs no lock. `ClientsInvariant` does: `HasLock` is its hypothesis, as Web Locks
  exist only over https, and without them two tabs may well renew at once. With it
  one renewal is under way; the token it presents is the store's (`OneTokenHere`),
  and that is the current one, or the one before with its grace whole, by how many
  answers were lost in a row (`KeepsFit`). So whoever is refused has lost two, or one
  and the grace has gone by, or was overtaken by a request given up on
  (`NoFalseAlarm`), and while no answer is lost the current token is in the store or
  on its way there (`StoreKeepsUp`). Any number of tabs, tokens and waits.
- `Household_proofs`: `OwnershipInvariant`. The owner floor is judged at commit,
  so it needs the clock (a lock that ends only ever adds an owner), and that a
  suspension never stands on an owner. That a live request is about an owner
  needs what uncommitted transactions hold: two never hold one row
  (`HeldAlone`), and one that takes the owner role away also ends every live
  request about that person (`BuffersSound`). From it `OwnerRemainsHolds` and
  `LiveRequestAboutOwnerHolds`. The three action properties are judged at a commit,
  when the call that wrote the rows has nothing more to ask; they need what each
  transaction about to commit is there for, which others' commits leave so
  (`ReasonsKept`: a role goes with a step-down or a request whose notice ran, a lock
  with an unlock or a new lock, a settled request is not written again). From it
  `NoticeKeptHolds`, `SettledOnceHolds`, `LockSurvivesHolds`.
- `Household_proofs` also has `Invitations`: `InvitationsInvariant`, for any number of
  owners, adults, links and people who accept. That nobody comes in twice needs that
  whoever holds the person is alone and judged what is still so (`HeldToAccept`:
  alive, of an age for the link's role, never signed in),
  that a link on its way is its maker's and nobody's way in (`MakersHold`), and that
  a link still gives what its maker may give when it is accepted (`AsGiven`). Every
  step ages links one way only (`Aged`), which is what the lemmas of the steps share.
  `OwnersChoiceStandsHolds` and `TakenBackStaysOutHolds` follow step by step.
- `UploadClaims_proofs`: `UploadsInvariant`. That a version keeps its object
  needs who holds the lock on the key (`LockHeld`), that a commit under way has
  its object in place and is wrapped for the right people (`CommitSound`), and
  that the claim is the lock holder's or was swept (`KeyRemembers`). From it
  `VersionsHaveObjects`, `VersionsWrappedForReaders` and `FiledOnce`.
  `SweepForgetsNothingHolds` needs besides that a try the sweep found dead puts
  nothing back (`SweptSound`). The lemma
  `QuietTry` carries most steps: what neither takes nor gives back the lock, and
  takes nothing that is needed.

- `Credentials_proofs`: `CredentialsInvariant`. That no session outlives a reset
  needs what a request that holds the membership has proved (`HoldsSoundly`), and
  that needs whoever proved it to have known it (`Honest`). That the person's own
  password takes the way in back needs that nobody else does anything before a
  link is handed over (`HandedFirst`, `IntruderLate`). From it `ResetEndsAll`,
  `LockHolds`, `TakenBack`, `HandoverOpensNothing`, `SpentOnceHolds`. `ImplementsSignIn` shows that
  every step is one of `SignIn` or a stutter; `HoldsSoundly` is what makes opening
  a session one step: what was proved holds when it opens.

- `ShareLinks_proofs`: `LinkInv`, for any number of requests and any limits. That
  the counts on the row are what was answered is not inductive: between writing
  the row and committing, the draft is ahead of what is committed by exactly what
  its holder did (`Drafted`, by where the holder is), nobody else writes it, and a
  session a fetch is in is in nobody else's hands (`Local`), so that whether it had
  a download yet is still what the fetch read. `Refusal`, `Moving` and `Committing`
  say once what each kind of step preserves; each action's lemma cites one.
  From it `OpensCounted`, `TriesCounted`, `DownloadsCounted` and `AddressKept`.
- `OpensSoundHolds`, in the same module, goes through four more invariants, one for
  each of the four promises: whoever has the device cookie, is in a session or was
  let in comes from the browser that was bound, and nobody writes another over it
  (`Bound`); whoever tries a code holds its row, and the code is neither used up nor
  another's (`CodesHeld`); whoever sends is alone at it and, past its first
  statement, holds every code that still works (`OneSends`); the log says nothing of
  an end that the row does not, and no draft takes that back (`EndsLogged`). What a
  step may do to the rows, the log, the sessions and the codes at all is said once
  (`StepFrames` and the lemmas after it) and cited by all four.
- `OnlyLapsedClash`: in a circle without an Open that is clearing, nobody waits for
  the log, whose holders wait for nothing; so nobody waits for the link's row, whose
  other holders are at statements that do not wait or wait for the log; so nobody
  for a session, a code or the turn to send. It needs at which statements each lock
  is held, which `HeldInTurn` (`TurnsHold`) says where `LinkInv` does not.

- `DocumentPurge_proofs`: `PurgeInvariant`. That no document comes back without
  its file, but for the versions a restore could not look for, needs that a sweep runs only while the document is gone, that the rows
  fit each other in the backup as well as now, and that whatever a sweep deleted
  and is there again has a writer that will ask. From it `NeverHalf`,
  `NeverForgotten`; `NoticeIsKept` needs that the history of the notice is what
  the request's row says. Any number of owners, drawings, failures and restores.
- `Arrivals_proofs`: `ArrivalsInvariant`, from which `PlacesAreKept`, `InOnce`,
  `FolderLosesNothing` and `NothingIsLeft`. That a scan leaves its folder only for
  bytes that are there needs what each try knows of its own row and object
  (`TriesKnow`, `ArrivesWithBytes`), that a key finds one item (`KeysHeld`), and
  that whatever was once in is in still or was decided about (`ScanIsIn`). Any
  number of tries and places; the limit is counted with the finite-set theorems.
- `Acceptance_proofs`: `AcceptanceInvariant` and `DetailsKept` are inductive only
  together: what an Undo puts back was written down by the filing, so the details
  must stand when it is filed (`DetailsStand`), and what is put back must be what
  stood (`PriorKept`). That a late deletion never meets a waiting file needs that
  an Undo's object has a name no call has read yet (`NotYet`). From it
  `NothingIsForgotten`, one lemma a group of actions: whatever is left was left by a
  failure (`astray`) or by a refusal that was late (`mistaken`).

Each proof has one step per action, and PTL joins them.

## What stays with TLC, and what is not modelled

- Every safety invariant and action property that a passing run checks is a theorem.
  `DeadClaimEnds` and `LeftoversGo` are liveness under fairness, which is beyond the
  prover, and are checked by TLC alone, on the bounds of their runs.
- `ClientsInvariant` says nothing of a browser without a lock. The device's clock and
  the vault's are one there.
- Cryptography is ideal: a token or link is a number nobody guesses. Digests,
  wrapping and formats are not in the models.
- Row-level security is not modelled; the models give a call the rows the code
  gives it.
- What is logged, mailed, pushed or worded is left out, except where the order
  of sending and writing is the matter.
- "components" in PROJECT.json says for each part what is left out, and the
  hazards that no property covers yet name the module planned for them.

## Plan

In this order; each is a module, its runs, and theorems where its invariant is
inductive.

1. `RefreshFamily`, `SessionClients`, `Ownership`: done.
2. `UploadClaims`: claim, stream, commit, release, takeover, the nightly sweep: done.
3. `Credentials`: proofs re-checked when a session opens, passwords, resets, locks,
   shown to implement `SignIn`: done. Two-step sign-in is left for `TwoStep`.
4. `ShareLinks`: opens and tries counted by many, codes, ending a link: done for a
   document's link. Left: a collection's link, its page images, pausing, the older
   open-without-session flow and the nightly pruning of sessions and codes; an
   abstract link (so many opens, so many tries, over once ended) that `ShareLinks`
   implements.
5. `DocumentPurge`: the day's notice, the sweep, leftovers: done. Left: emptying
   the Trash as a list.
6. `Arrivals`, `Acceptance`: files into a batch and out of it: done. Left: the
   levels and proposals an Accept all Ready goes by, the reminders an accepted
   version resolves, the mailbox.
7. `Invitations`: done, one person at a time. Left: somebody new made with their
   first invitation, giving a guest's sign-in back.
   `AuditChain`, `UploadRequests`, `Reminders`, `MasterKey`, `Visibility`,
   `VersionJobs`.
8. Abstract specifications: a household's owners as a set that a notice guards,
   implemented by `Ownership`; a session as open or ended, by `RefreshFamily`.

The runs stay at about a dozen, so that all of them can be repeated on every
change: a new module brings one run, and the earlier runs of one module that ask
neighbouring questions are joined when it does.
