---------------------------- MODULE Invitations ----------------------------
(***************************************************************************)
(* Inviting somebody to sign in (apps/api/src/household/invitations.ts):   *)
(* an owner or an adult makes a link and a code; whoever has both chooses  *)
(* a password, and the person the link is for can sign in, as the link     *)
(* says and no wider.  Meanwhile links are replaced and taken back, the    *)
(* person's limits and details change, an adult is locked.                 *)
(*                                                                         *)
(* One person: everything here is decided person by person, under a hold   *)
(* of theirs (member, FOR UPDATE to accept, FOR KEY SHARE to invite).      *)
(* Transactions read what is committed, statement by statement, so one is  *)
(* split where it reads what it does not hold.                             *)
(***************************************************************************)
EXTENDS Naturals

CONSTANTS
  Owners, Adults,  \* who may invite, by account
  Links,           \* bound: the invitations ever made
  NoLink,
  Calls,           \* requests of whoever has a link
  MaxAttempts      \* wrong codes a link takes

ASSUME InvitationsAssumption ==
  /\ Owners \cap Adults = {}
  /\ NoLink \notin Links
  /\ MaxAttempts \in Nat \ {0}

VARIABLES
  invitee,  \* member and its account_household
  limits,  \* access_restriction: what the person is limited to, if anything
  link,    \* invitation
  making,  \* InvitationService.create, by who invites
  call,    \* InvitationService.accept
  locked   \* adults whose sign-in is locked

invitationsVars == <<invitee, limits, link, making, call, locked>>

Inviters == Owners \union Adults

\* An owner's role is given as an adult's is.
RolesGiven == {"adult", "teen", "viewer"}
Limits     == {"none", "limited", "adults_only"}
Kinds      == {"family", "guest"}

\* The roles an age allows: none under 13, a teen's until 18, any but a teen's
\* from then, and any where no date of birth is known.
RolesByAge == {{}, {"teen"}, RolesGiven \ {"teen"}, RolesGiven}

Invitees ==
  [kind : Kinds,
   here : BOOLEAN,
   dead : BOOLEAN,                     \* is_deceased
   suits : RolesByAge,                 \* date_of_birth, as roleSuitsAge reads it
   signedIn : Links \union {NoLink}]   \* account_household, by the link that made it

Unmade == [at |-> "none"]
Made ==
  [at : {"making", "made"},
   by : Inviters, role : RolesGiven,
   given : Limits,                     \* restriction; "none" is every family document
   after : BOOLEAN,                    \* created_at, while it is open, against the limits' updated_at
   attempts : 0..MaxAttempts,
   expired : BOOLEAN,
   accepted : BOOLEAN,
   revoked : {"no", "loose", "held"}]  \* revoked_at, and whether the person was held for it

NotMaking    == [link |-> NoLink, there |-> {}]
NotAccepting == [at |-> "idle", link |-> NoLink]

InvitationsInit ==
  /\ invitee \in [kind : Kinds, here : {TRUE}, dead : {FALSE}, suits : {RolesGiven}, signedIn : {NoLink}]
  /\ limits \in IF invitee.kind = "guest" THEN {"none"} ELSE {"none", "limited"}
  /\ link = [l \in Links |-> Unmade]
  /\ making = [a \in Inviters |-> NotMaking]
  /\ call = [c \in Calls |-> NotAccepting]
  /\ locked = {}

There(l)    == link[l].at = "made"
Open(l)     == There(l) /\ ~link[l].accepted /\ link[l].revoked = "no"
Used(l)     == There(l) /\ link[l].accepted
\* The one refusal all failures share; and what stands in another's way.
LiveLink(l) == Open(l) /\ ~link[l].expired /\ link[l].attempts < MaxAttempts

Held(c)  == call[c].at = "held"
SomeHold == \E c \in Calls : Held(c)
Shared   == \E a \in Inviters : making[a] # NotMaking

\* What a FOR UPDATE of the person waits for; a weaker hold waits for SomeHold.
Unheld == ~SomeHold /\ ~Shared

TakenBack(why, which) ==
  [l \in Links |-> IF l \in which /\ Open(l) THEN [link[l] EXCEPT !.revoked = why] ELSE link[l]]

\* The key they chose a password for, or a guest's invitation accepted: both
\* stay when the sign-in is taken away.
\* Fault: only a sign-in there now counts.
HadSignIn_Now == invitee.signedIn # NoLink
HadSignIn == \E l \in Links : Used(l)

-----------------------------------------------------------------------------
(* Inviting.                                                               *)

\* An adult invites teens, and viewers, those always limited and never to
\* Adults only documents; nobody but a viewer is limited; a guest is a limited
\* viewer.
MayInvite(a, role, given) ==
  /\ a \notin locked
  /\ role = "adult" => a \in Owners
  /\ role # "viewer" => given = "none" /\ invitee.kind = "family"
  /\ role = "viewer" /\ a \notin Owners => given = "limited"
  /\ invitee.kind = "guest" => given # "none"

MaySignIn(role) ==
  invitee.here /\ ~invitee.dead /\ role \in invitee.suits /\ ~HadSignIn

\* Only its maker or an owner replaces a live one.
\* Fault: anybody who may invite does.
MayReplace_All(a) == TRUE
MayReplace(a) == a \in Owners \/ \A l \in Links : LiveLink(l) => link[l].by = a

\* The transaction as far as it reads: the person held, so that they may not
\* sign in or pass away meanwhile; their limits and other links are not.  An
\* adult reads nobody's limits, and is told only of Adults only ones.
CreateBegin(a, l) ==
  /\ making[a] = NotMaking
  /\ link[l] = Unmade
  /\ ~SomeHold
  /\ invitee.signedIn = NoLink
  /\ MayReplace(a)
  /\ a \in Owners \/ limits # "adults_only"
  /\ \E role \in RolesGiven, given \in Limits :
       /\ MayInvite(a, role, given)
       /\ MaySignIn(role)
       /\ a \in Owners /\ role # "viewer" => limits = "none"
       /\ link' = [link EXCEPT ![l] =
            [at |-> "making", by |-> a, role |-> role, given |-> given, after |-> TRUE,
             attempts |-> 0, expired |-> FALSE, accepted |-> FALSE, revoked |-> "no"]]
  /\ making' = [making EXCEPT ![a] = [link |-> l, there |-> {m \in Links : LiveLink(m)}]]
  /\ UNCHANGED <<invitee, limits, call, locked>>

\* Whatever is still open for the person is taken back by the same stroke,
\* run out or not: invitation_one_live_per_member.
Replaced == {l \in Links : Open(l)}

CreateWrite(a) ==
  /\ making[a] # NotMaking
  /\ link' = [TakenBack("held", Replaced) EXCEPT ![making[a].link].at = "made"]
  /\ making' = [making EXCEPT ![a] = NotMaking]
  /\ UNCHANGED <<invitee, limits, call, locked>>

\* Another was made first and the index refuses this one, or it stops.
CreateFails(a) ==
  /\ making[a] # NotMaking
  /\ link' = [link EXCEPT ![making[a].link] = Unmade]
  /\ making' = [making EXCEPT ![a] = NotMaking]
  /\ UNCHANGED <<invitee, limits, call, locked>>

Revoke(l) ==
  /\ Open(l)
  /\ link' = TakenBack("loose", {l})
  /\ UNCHANGED <<invitee, limits, making, call, locked>>

Expire(l) ==
  /\ Open(l) /\ ~link[l].expired
  /\ link' = [link EXCEPT ![l].expired = TRUE]
  /\ UNCHANGED <<invitee, limits, making, call, locked>>

\* With an adult's sign-in, the invitations they made.
Lock(a) ==
  /\ a \notin locked
  /\ locked' = locked \union {a}
  /\ link' = TakenBack("loose", {l \in Links : There(l) /\ link[l].by = a})
  /\ UNCHANGED <<invitee, limits, making, call>>

-----------------------------------------------------------------------------
(* The person, meanwhile.                                                  *)

\* Recorded as having passed away, or not after all.
Pass ==
  /\ Unheld
  /\ invitee.here
  /\ ~invitee.dead => invitee.signedIn = NoLink
  /\ invitee' = [invitee EXCEPT !.dead = ~@]
  /\ link' = IF invitee.dead THEN link ELSE TakenBack("held", Links)
  /\ UNCHANGED <<limits, making, call, locked>>

\* Their date of birth is corrected.
ChangeBirthday ==
  /\ Unheld
  /\ invitee.here
  /\ \E roles \in RolesByAge : invitee' = [invitee EXCEPT !.suits = roles]
  /\ UNCHANGED <<limits, link, making, call, locked>>

\* An owner limits them, or changes what they are limited to.
SetLimits ==
  /\ ~SomeHold
  /\ invitee.here
  /\ invitee.signedIn # NoLink => link[invitee.signedIn].role = "viewer"
  /\ limits' \in {"limited", "adults_only"}
  /\ link' = [l \in Links |->
                IF Open(l) \/ link[l].at = "making" THEN [link[l] EXCEPT !.after = FALSE] ELSE link[l]]
  /\ UNCHANGED <<invitee, making, call, locked>>

RemoveLimits ==
  /\ ~SomeHold
  /\ invitee.kind = "family"
  /\ limits # "none"
  /\ limits' = "none"
  /\ UNCHANGED <<invitee, link, making, call, locked>>

\* A guest who never signed in; their invitations and limits with them.
RemoveGuest ==
  /\ Unheld
  /\ invitee.here /\ invitee.kind = "guest"
  /\ invitee.signedIn = NoLink /\ ~HadSignIn
  /\ invitee' = [invitee EXCEPT !.here = FALSE]
  /\ link' = [l \in Links |-> Unmade]
  /\ limits' = "none"
  /\ UNCHANGED <<making, call, locked>>

\* Ownership has the rest, giving it back among it.
TakeSignInAway ==
  /\ ~SomeHold
  /\ invitee.signedIn # NoLink
  /\ invitee' = [invitee EXCEPT !.signedIn = NoLink]
  /\ UNCHANGED <<limits, link, making, call, locked>>

-----------------------------------------------------------------------------
(* Accepting.                                                              *)

Goto(c, stage) == call' = [call EXCEPT ![c].at = stage]
Refused(c)     == call' = [call EXCEPT ![c] = NotAccepting]

Look(c, l) ==
  /\ call[c] = NotAccepting
  /\ LiveLink(l)
  /\ call' = [call EXCEPT ![c] = [at |-> "looked", link |-> l]]
  /\ UNCHANGED <<invitee, limits, link, making, locked>>

Reservable(l) == Open(l) /\ link[l].attempts < MaxAttempts

\* The try is reserved before the code is checked; a right one gives it back.
Reserve(c) ==
  /\ call[c].at = "looked"
  /\ LET l == call[c].link
     IN \/ ~Reservable(l) /\ Refused(c) /\ UNCHANGED link
        \/ Reservable(l) /\ Goto(c, "right") /\ UNCHANGED link
        \/ Reservable(l) /\ Refused(c) /\ link' = [link EXCEPT ![l].attempts = @ + 1]
  /\ UNCHANGED <<invitee, limits, making, locked>>

\* Read again with the person held.
\* Fault: only the read before the hold counts, which the code's answer was.
StillLive_Believed(l) == There(l) /\ ~link[l].accepted
StillLive(l) == LiveLink(l)

Hold(c) ==
  /\ call[c].at = "right"
  /\ Unheld
  /\ IF StillLive(call[c].link) /\ MaySignIn(link[call[c].link].role)
     THEN Goto(c, "held") ELSE Refused(c)
  /\ UNCHANGED <<invitee, limits, link, making, locked>>

\* Limits set before an owner's invitation was made are replaced by it;
\* newer ones stay, and any there for an adult's.
MayReplaceLimits(l) == link[l].by \in Owners /\ link[l].after

Applied(l) ==
  IF link[l].given = "none" \/ (limits # "none" /\ ~MayReplaceLimits(l))
  THEN limits
  ELSE IF link[l].by \in Owners THEN link[l].given ELSE "limited"

\* Nobody limited is made anything but a viewer (the database), and an adult's
\* invitation never keeps Adults only documents an owner gave.
Fits(l) ==
  /\ link[l].role # "viewer" => limits = "none"
  /\ link[l].given # "none" /\ link[l].by \notin Owners => limits # "adults_only"

\* The sign-in, its limits and the link in one transaction.  The link is
\* written by its id: a Revoke that came since the read is not looked for.
Accept(c) ==
  /\ Held(c)
  /\ LET l == call[c].link
     IN IF Fits(l)
        THEN /\ invitee' = [invitee EXCEPT !.signedIn = l]
             /\ limits' = Applied(l)
             /\ link' = [link EXCEPT ![l].accepted = TRUE]
        ELSE UNCHANGED <<invitee, limits, link>>
  /\ Refused(c)
  /\ UNCHANGED <<making, locked>>

\* An address taken, a guest's end passed; or the process stops.
AcceptFails(c) ==
  /\ call[c] # NotAccepting
  /\ Refused(c)
  /\ UNCHANGED <<invitee, limits, link, making, locked>>

-----------------------------------------------------------------------------

InvitationsNext ==
  \/ \E a \in Inviters, l \in Links : CreateBegin(a, l)
  \/ \E a \in Inviters : CreateWrite(a) \/ CreateFails(a)
  \/ \E l \in Links : Revoke(l) \/ Expire(l)
  \/ \E a \in Adults : Lock(a)
  \/ Pass \/ ChangeBirthday \/ SetLimits \/ RemoveLimits \/ RemoveGuest \/ TakeSignInAway
  \/ \E c \in Calls, l \in Links : Look(c, l)
  \/ \E c \in Calls : Reserve(c) \/ Hold(c) \/ Accept(c) \/ AcceptFails(c)

InvitationsSpec == InvitationsInit /\ [][InvitationsNext]_invitationsVars

-----------------------------------------------------------------------------

LinksTypeOK ==
  /\ invitee \in Invitees
  /\ limits \in Limits
  /\ link \in [Links -> Made \union {Unmade}]
  /\ making \in [Inviters -> [link : Links \union {NoLink}, there : SUBSET Links]]
  /\ call \in [Calls -> [at : {"idle", "looked", "right", "held"}, link : Links \union {NoLink}]]
  /\ locked \subseteq Adults

\* "nobody has two valid ways in" (0014), and whoever had a sign-in, theirs
\* still or taken away, is never given another by a link: it would open what
\* is private to them.
OneWayIn ==
  \A l, m \in Links : (Open(l) /\ Open(m)) \/ (Used(l) /\ Used(m)) => l = m

\* The sign-in is only ever one the person may have: nobody who has passed
\* away, no guest without limits, nobody limited but a viewer.
SignInFits ==
  invitee.signedIn # NoLink =>
    /\ Used(invitee.signedIn)
    /\ invitee.here /\ ~invitee.dead
    /\ invitee.kind = "guest" => limits # "none"
    /\ limits # "none" => link[invitee.signedIn].role = "viewer"

\* A link gives what its maker may give, now and when it is accepted.
AsGiven ==
  \A l \in Links : link[l] # Unmade =>
    /\ link[l].role # "viewer" => link[l].given = "none"
    /\ link[l].by \notin Owners =>
         \/ link[l].role = "viewer" /\ link[l].given = "limited"
         \/ link[l].role = "teen"
    /\ invitee.kind = "guest" => link[l].given # "none"

\* A link on its way is its maker's alone and nobody's way in yet, and what the
\* maker found in its way was the maker's to replace.
MakersHold ==
  \A a \in Inviters : making[a] # NotMaking =>
    /\ making[a].link \in Links
    /\ LET it == link[making[a].link]
       IN it.at = "making" /\ it.by = a /\ ~it.accepted /\ it.revoked = "no"
    /\ \A l \in making[a].there : There(l) /\ (a \notin Owners => link[l].by = a)

\* Whoever holds the person to accept does so alone; the person may sign in as
\* the link says and never did, and the link was not taken back by anything
\* that holds them.
HeldToAccept ==
  \A c \in Calls : Held(c) =>
    /\ ~Shared
    /\ \A d \in Calls : Held(d) => d = c
    /\ There(call[c].link)
    /\ MaySignIn(link[call[c].link].role)
    /\ link[call[c].link].revoked # "held"
CallsNameLinks == \A c \in Calls : call[c].at # "idle" => call[c].link \in Links

\* A link takes five wrong codes however many come at once (its attempts),
\* leads one person to one sign-in, and that sign-in fits them; and what the
\* three follow from.
InvitationsInv ==
  /\ LinksTypeOK
  /\ OneWayIn
  /\ SignInFits
  /\ AsGiven
  /\ MakersHold
  /\ HeldToAccept
  /\ CallsNameLinks

Accepted(l) == There(l) /\ ~link[l].accepted /\ Used(l)'

\* What an owner decided stands whatever an adult does meanwhile: no adult's
\* link takes the place of another's live one, but where two were on their way
\* at once (which OnlyTheirOwnReplaced, refuted, does not allow for); nobody
\* comes in by an adult's link but as a limited viewer, or as a teen whom
\* nobody limits; and limits give way to an owner's link alone, made after them.
OwnersChoiceStands ==
  [][/\ \A a \in Adults, l \in Links :
          making[a] # NotMaking /\ LiveLink(l) /\ link'[l].at = "made" /\ link'[l].revoked = "held"
          /\ making'[a] = NotMaking =>
            link[l].by = a \/ l \notin making[a].there
     /\ \A l \in Links : Accepted(l) =>
          /\ link[l].by \in Adults =>
               \/ link[l].role = "viewer" /\ limits' = "limited"
               \/ link[l].role = "teen" /\ limits = "none" /\ limits' = "none"
          /\ link[l].given # "none" => limits' # "none"
          /\ limits # "none" /\ limits' # limits => link[l].by \in Owners /\ link[l].after]_invitationsVars

\* "But only its maker or an owner may: otherwise any adult could quietly swap
\* an owner's invitation for one of their own" (create): no adult's link takes
\* the place of another's live one at all.  It does, of one made between the
\* two statements that ask and that take back.
OnlyTheirOwnReplaced ==
  [][\A a \in Adults : CreateWrite(a) =>
       \A l \in Replaced : LiveLink(l) => link[l].by = a]_invitationsVars

\* Nobody comes in by a link that was taken back: not one replaced, or taken
\* back because the person died, at all; not one revoked, or taken back with
\* its maker's lock, unless its acceptance already held the person (accept's
\* "somebody may have revoked it" is asked before that, and not again).
TakenBackStaysOut ==
  [][\A l \in Links :
       Accepted(l) /\ link[l].revoked # "no" =>
         /\ link[l].revoked = "loose"
         /\ \E c \in Calls : Held(c) /\ call[c].link = l]_invitationsVars
=============================================================================
