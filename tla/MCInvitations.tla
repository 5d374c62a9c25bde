--------------------------- MODULE MCInvitations ---------------------------
(* Invitations on a small instance.                                        *)
EXTENDS Invitations, TLC

Alike == Permutations(Links) \union Permutations(Calls)

\* What no step and no property asks any more: of a link that is closed, all
\* but what it is when nobody accepts by it nor signed in by it; how old
\* somebody is who once signed in; and what was live when an owner began.
Spent(l) == There(l) /\ ~Open(l) /\ \A c \in Calls : ~(Held(c) /\ call[c].link = l)
Asked ==
  <<[invitee EXCEPT !.suits = IF \E l \in Links : Used(l) THEN {} ELSE @],
    limits,
    [l \in Links |->
       IF Spent(l) /\ l # invitee.signedIn THEN [at |-> "spent", accepted |-> link[l].accepted] ELSE link[l]],
    [a \in Inviters |-> IF a \in Owners THEN making[a].link ELSE making[a]],
    call, locked>>
=============================================================================
