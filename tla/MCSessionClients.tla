--------------------------- MODULE MCSessionClients ---------------------------
(***************************************************************************)
(* Instances of SessionClients for TLC.                                    *)
(***************************************************************************)
EXTENDS SessionClients, TLC

\* The contexts are alike: exchanging them changes nothing that is checked.
AlikeContexts == Permutations(Contexts)
=============================================================================
