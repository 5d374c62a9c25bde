---------------------------- MODULE MCAcceptance ----------------------------
(* Acceptance on a small instance: no call that files is told from another.*)
EXTENDS Acceptance, TLC

AcceptsAlike == Permutations(Accepts)
=============================================================================
