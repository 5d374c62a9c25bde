---------------------------- MODULE MCShareLinks ----------------------------
(***************************************************************************)
(* The links a run of ShareLinks starts from: one behind a PIN for one     *)
(* browser, one that asks for an emailed code, one that asks for nothing;  *)
(* and one whose first open is its last.                                   *)
(***************************************************************************)
EXTENDS ShareLinks, TLC

MCLinks ==
  {[secret |-> TRUE, code |-> FALSE, oneDevice |-> TRUE, opens |-> 2, downloads |-> 1],
   [secret |-> FALSE, code |-> TRUE, oneDevice |-> FALSE, opens |-> 2, downloads |-> 1],
   [secret |-> FALSE, code |-> FALSE, oneDevice |-> FALSE, opens |-> 2, downloads |-> 2]}

MCOnce ==
  {[secret |-> FALSE, code |-> TRUE, oneDevice |-> FALSE, opens |-> 1, downloads |-> 1]}

MCSymmetry == Permutations(Reqs) \union Permutations(Browsers)
=============================================================================
