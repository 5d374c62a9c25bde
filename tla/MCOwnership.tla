----------------------------- MODULE MCOwnership -----------------------------
(* Ownership for TLC: requests are alike, and so are the first owners.     *)
EXTENDS Ownership, TLC

AllAlike == Permutations(Requests) \union Permutations(FirstOwners)
=============================================================================
