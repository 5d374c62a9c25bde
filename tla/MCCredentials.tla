--------------------------- MODULE MCCredentials ---------------------------
(* Credentials for TLC: calls, sessions and links are alike. *)
EXTENDS Credentials, TLC

Alike == Permutations(Calls) \union Permutations(Sessions) \union Permutations(Links)
=============================================================================
