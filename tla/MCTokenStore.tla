---------------------------- MODULE MCTokenStore ----------------------------
(* TokenStore on a small instance: two apps, users and tokens.             *)
EXTENDS TokenStore, TLC

Symmetry == Permutations(PubKeys) \cup Permutations(Apps) \cup Permutations(Tokens)
=============================================================================
