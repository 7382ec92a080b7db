------------------------- MODULE MCCommunityHandler -------------------------
(* CommunityHandler with two workers, each of which changes one user.      *)
EXTENDS CommunityHandler, TLC

CONSTANTS u1, u2, c1, c2, g, w1, w2, bad

OneEach == (u1 :> {w1}) @@ (u2 :> {w2})
Posts == {[a |-> <<bad, c1>>, h |-> <<g>>], [a |-> <<c1, c2>>, h |-> <<>>]}
=============================================================================
