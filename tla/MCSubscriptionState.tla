------------------------- MODULE MCSubscriptionState -------------------------
(* SubscriptionState on a small instance: two users of one app, one of     *)
(* them in a second app too.                                               *)
EXTENDS SubscriptionState, TLC

CONSTANTS a1, a2, u1, u2,   \* apps and users
          note, rawNote,    \* a filter, and a client's spelling of it
          dm,               \* a filter for direct messages
          hNote, hDm

MCHolders == {<<a1, u1>>, <<a1, u2>>, <<a2, u1>>}
OneApp    == {<<a1, u1>>, <<a1, u2>>}

Single   == {note}
Mixed    == {note, rawNote, dm}

Symmetry == Permutations({u1, u2})   \* for OneApp

MCCanonical == [f \in Filters |-> IF f = rawNote THEN note ELSE f]
MCHashOf    == [f \in Filters |-> IF f = dm THEN hDm ELSE hNote]
=============================================================================
