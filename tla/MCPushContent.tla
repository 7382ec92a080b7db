--------------------------- MODULE MCPushContent ---------------------------
(* PushContent with two processes, one user, who is sender and mentioned,  *)
(* and one group, whose relay has no profiles.                             *)
EXTENDS PushContent

CONSTANTS u, g, profiles, groups

MCSources == [kind \in Kinds |-> IF kind = "group_meta" THEN {groups} ELSE {profiles}]

\* A mention, two in a row, of which neither is recognised, and one at the end.
Posts == {[author |-> u, group |-> g, content |-> <<u, Space, u, u, u>>]}

\* The user publishes a profile with a name, and later one without.
MCArrivals == {<<profiles, u, 1>>, <<profiles, u, 2>>, <<groups, g, 1>>}

OneEach == [kind \in Kinds |-> 1]

\* The name is longer than its mention, what stands for no name is shorter.
VersionGlyphs == Users \X (0..MaxVersion)
Names == [x \in Users |-> [v \in 0..MaxVersion |->
            [i \in 1..(IF v = 1 THEN MentionLength + 1 ELSE 1) |-> <<x, v>>]]]
=============================================================================
