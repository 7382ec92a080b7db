----------------------------- MODULE MCDispatch -----------------------------
(* Dispatch with a reader in two apps, an author who is the group's admin  *)
(* and a member, and lists that do or do not name the reader.              *)
EXTENDS Dispatch, TLC

CONSTANTS reader, author, phone, web, g,
          idler   \* of the run dispatch_twice only

List(r, w) == (reader :> r) @@ (author :> w)
Phones == {<<reader, phone>>, <<reader, web>>}
Lists == {List("plain", "plain"), List("absent", "plain")}
Admins == {List("absent", "role")}

Sub(u, a, h) == [user |-> u, app |-> a, h |-> h, direct |-> FALSE]
SubDirect(u, a) == [user |-> u, app |-> a, h |-> {}, direct |-> TRUE]
Stored == {Sub(reader, phone, {g}), SubDirect(reader, web)}

Post(kind, h, sender, mentions, at) ==
  [kind |-> kind, h |-> h, a |-> FALSE, broadcast |-> FALSE, live |-> TRUE,
   sender |-> sender, mentions |-> mentions, at |-> at]

Posts ==
  {Post("chat", g, author, <<author, reader>>, 1),
   Post("reply", g, reader, <<reader, author>>, 1),
   [Post("chat", g, author, <<>>, 0) EXCEPT !.broadcast = TRUE],
   [Post("chat", g, reader, <<author>>, 1) EXCEPT !.broadcast = TRUE],
   [Post("other", g, author, <<reader>>, 0) EXCEPT !.a = TRUE],
   Post("other", NoGroup, author, <<author, reader>>, 1),
   Post("direct", NoGroup, author, <<author, reader>>, 1),
   [Post("other", NoGroup, reader, <<author>>, 1) EXCEPT !.live = FALSE]}

\* Two users of one filter, one of them without a token in the filter's app.
SharedPhones == {<<reader, web>>, <<idler, phone>>}
Shared == {Sub(reader, web, {}), Sub(idler, web, {})}
Mention == {Post("other", NoGroup, author, <<reader>>, 1),
            [Post("chat", NoGroup, author, <<>>, 0) EXCEPT !.live = FALSE]}
=============================================================================
