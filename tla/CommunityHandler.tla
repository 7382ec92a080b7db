-------------------------- MODULE CommunityHandler --------------------------
(***************************************************************************)
(* The community handler of handlers/community.rs: who is a member of the  *)
(* NIP-72 communities and NIP-29 groups, kept both by place and by user.   *)
(* Each of the four maps has a lock of its own.  Most sections take one    *)
(* lock, and are one action; between the sections of a call anything may   *)
(* happen.  cleanup_user and get_stats also wait for a lock with another   *)
(* in their hands.                                                         *)
(*                                                                         *)
(* In the service the event loop alone calls it, to route events and to    *)
(* clean up; nothing but the tests adds members or counts them.  Here any  *)
(* number of Workers call every function: what is checked is the object    *)
(* its locks are there for, and a constant says who changes which user.    *)
(***************************************************************************)
EXTENDS Naturals, Sequences, FiniteSets, Functions

CONSTANTS
  Users,
  Communities,
  Groups,
  Malformed,  \* a value of an a tag that from_a_tag does not parse
  Events,     \* [a, h]: the values of an event's a tags and h tags
  Workers,
  Callers,    \* the workers that change a user's memberships: [Users -> SUBSET Workers]
  Nobody      \* the user of a call about none

Places == Communities \cup Groups

ASSUME CommunityHandlerAssumption ==
  /\ Communities \cap Groups = {} /\ Malformed \notin Places
  /\ Events \subseteq [a : Seq(Communities \cup {Malformed}), h : Seq(Groups)]
  /\ Callers \in [Users -> SUBSET Workers]
  /\ Nobody \notin Users

VARIABLES
  members,  \* community_members and group_members: [place]
  joined,   \* user_communities and user_groups: [user]
  call,     \* what each worker is in the middle of
  ever,     \* history: who has been in a place of the event since the routing began,
  stayed    \* and who was there all the time: [worker][place]

historyVars == <<ever, stayed>>
vars == <<members, joined, call, ever, stayed>>

\* get_stats takes them in this order.
LockOrder == <<"community_members", "group_members", "user_communities", "user_groups">>
Locks == Range(LockOrder)

\* "place" is the place a half done call is about, "todo" what a clean-up has still to do,
\* "queue" the tag values a routing has still to read, "locks" how many get_stats holds.
Calls == [op : {"none", "add", "remove", "cleanup", "leave", "sweep", "route", "stats"},
          user : Users \cup {Nobody}, place : Places \cup {Malformed}, todo : SUBSET Places,
          queue : Seq(Places \cup {Malformed}), tags : SUBSET Places, recipients : SUBSET Users,
          locks : 0..3]
None == [op |-> "none", user |-> Nobody, place |-> Malformed, todo |-> {},
         queue |-> <<>>, tags |-> {}, recipients |-> {}, locks |-> 0]

TypeOK ==
  /\ members \in [Places -> SUBSET Users]
  /\ joined \in [Users -> SUBSET Places]
  /\ call \in [Workers -> Calls]
  /\ ever \in [Workers -> SUBSET Users]
  /\ stayed \in [Workers -> [Places -> SUBSET Users]]

Init ==
  /\ members = [p \in Places |-> {}]
  /\ joined = [u \in Users |-> {}]
  /\ call = [w \in Workers |-> None]
  /\ ever = [w \in Workers |-> {}]
  /\ stayed = [w \in Workers |-> [p \in Places |-> {}]]

-----------------------------------------------------------------------------
(* The locks that are held between two steps.                              *)
WriteLocked(l) == l = "user_groups" /\ \E w \in Workers : call[w].op = "sweep"

\* Mutation: the guard get_user_communities copied under lives as long as the copy.
CopyKeepsLock(l) ==
  \E w \in Workers, n \in 1..3 :
    \/ call[w].op = "stats" /\ n <= call[w].locks /\ l = LockOrder[n]
    \/ call[w].op \in {"cleanup", "leave"} /\ l = "user_communities"

ReadLocked(l) ==
  \E w \in Workers, n \in 1..3 :
    call[w].op = "stats" /\ n <= call[w].locks /\ l = LockOrder[n]

MayRead(l)  == ~WriteLocked(l)
MayWrite(l) == ~WriteLocked(l) /\ ~ReadLocked(l)

MembersLock(p) == IF p \in Communities THEN "community_members" ELSE "group_members"
JoinedLock(p)  == IF p \in Communities THEN "user_communities" ELSE "user_groups"

\* A worker goes on with its call.
Continue(w, c) == call' = [call EXCEPT ![w] = c]

\* The histories see every new value of members.
Witness(m) ==
  /\ ever' = [w \in Workers |-> ever[w] \cup UNION {m[p] : p \in call[w].tags}]
  /\ stayed' = [w \in Workers |-> [p \in Places |-> stayed[w][p] \cap m[p]]]

\* A section on community_members or group_members, ...
SetMembers(lock, m) ==
  /\ MayWrite(lock)
  /\ members' = m
  /\ Witness(m)
  /\ UNCHANGED joined

\* ... and one on user_communities or user_groups.
SetJoined(lock, u, ps) ==
  /\ MayWrite(lock)
  /\ joined' = [joined EXCEPT ![u] = ps]
  /\ UNCHANGED <<members, historyVars>>

Without(u, ps) == [p \in Places |-> IF p \in ps THEN members[p] \ {u} ELSE members[p]]

Begin(op, u, p) == [None EXCEPT !.op = op, !.user = u, !.place = p]

-----------------------------------------------------------------------------
\* add_community_member and add_group_member: the members, then the user's places.
Add(w, u, p) ==
  /\ call[w].op = "none" /\ w \in Callers[u]
  /\ SetMembers(MembersLock(p), [members EXCEPT ![p] = @ \cup {u}])
  /\ Continue(w, Begin("add", u, p))

AddSecond(w) ==
  /\ call[w].op = "add"
  /\ SetJoined(JoinedLock(call[w].place), call[w].user, joined[call[w].user] \cup {call[w].place})
  /\ Continue(w, None)

\* remove_community_member; there is no such function for groups.  An emptied entry is
\* dropped, which the maps here do not tell from an empty one.
Remove(w, u, c) ==
  /\ call[w].op = "none" /\ w \in Callers[u]
  /\ SetMembers("community_members", Without(u, {c}))
  /\ Continue(w, Begin("remove", u, c))

\* Mutation: the places of the user stay as they were.
KeepJoined(w) ==
  /\ call[w].op = "remove"
  /\ SetJoined("user_communities", call[w].user, joined[call[w].user])
  /\ Continue(w, None)

RemoveSecond(w) ==
  /\ call[w].op = "remove"
  /\ SetJoined("user_communities", call[w].user, joined[call[w].user] \ {call[w].place})
  /\ Continue(w, None)

-----------------------------------------------------------------------------
\* cleanup_user: a copy of the user's communities, remove_community_member for each, ...
Cleanup(w, u) ==
  /\ call[w].op = "none" /\ w \in Callers[u]
  /\ MayRead("user_communities")
  /\ Continue(w, [Begin("cleanup", u, Malformed) EXCEPT !.todo = joined[u] \cap Communities])
  /\ UNCHANGED <<members, joined, historyVars>>

LeaveCommunity(w, c) ==
  /\ call[w].op = "cleanup" /\ c \in call[w].todo
  /\ SetMembers("community_members", Without(call[w].user, {c}))
  /\ Continue(w, [call[w] EXCEPT !.op = "leave", !.place = c, !.todo = @ \ {c}])

LeaveSecond(w) ==
  /\ call[w].op = "leave"
  /\ SetJoined("user_communities", call[w].user, joined[call[w].user] \ {call[w].place})
  /\ Continue(w, [call[w] EXCEPT !.op = "cleanup", !.place = Malformed])

\* Mutation: the clean-up ends with the communities.
KeepGroups(w) ==
  /\ call[w].op = "cleanup" /\ call[w].todo = {}
  /\ MayWrite("user_groups")
  /\ Continue(w, None)
  /\ UNCHANGED <<members, joined, historyVars>>

\* ... then the user's groups, whose lock it keeps ...
TakeGroups(w) ==
  /\ call[w].op = "cleanup" /\ call[w].todo = {}
  /\ LET groups == joined[call[w].user] \cap Groups
     IN /\ SetJoined("user_groups", call[w].user, joined[call[w].user] \ groups)
        /\ Continue(w, IF groups = {} THEN None
                       ELSE [call[w] EXCEPT !.op = "sweep", !.todo = groups])

\* ... until it has the lock of their members.
SweepGroups(w) ==
  /\ call[w].op = "sweep"
  /\ SetMembers("group_members", Without(call[w].user, call[w].todo))
  /\ Continue(w, None)

-----------------------------------------------------------------------------
\* extract_a_tags and extract_h_tags: the values the routing goes through, in order.
TagValues(e) == e.a \o e.h

\* route_event.
BeginRoute(w, e) ==
  /\ call[w].op = "none"
  /\ LET tags == Range(TagValues(e)) \ {Malformed}
     IN /\ Continue(w, [None EXCEPT !.op = "route", !.queue = TagValues(e), !.tags = tags])
        /\ ever' = [ever EXCEPT ![w] = UNION {members[p] : p \in tags}]
        /\ stayed' = [stayed EXCEPT ![w] =
                        [p \in Places |-> IF p \in tags THEN members[p] ELSE {}]]
  /\ UNCHANGED <<members, joined>>

\* from_a_tag has no community for the value.  (Every h tag is a group.)
SkipValue(w) ==
  /\ call[w].op = "route" /\ call[w].queue # <<>> /\ Head(call[w].queue) = Malformed
  /\ Continue(w, [call[w] EXCEPT !.queue = Tail(@)])
  /\ UNCHANGED <<members, joined, historyVars>>

\* The routing has a place before it, and may read its members.
AtPlace(w) ==
  /\ call[w].op = "route" /\ call[w].queue # <<>> /\ Head(call[w].queue) \in Places
  /\ MayRead(MembersLock(Head(call[w].queue)))

\* Mutation: the members of the next place replace those of the last.
ReadPlaceAfresh(w) ==
  /\ AtPlace(w)
  /\ Continue(w, [call[w] EXCEPT !.recipients = members[Head(call[w].queue)],
                                 !.queue = Tail(@)])
  /\ UNCHANGED <<members, joined, historyVars>>

\* Mutation: a place is read again and again.
ReadPlaceForEver(w) ==
  /\ AtPlace(w)
  /\ Continue(w, [call[w] EXCEPT !.recipients = @ \cup members[Head(call[w].queue)]])
  /\ UNCHANGED <<members, joined, historyVars>>

\* get_community_members or get_group_members of the next place.
ReadPlace(w) ==
  /\ AtPlace(w)
  /\ Continue(w, [call[w] EXCEPT !.recipients = @ \cup members[Head(call[w].queue)],
                                 !.queue = Tail(@)])
  /\ UNCHANGED <<members, joined, historyVars>>

EndRoute(w) ==
  /\ call[w].op = "route" /\ call[w].queue = <<>>
  /\ Continue(w, None)
  /\ ever' = [ever EXCEPT ![w] = {}]
  /\ stayed' = [stayed EXCEPT ![w] = [p \in Places |-> {}]]
  /\ UNCHANGED <<members, joined>>

-----------------------------------------------------------------------------
\* Mutation: the locks outlive the counting.
KeepLocks(w) ==
  LET n == call[w].locks IN
  /\ MayRead(LockOrder[n + 1])
  /\ Continue(w, [None EXCEPT !.op = "stats", !.locks = n + 1])
  /\ UNCHANGED <<members, joined, historyVars>>

\* get_stats: it has four locks before it counts, and gives them up together.
TakeLock(w) ==
  LET n == call[w].locks IN
  /\ MayRead(LockOrder[n + 1])
  /\ Continue(w, IF n = 3 THEN None ELSE [None EXCEPT !.op = "stats", !.locks = n + 1])
  /\ UNCHANGED <<members, joined, historyVars>>

GetStats(w) == call[w].op = "none" /\ TakeLock(w)
NextLock(w) == call[w].op = "stats" /\ TakeLock(w)

-----------------------------------------------------------------------------
Enter(w) ==
  \/ \E u \in Users : Cleanup(w, u) \/ \E p \in Places : Add(w, u, p)
  \/ \E u \in Users, c \in Communities : Remove(w, u, c)
  \/ \E e \in Events : BeginRoute(w, e)
  \/ GetStats(w)

Proceed(w) ==
  \/ AddSecond(w) \/ RemoveSecond(w)
  \/ \E c \in Communities : LeaveCommunity(w, c)
  \/ LeaveSecond(w) \/ TakeGroups(w) \/ SweepGroups(w)
  \/ SkipValue(w) \/ ReadPlace(w) \/ EndRoute(w) \/ NextLock(w)

Next == \E w \in Workers : Enter(w) \/ Proceed(w)

Spec == Init /\ [][Next]_vars

\* tokio schedules every task, and its locks serve those who wait in turn.
FairSpec == Spec /\ \A w \in Workers : SF_vars(Proceed(w))

-----------------------------------------------------------------------------
\* A call about u and p is between its two maps.
HalfDone(u, p) ==
  \E w \in Workers :
    /\ call[w].user = u
    /\ \/ call[w].op \in {"add", "remove", "leave"} /\ call[w].place = p
       \/ call[w].op = "sweep" /\ p \in call[w].todo

\* The maps by place and by user agree on every membership no call is in the middle of,
\* though each call updates them under two locks: joins, leaves and clean-ups of other
\* users between the two do not matter.  Each user's memberships are changed by one worker.
MapsAgree ==
  \A u \in Users, p \in Places : HalfDone(u, p) \/ (u \in members[p] <=> p \in joined[u])

\* When cleanup_user returns, the user is in no place and has none, though it looked up
\* the communities long before (community.rs:261, log of the clean-up).
CleanupLeavesNothing ==
  [][\A w \in Workers :
       call[w].op \in {"cleanup", "sweep"} /\ call'[w].op = "none" =>
         /\ joined'[call[w].user] = {}
         /\ \A p \in Places : call[w].user \notin members'[p]]_vars

\* The recipients route_event has read, one place after the other, are right for an event
\* that came while it ran: whoever was in one of the places all the time is among them,
\* and nobody who was in none of them at any time.
RoutedAreMembers ==
  \A w \in Workers :
    call[w].op = "route" /\ call[w].queue = <<>> =>
      /\ call[w].recipients \subseteq ever[w]
      /\ \A p \in call[w].tags : stayed[w][p] \subseteq call[w].recipients

\* Nobody holds the lock the next section of the call needs.
LockFree(w) ==
  LET c == call[w] IN
  /\ c.op = "add" => MayWrite(JoinedLock(c.place))
  /\ c.op \in {"remove", "leave"} => MayWrite("user_communities")
  /\ c.op = "cleanup" => MayWrite(IF c.todo = {} THEN "user_groups" ELSE "community_members")
  /\ c.op = "sweep" => MayWrite("group_members")
  /\ c.op = "route" /\ c.queue # <<>> /\ Head(c.queue) # Malformed =>
       MayRead(MembersLock(Head(c.queue)))
  /\ c.op = "stats" => MayRead(LockOrder[c.locks + 1])

\* The circular wait of the code: cleanup_user has the lock of the groups by user and waits
\* for that of the groups' members (community.rs:250), get_stats has the latter and waits
\* for the former (community.rs:267-269).
Circle ==
  \E v, w \in Workers :
    call[v].op = "sweep" /\ call[w].op = "stats" /\ LockOrder[call[w].locks + 1] = "user_groups"

\* There is no other: unless they are in that circle, some call in progress finds the lock
\* it needs free, whatever the others hold.
StuckOnlyInCircle ==
  LET busy == {w \in Workers : call[w].op # "none"}
  IN busy # {} => Circle \/ \E w \in busy : LockFree(w)

\* Every call returns, unless a cleanup_user and a get_stats met in the circle.
CallsReturn ==
  \A w \in Workers : call[w].op # "none" ~> call[w].op = "none" \/ Circle
=============================================================================
