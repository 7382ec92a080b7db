------------------------------ MODULE Dispatch ------------------------------
(***************************************************************************)
(* Whom the service notifies of an event that is not a control event:      *)
(* handle_dm, handle_group_message, handle_broadcast_message,              *)
(* handle_custom_subscriptions and the scan of all stored subscriptions    *)
(* the last three share, check_subscriptions_for_matching_users, which     *)
(* also drops subscriptions.  The event loop handles one event at a time;  *)
(* the relay's lists, the clock and the membership cache move under it.    *)
(* A step of a loop (its check, its pushes, its writes) is an action.      *)
(***************************************************************************)
EXTENDS GroupMembership, Sequences, Functions

CONSTANTS
  Apps,
  Devices,        \* the pairs of a user and an app that may have a token
  GroupIds,       \* ids a filter may name
  Subscriptions,  \* stored filters, by the groups in their #h and whether they name
                  \* a kind of direct messages
  Events,
  Dates,          \* the created_at of the events that store a filter
  NoGroup,        \* the h of an event without an h tag
  NoEvent

Kinds == {"direct", "chat", "reply", "other"}   \* dm_kinds, kind 9, kind 10, the rest

ASSUME DispatchAssumption ==
  /\ Devices \subseteq Users \X Apps
  /\ Groups \subseteq GroupIds /\ NoGroup \notin GroupIds
  /\ Subscriptions \subseteq [user : Users, app : Apps, h : SUBSET GroupIds, direct : BOOLEAN]
  /\ Events \subseteq [kind : Kinds, h : Groups \cup {NoGroup}, a : BOOLEAN,
                       broadcast : BOOLEAN, live : BOOLEAN, sender : Users,
                       mentions : Seq(Users), at : Nat]
  /\ NoEvent \notin Events
  /\ Dates \subseteq Nat

VARIABLES
  tokens,    \* the users and apps with a registered token
  subs,      \* app:{app}:subscriptions:{user}
  filterAt,  \* app:{app}:filter:{hash}: the timestamp, which the app's users share
  asked,     \* the manager's user_filters that name a kind of direct messages
  shared,    \* those filters with an entry in shared_filters, which all users share
  job,       \* the handler's progress
  pushes     \* how often each user was notified in each app of the event in work

storedVars == <<subs, filterAt, asked, shared>>
dispatchVars == <<tokens, storedVars, job, pushes>>
vars == <<groupVars, dispatchVars>>

FilterKeys == Apps \X (SUBSET GroupIds) \X BOOLEAN
Absent == -1
Phases == {"idle", "direct", "mentions", "broadcast", "members", "fanout", "scan",
           "mentioned", "finished"}

\* "queue" are the mentions still to take, "left" the users still to take, "served" the
\* processed_users.  History: when the handler began, and the users it failed.
Jobs == [phase : Phases, event : Events \cup {NoEvent}, queue : Seq(Users),
         left : SUBSET Users, served : SUBSET Users, start : Nat, failed : SUBSET Users]
Idle == [phase |-> "idle", event |-> NoEvent, queue |-> <<>>, left |-> {},
         served |-> {}, start |-> 0, failed |-> {}]
Silence == [d \in Devices |-> 0]

JobOK(j) ==
  /\ j \in Jobs
  /\ j.event = NoEvent <=> j.phase = "idle"
  /\ j.left # {} => j.phase \in {"fanout", "scan"}

Direct == {s \in Subscriptions : s.direct}
FilterOf(s) == <<s.h, s.direct>>   \* the manager's hash leaves the app out
FiltersOf(S) == {FilterOf(s) : s \in S}

StoredOK ==
  /\ subs \subseteq Subscriptions
  /\ filterAt \in [FilterKeys -> Nat \cup {Absent}]
  /\ asked \subseteq Direct /\ shared \subseteq FiltersOf(Direct)

TypeOK ==
  /\ GroupTypeOK
  /\ tokens \subseteq Devices
  /\ StoredOK
  /\ JobOK(job)
  /\ pushes \in [Devices -> Nat]

Init ==
  /\ GroupInit
  /\ tokens = {} /\ subs = {} /\ asked = {} /\ shared = {}
  /\ filterAt = [k \in FilterKeys |-> Absent]
  /\ job = Idle /\ pushes = Silence

-----------------------------------------------------------------------------
AppsOf(u) == {a \in Apps : <<u, a>> \in tokens}
Subscribers == {s.user : s \in subs}
KeyOf(s) == <<s.app, s.h, s.direct>>

\* get_all_subscriptions_by_hash: the subscriptions whose filter data is there.
Readable(u) == {s \in subs : s.user = u /\ filterAt[KeyOf(s)] # Absent}

\* The timestamp check and match_event; the rest of the filter accepts the event.
Matches(s, e) == filterAt[KeyOf(s)] < e.at /\ (s.h = {} \/ e.h \in s.h)

\* The gate of send_notification_to_user: a direct message goes to the apps for which the
\* manager has a filter of the user's, and the filter itself, that names its kinds.
Gate(u) ==
  {a \in Apps : job.event.kind = "direct" =>
     \E s \in asked : s.user = u /\ s.app = a /\ FilterOf(s) \in shared}

Reachable(u) == AppsOf(u) \cap Gate(u)

\* Mutation: a filter without an h value counts as specific.
NamesNoOther(s, g) == s.h \subseteq {g}

\* is_specific_to_this_group: the filter's only h value is the group.
IsSpecificTo(s, g) == s.h = {g}

\* Mutation: the sender is not skipped.
NobodySkipped(u) == FALSE

\* The handlers skip the event's author.
IsSender(u) == u = job.event.sender

\* Mutation: nobody counts as served by the scan.
NobodyServed(e) == {}

\* processed_users: the second pass of handle_custom_subscriptions.
Served(e) == {u \in Subscribers : AppsOf(u) # {} /\ \E s \in Readable(u) : Matches(s, e)}

\* The answers to a question about members the handler asks.
Told(g) == Answers(g, job.start)

-----------------------------------------------------------------------------
(* Control events, in as much as they change what the handlers read.       *)

Register(d) ==
  /\ tokens' = tokens \cup {d}
  /\ UNCHANGED <<groupVars, storedVars, job, pushes>>

\* remove_user_filter: the user's entries go, and with the last reference counted the
\* filter, for all who use it.  The counts, which may be off, are SubscriptionState's.
Forgotten(tried) ==
  /\ asked' = asked \ tried
  /\ \E uncounted \in SUBSET FiltersOf(tried) : shared' = shared \ uncounted

\* The token, if it is stored and the device's last, goes from Redis, and
\* remove_all_user_filters empties the manager of the device; Redis keeps its filters.
Deregister(d) ==
  /\ tokens' \in {tokens, tokens \ {d}}
  /\ Forgotten({s \in asked : <<s.user, s.app>> = d})
  /\ UNCHANGED <<groupVars, subs, filterAt, job, pushes>>

\* The manager first, then Redis: SADD and SET, each of which may fail.
Upsert(s, at) ==
  /\ asked' = asked \cup ({s} \cap Direct)
  /\ shared' = shared \cup FiltersOf({s} \cap Direct)
  /\ \/ UNCHANGED <<subs, filterAt>>
     \/ subs' = subs \cup {s} /\ filterAt' \in {filterAt, [filterAt EXCEPT ![KeyOf(s)] = at]}
  /\ UNCHANGED <<groupVars, tokens, job, pushes>>

\* remove_subscription_by_filter, SREM and then DEL, which may fail: the data of a filter
\* is deleted for all users of the app.
Unsubscribed(dropped) ==
  /\ subs' = subs \ dropped
  /\ \E deleted \in SUBSET {KeyOf(s) : s \in dropped} :
       filterAt' = [k \in FilterKeys |-> IF k \in deleted THEN Absent ELSE filterAt[k]]

\* Redis ignores what it does not have, and may fail.
Drop(tried) ==
  /\ Forgotten(tried)
  /\ \E dropped \in SUBSET (tried \cap subs) : Unsubscribed(dropped)

Unsubscribe(s) ==
  /\ Drop({s})
  /\ UNCHANGED <<groupVars, tokens, job, pushes>>

Control ==
  /\ job.phase = "idle"
  /\ \/ \E d \in Devices : Register(d) \/ Deregister(d)
     \/ \E s \in Subscriptions, at \in Dates : Upsert(s, at)
     \/ \E s \in Subscriptions : Unsubscribe(s)

-----------------------------------------------------------------------------
(* The results of one push.  An FCM or Redis error is logged and the loop  *)
(* goes on; "failed" remembers the user.                                   *)

\* send_notification_to_user: every app the user has a token in and the gate is open for.
NotifyUser(u, reached, step) ==
  /\ reached \subseteq Reachable(u)
  /\ pushes' = [d \in Devices |->
                  pushes[d] + (IF d[1] = u /\ d[2] \in reached THEN 1 ELSE 0)]
  /\ job' = [step EXCEPT !.failed = @ \cup (IF reached = Reachable(u) THEN {} ELSE {u})]
  /\ UNCHANGED tokens   \* a refused token is removed from the keys without an app

\* send_notification_to_user_for_app: one app, whose refused tokens are removed.
NotifyApp(u, a, reached, step) ==
  /\ pushes' = [pushes EXCEPT ![<<u, a>>] = @ + (IF reached THEN 1 ELSE 0)]
  /\ job' = [step EXCEPT !.failed = @ \cup (IF reached THEN {} ELSE {u})]
  /\ tokens' \in {tokens, tokens \ {<<u, a>>}}

Proceed(step) == job' = step /\ UNCHANGED <<tokens, pushes>>

-----------------------------------------------------------------------------
\* route_event.  With an a tag the community handler chooses the recipients, and nothing
\* in the service ever adds a member to it.
FirstPhase(e) ==
  IF e.kind = "direct" THEN "direct"
  ELSE IF e.a THEN "finished"
  ELSE IF e.h = NoGroup THEN "scan"
  ELSE IF e.broadcast THEN "broadcast" ELSE "mentions"

Take(e) ==
  /\ job.phase = "idle"
  /\ job' = [Idle EXCEPT !.phase = FirstPhase(e), !.event = e, !.start = now,
                         !.queue = IF FirstPhase(e) \in {"direct", "mentions"} THEN e.mentions ELSE <<>>,
                         !.left = IF FirstPhase(e) = "scan" THEN Subscribers ELSE {}]
  /\ UNCHANGED <<groupVars, tokens, storedVars, pushes>>

\* Mutation: a mention of the sender ends the loop.
StopAtSender(u) == [job EXCEPT !.queue = IF IsSender(u) THEN <<>> ELSE Tail(@)]

\* The loops over mentions "continue" with the next.
NextMention(u) == [job EXCEPT !.queue = Tail(@)]

\* handle_dm, one recipient.
DirectMessage(u) ==
  /\ job.phase = "direct" /\ job.queue # <<>> /\ u = Head(job.queue)
  /\ IF IsSender(u) THEN Proceed(NextMention(u))
     ELSE \E reached \in SUBSET Reachable(u) : NotifyUser(u, reached, NextMention(u))
  /\ UNCHANGED <<groupVars, storedVars>>

\* handle_group_message, one mention: the membership check, then the push.
MentionMember(u) ==
  /\ job.phase = "mentions" /\ job.queue # <<>> /\ u = Head(job.queue)
  /\ LET step == NextMention(u)
         unsure == [step EXCEPT !.failed = @ \cup {u}]
     IN \/ IsSender(u) /\ Proceed(step) /\ UNCHANGED groupVars
        \/ /\ ~IsSender(u)
           /\ \E entry \in Told(job.event.h) :
                /\ GetMembers(job.event.h, entry)
                /\ IF u \in entry.members
                   THEN \E reached \in SUBSET Reachable(u) : NotifyUser(u, reached, step)
                   ELSE Proceed(IF entry.complete THEN step ELSE unsure)
        \/ ~IsSender(u) /\ GetMembersFails(job.event.h) /\ Proceed(unsure)
  /\ UNCHANGED storedVars

\* get_all_users_with_subscriptions, when the mentions are through.
StartScan ==
  /\ job.phase = "mentions" /\ job.queue = <<>>
  /\ Proceed([job EXCEPT !.phase = "scan", !.left = Subscribers])
  /\ UNCHANGED <<groupVars, storedVars>>

-----------------------------------------------------------------------------
\* handle_broadcast_message: the kind and the sender's rights.
CheckBroadcast ==
  /\ job.phase = "broadcast"
  /\ \E admins \in SUBSET Users :
       /\ GetAdmins(job.event.h, admins)
       /\ Proceed([job EXCEPT !.phase =
            IF job.event.kind = "chat" /\ job.event.sender \in admins
            THEN "members" ELSE "finished"])
  /\ UNCHANGED storedVars

FetchAudience ==
  /\ job.phase = "members"
  /\ \E entry \in Told(job.event.h) :
       /\ GetMembers(job.event.h, entry)
       /\ Proceed([job EXCEPT !.phase = "fanout", !.left = entry.members,
                              !.failed = IF entry.complete THEN {} ELSE Users])
  /\ UNCHANGED storedVars

FanOut(u) ==
  /\ job.phase = "fanout" /\ u \in job.left
  /\ LET step == [job EXCEPT !.left = @ \ {u}]
     IN IF IsSender(u) THEN Proceed(step)
        ELSE \E reached \in SUBSET Reachable(u) : NotifyUser(u, reached, step)
  /\ UNCHANGED <<groupVars, storedVars>>

-----------------------------------------------------------------------------
(* check_subscriptions_for_matching_users, one user: subscriptions are     *)
(* taken in the order Redis lists them, up to the first that matches in an *)
(* app with a token.  Those before it in an app without one are dropped,   *)
(* "tried"; a Redis error is ignored, and the manager drops all the same.  *)

Idlers(u) == {s \in Readable(u) : <<u, s.app>> \notin tokens}
Matching(u) == {s \in Readable(u) : <<u, s.app>> \in tokens /\ Matches(s, job.event)}

ScanSkips(u) == IsSender(u) \/ AppsOf(u) = {}

\* Nothing matches, and all subscriptions in apps without a token go.
ScanAll(u, step) ==
  /\ Matching(u) = {}
  /\ Forgotten(Idlers(u))
  /\ \E dropped \in SUBSET Idlers(u) :
       /\ Unsubscribed(dropped)
       /\ Proceed([step EXCEPT !.failed = @ \cup (IF dropped = Idlers(u) THEN {} ELSE {u})])
  /\ UNCHANGED groupVars

\* s is the first match: of an event without a group, or of a member.
ScanNotifies(u, s, reached, step) == NotifyApp(u, s.app, reached, step)

\* Ok(false): the subscription goes when it is for this group only.
ScanRejects(u, s, tried, entry, step) ==
  /\ Drop(tried \cup (IF IsSpecificTo(s, job.event.h) THEN {s} ELSE {}))
  /\ Proceed([step EXCEPT !.failed = @ \cup (IF entry.complete THEN {} ELSE {u})])

ScanMatch(u, s, tried, step) ==
  \/ /\ job.event.h = NoGroup
     /\ UNCHANGED groupVars
     /\ Drop(tried)
     /\ \E reached \in BOOLEAN : ScanNotifies(u, s, reached, step)
  \/ /\ job.event.h # NoGroup
     /\ \E entry \in Told(job.event.h) :
          /\ GetMembers(job.event.h, entry)
          /\ \/ /\ u \in entry.members
                /\ Drop(tried)
                /\ \E reached \in BOOLEAN : ScanNotifies(u, s, reached, step)
             \/ /\ u \notin entry.members
                /\ ScanRejects(u, s, tried, entry, step)
  \/ /\ job.event.h # NoGroup
     /\ GetMembersFails(job.event.h)
     /\ Drop(tried)
     /\ Proceed([step EXCEPT !.failed = @ \cup {u}])

ScanUser(u) ==
  /\ job.phase = "scan" /\ u \in job.left
  /\ LET step == [job EXCEPT !.left = @ \ {u}]
     IN \/ ScanSkips(u) /\ Proceed(step) /\ UNCHANGED <<groupVars, storedVars>>
        \/ /\ ~ScanSkips(u)
           /\ \/ ScanAll(u, step)
              \/ \E tried \in SUBSET Idlers(u), s \in Matching(u) : ScanMatch(u, s, tried, step)

-----------------------------------------------------------------------------
\* handle_custom_subscriptions, after the scan: mentions, unless the event is a group
\* kind or from the history.
Tally ==
  /\ job.phase = "scan" /\ job.left = {} /\ job.event.h = NoGroup
  /\ Proceed([job EXCEPT !.served = Served(job.event),
       !.phase = IF job.event.kind = "other" /\ job.event.live THEN "mentioned" ELSE "finished",
       !.queue = IF job.event.kind = "other" /\ job.event.live THEN job.event.mentions ELSE <<>>])
  /\ UNCHANGED <<groupVars, storedVars>>

MentionAnyone(u) ==
  /\ job.phase = "mentioned" /\ job.queue # <<>> /\ u = Head(job.queue)
  /\ IF IsSender(u) \/ u \in job.served \/ AppsOf(u) = {}
     THEN Proceed(NextMention(u))
     ELSE \E reached \in SUBSET Reachable(u) : NotifyUser(u, reached, NextMention(u))
  /\ UNCHANGED <<groupVars, storedVars>>

\* Mutation: the break leaves the loop over the users, too.
FinishEarly ==
  /\ job.phase = "scan" /\ job.event.h # NoGroup
  /\ Proceed([job EXCEPT !.phase = "finished"])
  /\ UNCHANGED <<groupVars, storedVars>>

\* The loops are through: the handler returns Ok.
Finish ==
  /\ \/ job.phase = "fanout" /\ job.left = {}
     \/ job.phase = "scan" /\ job.left = {} /\ job.event.h # NoGroup
     \/ job.phase \in {"direct", "mentioned"} /\ job.queue = <<>>
  /\ Proceed([job EXCEPT !.phase = "finished"])
  /\ UNCHANGED <<groupVars, storedVars>>

\* The loop of run takes the next event.
Return ==
  /\ job.phase = "finished"
  /\ job' = Idle /\ pushes' = Silence
  /\ UNCHANGED <<groupVars, tokens, storedVars>>

\* A Redis or relay error the handler passes on, or a cancellation.
Abandon ==
  /\ job.phase \notin {"idle", "finished"}
  /\ job' = Idle /\ pushes' = Silence
  /\ UNCHANGED <<groupVars, tokens, storedVars>>

\* The process ends and a new one starts, which restores the manager from Redis
\* (recover_existing_subscriptions).
Restart ==
  /\ ClearCache
  /\ job' = Idle /\ pushes' = Silence
  /\ asked' = {s \in subs \cap Direct : filterAt[KeyOf(s)] # Absent}
  /\ shared' = FiltersOf({s \in subs \cap Direct : filterAt[KeyOf(s)] # Absent})
  /\ UNCHANGED <<tokens, subs, filterAt>>

Environment == Relay /\ UNCHANGED dispatchVars

Next ==
  \/ Environment
  \/ Control
  \/ \E e \in Events : Take(e)
  \/ \E u \in Users : DirectMessage(u) \/ MentionMember(u) \/ FanOut(u) \/ ScanUser(u) \/ MentionAnyone(u)
  \/ StartScan \/ CheckBroadcast \/ FetchAudience \/ Tally \/ Finish
  \/ Return \/ Abandon \/ Restart

Spec == Init /\ [][Next]_vars

-----------------------------------------------------------------------------
OfGroup(e) == e.kind # "direct" /\ e.h # NoGroup /\ ~e.a

\* An answer in use while the handler runs may be as old as t.
Recent(t) == t # Never /\ (t >= job.start \/ t + Lifetime > job.start)

\* A group event is pushed only to users whom the relay's list has named less than
\* Lifetime before the handler began, or since, through cache, time-outs, broadcasts and
\* stored subscriptions alike (README.md, "NIP-29 Group Support").
OnlyMembersHear ==
  [][\A d \in Devices :
       pushes'[d] > pushes[d] /\ OfGroup(job.event) =>
         Recent(listedAt[job.event.h][d[1]])]_vars

\* The author of an event is not notified of it on any path: own mention, own
\* subscription, own broadcast.
SenderHearsNothing ==
  job.phase # "idle" => \A d \in Devices : d[1] = job.event.sender => pushes[d] = 0

\* No other user stores a filter of u's that accepts an event without a group.
OwnFilters(u) ==
  \A s, t \in Subscriptions :
    s.user = u /\ s.h = {} /\ KeyOf(t) = KeyOf(s) => t.user = u

\* A user who is mentioned and has a matching subscription is notified once of an event
\* without a group, although two loops over data read at two times decide on it
\* (handle_custom_subscriptions, processed_users), and the first of them drops data: for a
\* user whose filters nobody else uses.
CustomOnce ==
  job.phase # "idle" /\ job.event.h = NoGroup /\ IsInjective(job.event.mentions) =>
    \A d \in Devices : OwnFilters(d[1]) => pushes[d] <= 1

\* event_handler.rs:1500: "Track which users we've already processed to avoid duplicates".
\* It fails when the scan takes the filter's data on behalf of another user.
NobodyHearsTwice ==
  job.phase # "idle" /\ job.event.h = NoGroup /\ IsInjective(job.event.mentions) =>
    \A d \in Devices : pushes[d] <= 1

\* The list has named the user since before any cache entry in use was made.
Settled(u) == ~Recent(missingAt[job.event.h][u])

Due(u) ==
  /\ u # job.event.sender /\ u \notin job.failed
  /\ OfGroup(job.event) => Settled(u)

Heard(u) == \E d \in Devices : d[1] = u /\ pushes[d] > 0

\* Who is mentioned is to hear in every app he can be reached in.
MentionHeard(u) ==
  u \in Range(job.event.mentions) => \A a \in Reachable(u) : pushes[<<u, a>>] > 0

\* When a handler returns Ok, nobody it owed a push was forgotten, unless the relay, Redis
\* or FCM failed him: who is mentioned in every app, for a direct message in those he asked
\* for it, a subscriber in one of them, and all members or none of a broadcast.
NobodyForgotten ==
  job.phase = "finished" /\ (job.event.kind = "direct" \/ ~job.event.a) =>
    \A u \in Users : Due(u) =>
      /\ job.event.kind = "direct" => MentionHeard(u)
      /\ OfGroup(job.event) /\ job.event.broadcast /\ (\E v \in Users : Heard(v)) =>
           \A a \in AppsOf(u) : pushes[<<u, a>>] > 0
      /\ OfGroup(job.event) /\ ~job.event.broadcast => MentionHeard(u)
      /\ job.event.kind # "direct" /\ ~job.event.broadcast /\ Matching(u) # {} => Heard(u)
      /\ /\ job.event.h = NoGroup /\ job.event.kind = "other" /\ job.event.live
         /\ u \in Range(job.event.mentions) /\ AppsOf(u) # {}
         => Heard(u)

\* The subscription of a device in use is dropped by a scan only if it is for the event's
\* group alone and the relay's list lacked the user recently, or the query was cut short.
RemovedWereOrphans ==
  [][\A s \in subs \ subs' :
       job.phase = "scan" /\ job'.phase = "scan" /\ <<s.user, s.app>> \in tokens =>
         /\ s.h = {job.event.h}
         /\ \/ Recent(missingAt[job.event.h][s.user])
            \/ s.user \in job'.failed]_vars

=============================================================================
