------------------------- MODULE NotificationProofs -------------------------
(* What the loops of Dispatch owe a user, for any users, groups, apps,     *)
(* subscriptions and events: not to notify him twice, and not to forget    *)
(* him, although the data the loops read changes under them.               *)
EXTENDS DispatchProofs

(* The user keeps a filter the second pass will find (processed_users).    *)
KeepsMatch(u) == \E s \in Readable(u) : Matches(s, job.event)

(* Whoever was pushed to does not come up again in the loop at work, and   *)
(* the scan leaves him what marks him as served, or nothing to push to.    *)
Through(u) ==
  /\ job.phase = "direct" => u \notin Range(job.queue)
  /\ job.phase = "scan" => u \notin job.left /\ (AppsOf(u) = {} \/ KeepsMatch(u))
  /\ job.phase = "mentioned" => u \notin Range(job.queue) \/ u \in job.served \/ AppsOf(u) = {}

OnceAtMost(d) == pushes[d] <= 1 /\ (pushes[d] > 0 => Through(d[1]))

Single == job.phase # "idle" /\ job.event.h = NoGroup /\ IsInjective(job.event.mentions)

OnceInv ==
  Single =>
    /\ job.phase \in {"direct", "mentioned"} => IsInjective(job.queue)
    /\ \A d \in Devices : OwnFilters(d[1]) => OnceAtMost(d)

-----------------------------------------------------------------------------
(* Sequences without repetitions: the head is not in the tail.             *)
LEMMA TailDiffers ==
  ASSUME NEW q \in Seq(Users), q # <<>>
  PROVE  /\ Tail(q) \in Seq(Users) /\ Range(Tail(q)) \subseteq Range(q)
         /\ IsInjective(q) => IsInjective(Tail(q)) /\ Head(q) \notin Range(Tail(q))
         /\ Head(q) \in Range(q)
<1>1. /\ Len(q) \in Nat /\ Len(q) > 0 /\ DOMAIN q = 1..Len(q)
      /\ Len(Tail(q)) = Len(q) - 1 /\ DOMAIN Tail(q) = 1..(Len(q) - 1)
      /\ Tail(q) \in Seq(Users) /\ Head(q) = q[1]
      /\ \A i \in 1..(Len(q) - 1) : Tail(q)[i] = q[i + 1]
  OBVIOUS
<1>2. \A i \in DOMAIN Tail(q) : i \in Int /\ i + 1 \in DOMAIN q /\ i + 1 # 1 /\ Tail(q)[i] = q[i + 1]
  BY <1>1
<1>3. 1 \in DOMAIN q
  BY <1>1
<1>4. Range(Tail(q)) \subseteq Range(q) /\ Head(q) \in Range(q)
  BY <1>1, <1>2, <1>3 DEF Range
<1>5. ASSUME IsInjective(q) PROVE IsInjective(Tail(q)) /\ Head(q) \notin Range(Tail(q))
  <2>1. \A i, j \in DOMAIN Tail(q) : Tail(q)[i] = Tail(q)[j] => i = j
    BY <1>2, <1>5 DEF IsInjective
  <2>2. \A i \in DOMAIN Tail(q) : Tail(q)[i] # q[1]
    BY <1>2, <1>3, <1>5 DEF IsInjective
  <2> QED BY <1>1, <2>1, <2>2 DEF IsInjective, Range
<1> QED BY <1>1, <1>4, <1>5

(* A filter of one's own survives the removal of others' subscriptions and *)
(* of one's own in other apps.                                             *)
LEMMA MatchStays ==
  ASSUME TypeOK, NEW u, OwnFilters(u), job.event.h = NoGroup, job'.event = job.event,
         NEW s \in Readable(u), Matches(s, job.event),
         NEW dropped \in SUBSET subs, Unsubscribed(dropped),
         \A t \in dropped : t.user = u => t.app # s.app
  PROVE  KeepsMatch(u)'
<1>1. s \in Subscriptions /\ s.user = u /\ s \in subs
  BY DEF Readable, TypeOK, StoredOK
<1>2. s.h = {}
  BY <1>1, DispatchAssumption DEF Matches
<1>3. \A t \in dropped : KeyOf(t) # KeyOf(s)
  <2> SUFFICES ASSUME NEW t \in dropped, KeyOf(t) = KeyOf(s) PROVE FALSE
    OBVIOUS
  <2>1. t \in Subscriptions /\ t.app = s.app
    BY DEF TypeOK, StoredOK, KeyOf
  <2>2. t.user = u
    BY <1>1, <1>2, <2>1 DEF OwnFilters
  <2> QED BY <2>1, <2>2
<1>4. KeyOf(s) \in FilterKeys
  BY <1>1, DispatchAssumption DEF KeyOf, FilterKeys
<1>5. filterAt'[KeyOf(s)] = filterAt[KeyOf(s)] /\ s \in subs'
  BY <1>1, <1>3, <1>4 DEF Unsubscribed
<1>6. s \in Readable(u)' /\ Matches(s, job.event)'
  BY <1>1, <1>5 DEF Readable, Matches
<1> QED BY <1>6 DEF KeepsMatch

-----------------------------------------------------------------------------
(* One lemma for each loop.                                                *)

(* The loops over mentions: the next one, with or without a push.          *)
Unsure(u) == [NextMention(u) EXCEPT !.failed = @ \cup {u}]

MentionTurn(u) ==
  /\ job'.event = job.event /\ job'.phase = job.phase /\ job'.start = job.start
  /\ job'.queue = Tail(job.queue) /\ job'.served = job.served
  /\ job.failed \subseteq job'.failed /\ tokens' = tokens
  /\ \A d \in Devices : \/ pushes'[d] = pushes[d]
                        \/ d[1] = u /\ pushes'[d] = pushes[d] + 1

LEMMA NextMentionKeeps ==
  ASSUME TypeOK, NEW u \in Users, job.queue # <<>>,
         NEW F, job' = [NextMention(u) EXCEPT !.failed = @ \cup F]
  PROVE  /\ job'.event = job.event /\ job'.phase = job.phase /\ job'.start = job.start
         /\ job'.queue = Tail(job.queue) /\ job'.served = job.served
         /\ job'.failed = job.failed \cup F
<1>1. job.queue \in Seq(Users) /\ Tail(job.queue) \in Seq(Users)
  BY TailDiffers DEF TypeOK, JobOK, Jobs
<1> QED BY <1>1 DEF NextMention, TypeOK, JobOK, Jobs

LEMMA NotifyTurn ==
  ASSUME TypeOK, NEW u \in Users, job.queue # <<>>,
         NEW reached, NotifyUser(u, reached, NextMention(u))
  PROVE  /\ MentionTurn(u)
         /\ u \in job'.failed \/ \A a \in Reachable(u) : pushes'[<<u, a>>] > 0
<1>1. /\ tokens' = tokens
      /\ job' = [NextMention(u) EXCEPT !.failed = @ \cup (IF reached = Reachable(u) THEN {} ELSE {u})]
  BY DEF NotifyUser
<1>2. \A d \in Devices : pushes'[d] = pushes[d] + (IF d[1] = u /\ d[2] \in reached THEN 1 ELSE 0)
  BY DEF NotifyUser
<1>3. \A d \in Devices : pushes[d] \in Nat
  BY DEF TypeOK
<1>4. MentionTurn(u)
  BY <1>1, <1>2, <1>3, NextMentionKeeps DEF MentionTurn
<1>5. CASE reached = Reachable(u)
  <2> SUFFICES ASSUME NEW a \in Reachable(u) PROVE pushes'[<<u, a>>] > 0
    BY <1>4
  <2>1. <<u, a>> \in Devices
    BY DEF Reachable, AppsOf, TypeOK
  <2> QED BY <1>2, <1>3, <1>5, <2>1
<1>6. CASE reached # Reachable(u)
  BY <1>1, <1>4, <1>6, NextMentionKeeps
<1> QED BY <1>4, <1>5, <1>6

LEMMA UnsureTurn ==
  ASSUME TypeOK, NEW u \in Users, job.queue # <<>>, Proceed(Unsure(u))
  PROVE  MentionTurn(u) /\ u \in job'.failed
<1>1. job' = [NextMention(u) EXCEPT !.failed = @ \cup {u}] /\ UNCHANGED <<tokens, pushes>>
  BY DEF Proceed, Unsure
<1> QED BY <1>1, NextMentionKeeps DEF MentionTurn

LEMMA MentionEffect ==
  ASSUME TypeOK, NEW u \in Users, job.queue # <<>>,
         \/ Proceed(NextMention(u)) \/ Proceed(Unsure(u))
         \/ \E reached : NotifyUser(u, reached, NextMention(u))
  PROVE  MentionTurn(u)
<1>1. CASE Proceed(NextMention(u))
  <2>1. job' = [NextMention(u) EXCEPT !.failed = @ \cup {}] /\ UNCHANGED <<tokens, pushes>>
    BY <1>1 DEF Proceed, NextMention, TypeOK, JobOK, Jobs
  <2> QED BY <2>1, NextMentionKeeps DEF MentionTurn
<1> QED BY <1>1, NotifyTurn, UnsureTurn

LEMMA DirectOnce ==
  ASSUME DispatchInv, OnceInv, NEW u \in Users, DirectMessage(u) PROVE OnceInv'
<1>1. /\ TypeOK /\ job.phase = "direct" /\ job.queue \in Seq(Users) /\ job.queue # <<>>
      /\ u = Head(job.queue)
      /\ Proceed(NextMention(u)) \/ \E reached : NotifyUser(u, reached, NextMention(u))
  BY DEF DirectMessage, DispatchInv, TypeOK, JobOK, Jobs
<1>2. /\ job'.event = job.event /\ job'.phase = "direct" /\ job'.queue = Tail(job.queue)
      /\ \A d \in Devices : \/ pushes'[d] = pushes[d]
                            \/ d[1] = u /\ pushes'[d] = pushes[d] + 1
  BY <1>1, MentionEffect DEF MentionTurn
<1> SUFFICES ASSUME Single' PROVE /\ IsInjective(job'.queue)
                                  /\ \A d \in Devices : OwnFilters(d[1]) => OnceAtMost(d)'
  BY DEF OnceInv
<1>3. Single
  BY <1>1, <1>2 DEF Single
<1>4. /\ IsInjective(job.queue) /\ IsInjective(job'.queue) /\ u \notin Range(job'.queue)
      /\ u \in Range(job.queue) /\ Range(job'.queue) \subseteq Range(job.queue)
  BY <1>1, <1>2, <1>3, TailDiffers DEF OnceInv
<1>5. ASSUME NEW d \in Devices, OwnFilters(d[1]) PROVE OnceAtMost(d)'
  <2>1. OnceAtMost(d) /\ pushes[d] \in Nat
    BY <1>1, <1>3, <1>5 DEF OnceInv, TypeOK
  <2> QED BY <1>1, <1>2, <1>4, <2>1 DEF OnceAtMost, Through
<1> QED BY <1>4, <1>5

LEMMA MentionAnyoneOnce ==
  ASSUME DispatchInv, OnceInv, NEW u \in Users, MentionAnyone(u) PROVE OnceInv'
<1>1. /\ TypeOK /\ job.phase = "mentioned" /\ job.queue \in Seq(Users) /\ job.queue # <<>>
      /\ u = Head(job.queue)
      /\ Proceed(NextMention(u)) \/ \E reached : NotifyUser(u, reached, NextMention(u))
  BY DEF MentionAnyone, DispatchInv, TypeOK, JobOK, Jobs
<1>2. /\ job'.event = job.event /\ job'.phase = "mentioned" /\ job'.queue = Tail(job.queue)
      /\ job'.served = job.served /\ tokens' = tokens
      /\ \A d \in Devices : \/ pushes'[d] = pushes[d]
                            \/ d[1] = u /\ pushes'[d] = pushes[d] + 1
  BY <1>1, MentionEffect DEF MentionTurn
<1> SUFFICES ASSUME Single' PROVE /\ IsInjective(job'.queue)
                                  /\ \A d \in Devices : OwnFilters(d[1]) => OnceAtMost(d)'
  BY DEF OnceInv
<1>3. Single
  BY <1>1, <1>2 DEF Single
<1>4. /\ IsInjective(job.queue) /\ IsInjective(job'.queue) /\ u \notin Range(job'.queue)
      /\ u \in Range(job.queue) /\ Range(job'.queue) \subseteq Range(job.queue)
  BY <1>1, <1>2, <1>3, TailDiffers DEF OnceInv
<1>5. (u \in job.served \/ AppsOf(u) = {}) => pushes' = pushes
  BY <1>1 DEF MentionAnyone, Proceed
<1>6. \A v : AppsOf(v)' = AppsOf(v)
  BY <1>2 DEF AppsOf
<1>7. ASSUME NEW d \in Devices, OwnFilters(d[1]) PROVE OnceAtMost(d)'
  <2>1. OnceAtMost(d) /\ pushes[d] \in Nat
    BY <1>1, <1>3, <1>7 DEF OnceInv, TypeOK
  <2> QED BY <1>1, <1>2, <1>4, <1>5, <1>6, <2>1 DEF OnceAtMost, Through
<1> QED BY <1>4, <1>7

(* No step inside a handler changes the event.                             *)
LEMMA EventStays ==
  ASSUME TypeOK,
         \/ \E u \in Users : MentionMember(u) \/ FanOut(u) \/ ScanUser(u)
         \/ StartScan \/ CheckBroadcast \/ FetchAudience \/ Tally \/ Finish
  PROVE  job'.event = job.event
<1>1. job \in Jobs
  BY DEF TypeOK, JobOK
<1>2. ASSUME NEW step \in Jobs, NEW F, job' = [step EXCEPT !.failed = F]
      PROVE  job'.event = step.event
  BY <1>2 DEF Jobs
<1>3. ASSUME NEW u \in Users, MentionMember(u) PROVE job'.event = job.event
  <2> DEFINE step == NextMention(u)
  <2>1. step \in Jobs /\ step.event = job.event
    BY <1>1, <1>3, TailDiffers DEF MentionMember, NextMention, Jobs
  <2> HIDE DEF step
  <2>2. \/ job' = step
        \/ \E F : job' = [step EXCEPT !.failed = F]
    BY <1>3 DEF MentionMember, Proceed, NotifyUser, step
  <2> QED BY <1>2, <2>1, <2>2
<1>4. ASSUME NEW u \in Users, FanOut(u) \/ ScanUser(u) PROVE job'.event = job.event
  <2> DEFINE step == [job EXCEPT !.left = @ \ {u}]
  <2>1. step \in Jobs /\ step.event = job.event
    BY <1>1 DEF Jobs
  <2> HIDE DEF step
  <2>2. \/ job' = step
        \/ \E F : job' = [step EXCEPT !.failed = F]
    BY <1>4 DEF FanOut, ScanUser, ScanAll, ScanMatch, ScanNotifies, ScanRejects, Proceed,
                NotifyUser, NotifyApp, step
  <2> QED BY <1>2, <2>1, <2>2
<1>5. CASE StartScan \/ FetchAudience \/ Tally \/ Finish
  BY <1>1, <1>5 DEF StartScan, FetchAudience, Tally, Finish, Proceed, Jobs
<1>6. CASE CheckBroadcast
  BY <1>1, <1>6 DEF CheckBroadcast, Proceed, Jobs
<1> QED BY <1>3, <1>4, <1>5, <1>6

(* The scan of one user, for an event without a group: what it drops are   *)
(* his subscriptions in apps without a token, and it pushes only for a     *)
(* match in an app with one.                                               *)
LEMMA ScanEffect ==
  ASSUME DispatchInv, NEW u \in Users, ScanUser(u), job.event.h = NoGroup
  PROVE  /\ job'.event = job.event /\ job'.phase = "scan" /\ job'.left = job.left \ {u}
         /\ tokens' \subseteq tokens
         /\ \/ UNCHANGED storedVars
            \/ \E dropped \in SUBSET Idlers(u) : Unsubscribed(dropped)
         /\ \/ pushes' = pushes
            \/ \E s \in Matching(u) : \A d \in Devices :
                 pushes'[d] = pushes[d] \/ (d[1] = u /\ pushes'[d] = pushes[d] + 1)
<1> DEFINE step == [job EXCEPT !.left = @ \ {u}]
<1>1. TypeOK /\ step \in Jobs
      /\ step.event = job.event /\ step.phase = "scan" /\ step.left = job.left \ {u}
  BY DEF ScanUser, DispatchInv, TypeOK, JobOK, Jobs
<1> HIDE DEF step
<1> DEFINE Goal ==
      /\ job'.event = job.event /\ job'.phase = "scan" /\ job'.left = job.left \ {u}
      /\ tokens' \subseteq tokens
      /\ \/ UNCHANGED storedVars
         \/ \E dropped \in SUBSET Idlers(u) : Unsubscribed(dropped)
      /\ \/ pushes' = pushes
         \/ \E s \in Matching(u) : \A d \in Devices :
              pushes'[d] = pushes[d] \/ (d[1] = u /\ pushes'[d] = pushes[d] + 1)
<1>2. CASE Proceed(step) /\ UNCHANGED storedVars
  BY <1>1, <1>2 DEF Proceed
<1>3. CASE ScanAll(u, step)
  <2> PICK dropped \in SUBSET Idlers(u) :
        /\ Unsubscribed(dropped)
        /\ Proceed([step EXCEPT !.failed = @ \cup (IF dropped = Idlers(u) THEN {} ELSE {u})])
    BY <1>3 DEF ScanAll
  <2>1. job'.event = step.event /\ job'.phase = step.phase /\ job'.left = step.left
    BY <1>1 DEF Proceed, Jobs
  <2> QED BY <1>1, <2>1 DEF Proceed
<1>4. ASSUME NEW tried \in SUBSET Idlers(u), NEW s \in Matching(u), ScanMatch(u, s, tried, step)
      PROVE  Goal
  <2>1. PICK reached \in BOOLEAN : Drop(tried) /\ ScanNotifies(u, s, reached, step)
    BY <1>4 DEF ScanMatch
  <2>2. PICK dropped \in SUBSET Idlers(u) : Unsubscribed(dropped)
    BY <2>1 DEF Drop
  <2>3. /\ job'.event = step.event /\ job'.phase = step.phase /\ job'.left = step.left
        /\ tokens' \subseteq tokens
    BY <1>1, <2>1 DEF ScanNotifies, NotifyApp, Jobs
  <2>4. ASSUME NEW d \in Devices
        PROVE  pushes'[d] = pushes[d] \/ (d[1] = u /\ pushes'[d] = pushes[d] + 1)
    <3>1. pushes' = [pushes EXCEPT ![<<u, s.app>>] = @ + (IF reached THEN 1 ELSE 0)]
      BY <2>1 DEF ScanNotifies, NotifyApp
    <3> QED BY <1>1, <3>1 DEF TypeOK
  <2> QED BY <1>1, <2>2, <2>3, <2>4
<1> QED BY <1>2, <1>3, <1>4 DEF ScanUser, step

LEMMA ScanOnce ==
  ASSUME DispatchInv, OnceInv, NEW u \in Users, ScanUser(u) PROVE OnceInv'
<1>1. /\ TypeOK /\ job.phase = "scan" /\ u \in job.left
  BY DEF ScanUser, DispatchInv
<1>2. job'.event = job.event
  BY <1>1, EventStays
<1> SUFFICES ASSUME Single' PROVE /\ job'.phase = "scan"
                                  /\ \A d \in Devices : OwnFilters(d[1]) => OnceAtMost(d)'
  BY DEF OnceInv
<1>3. Single
  BY <1>1, <1>2 DEF Single
<1>4. /\ job'.phase = "scan" /\ job'.left = job.left \ {u} /\ tokens' \subseteq tokens
      /\ \/ UNCHANGED storedVars
         \/ \E dropped \in SUBSET Idlers(u) : Unsubscribed(dropped)
      /\ \/ pushes' = pushes
         \/ \E s \in Matching(u) : \A d \in Devices :
              pushes'[d] = pushes[d] \/ (d[1] = u /\ pushes'[d] = pushes[d] + 1)
  BY <1>3, ScanEffect DEF Single
<1>5. \A v : AppsOf(v) = {} => AppsOf(v)' = {}
  BY <1>4 DEF AppsOf
<1>6. ASSUME NEW v, OwnFilters(v), NEW s \in Readable(v), Matches(s, job.event),
             v # u \/ <<u, s.app>> \in tokens
      PROVE  KeepsMatch(v)'
  <2>1. CASE UNCHANGED storedVars
    BY <1>2, <1>6, <2>1 DEF KeepsMatch, Readable, Matches, storedVars
  <2>2. ASSUME NEW dropped \in SUBSET Idlers(u), Unsubscribed(dropped)
        PROVE  KeepsMatch(v)'
    <3>1. /\ dropped \in SUBSET subs
          /\ \A t \in dropped : t.user = v => t.app # s.app
      BY <1>6, <2>2 DEF Idlers, Readable
    <3> QED BY <1>1, <1>2, <1>3, <1>6, <2>2, <3>1, MatchStays DEF Single
  <2> QED BY <1>4, <2>1, <2>2
<1>7. ASSUME NEW d \in Devices, OwnFilters(d[1]) PROVE OnceAtMost(d)'
  <2>1. OnceAtMost(d) /\ pushes[d] \in Nat
    BY <1>1, <1>3, <1>7 DEF OnceInv, TypeOK
  <2>2. CASE d[1] = u
    <3>1. pushes[d] = 0
      BY <1>1, <2>1, <2>2 DEF OnceAtMost, Through
    <3>2. CASE pushes' = pushes
      BY <3>1, <3>2 DEF OnceAtMost
    <3>3. ASSUME NEW s \in Matching(u), pushes'[d] = pushes[d] \/ pushes'[d] = pushes[d] + 1
          PROVE  OnceAtMost(d)'
      <4>1. KeepsMatch(u)'
        BY <1>6, <1>7, <2>2, <3>3 DEF Matching
      <4> QED BY <1>4, <2>2, <3>1, <3>3, <4>1 DEF OnceAtMost, Through
    <3> QED BY <1>4, <3>2, <3>3
  <2>3. CASE d[1] # u
    <3>1. pushes'[d] = pushes[d]
      BY <1>4, <2>3
    <3>2. KeepsMatch(d[1]) => KeepsMatch(d[1])'
      BY <1>6, <1>7, <2>3 DEF KeepsMatch
    <3> QED BY <1>1, <1>4, <1>5, <2>1, <3>1, <3>2 DEF OnceAtMost, Through
  <2> QED BY <2>2, <2>3
<1> QED BY <1>4, <1>7

(* Between the passes: whoever heard has been served, or has no token.     *)
LEMMA TallyOnce ==
  ASSUME DispatchInv, OnceInv, Tally PROVE OnceInv'
<1>1. /\ TypeOK /\ job \in Jobs /\ job.phase = "scan" /\ job.event.h = NoGroup
      /\ UNCHANGED <<tokens, pushes>>
  BY DEF Tally, Proceed, DispatchInv, TypeOK, JobOK
<1>2. /\ job'.event = job.event /\ job'.served = Served(job.event)
      /\ job'.phase \in {"mentioned", "finished"}
      /\ job'.phase = "mentioned" => job'.queue = job.event.mentions
  BY <1>1 DEF Tally, Proceed, Jobs
<1> SUFFICES ASSUME Single'
             PROVE  /\ job'.phase = "mentioned" => IsInjective(job'.queue)
                    /\ \A d \in Devices : OwnFilters(d[1]) => OnceAtMost(d)'
  BY <1>2 DEF OnceInv
<1>3. Single /\ IsInjective(job.event.mentions)
  BY <1>1, <1>2 DEF Single
<1>4. \A v : AppsOf(v)' = AppsOf(v)
  BY <1>1 DEF AppsOf
<1>5. ASSUME NEW d \in Devices, OwnFilters(d[1]) PROVE OnceAtMost(d)'
  <2>1. OnceAtMost(d)
    BY <1>3, <1>5 DEF OnceInv
  <2>2. KeepsMatch(d[1]) /\ AppsOf(d[1]) # {} => d[1] \in Served(job.event)
    BY DEF KeepsMatch, Served, Subscribers, Readable
  <2> QED BY <1>1, <1>2, <1>4, <2>1, <2>2 DEF OnceAtMost, Through
<1> QED BY <1>2, <1>3, <1>5

LEMMA TakeOnce ==
  ASSUME DispatchInv, NEW e \in Events, Take(e) PROVE OnceInv'
<1>1. job'.event = e /\ pushes' = Silence
  BY DEF Take, DispatchInv, Quiet, Idle
<1>2. job'.phase = "direct" => job'.queue = e.mentions
  BY DEF Take, Idle
<1>3. job'.phase # "mentioned"
  BY DEF Take, Idle, FirstPhase
<1> QED BY <1>1, <1>2, <1>3 DEF OnceInv, Single, OnceAtMost, Silence

LEMMA FinishOnce ==
  ASSUME DispatchInv, OnceInv, Finish PROVE OnceInv'
<1>1. job'.phase = "finished" /\ job'.event = job.event /\ pushes' = pushes
  BY EventStays DEF Finish, Proceed, DispatchInv, TypeOK, JobOK, Jobs
<1>2. job.phase # "idle"
  BY DEF Finish
<1> QED BY <1>1, <1>2 DEF OnceInv, Single, OnceAtMost, Through

(* The loops over members are for events of a group.                       *)
LEMMA GroupOnce ==
  ASSUME DispatchInv,
         \/ \E u \in Users : MentionMember(u) \/ FanOut(u)
         \/ StartScan \/ CheckBroadcast \/ FetchAudience
  PROVE  OnceInv'
<1>1. job.event.h # NoGroup
  BY DEF DispatchInv, Routed, MentionMember, FanOut, StartScan, CheckBroadcast, FetchAudience
<1>2. job'.event = job.event
  BY EventStays DEF DispatchInv
<1> QED BY <1>1, <1>2 DEF OnceInv, Single

(* The relay changes nothing a handler has read.                           *)
LEMMA UnchangedOnce ==
  ASSUME OnceInv, UNCHANGED dispatchVars PROVE OnceInv'
  BY DEF OnceInv, Single, OnceAtMost, Through, KeepsMatch, Readable, Matches, AppsOf,
         dispatchVars, storedVars

LEMMA IdleOnce ==
  ASSUME job'.phase = "idle" PROVE OnceInv'
  BY DEF OnceInv, Single

LEMMA OnceStep == DispatchInv /\ OnceInv /\ [Next]_vars => OnceInv'
<1> SUFFICES ASSUME DispatchInv, OnceInv, [Next]_vars PROVE OnceInv'
  OBVIOUS
<1>1. CASE UNCHANGED vars \/ Environment
  BY <1>1, UnchangedOnce DEF vars, Environment
<1>2. CASE Control
  <2>1. job'.phase = "idle"
    BY <1>2 DEF Control, Register, Deregister, Upsert, Unsubscribe
  <2> QED BY <2>1, IdleOnce
<1>3. CASE Return \/ Abandon \/ Restart
  BY <1>3, IdleOnce DEF Return, Abandon, Restart, Idle
<1> QED BY <1>1, <1>2, <1>3, TakeOnce, DirectOnce, ScanOnce, MentionAnyoneOnce, TallyOnce,
           FinishOnce, GroupOnce DEF Next

-----------------------------------------------------------------------------
(* Nobody is forgotten.  What is left to do for a user says where in its   *)
(* loop the handler is.                                                    *)

Path ==
  /\ job.phase \in {"mentions", "scan", "broadcast", "members", "fanout", "mentioned"} =>
       job.event.kind # "direct" /\ ~job.event.a
  /\ job.phase = "mentions" => ~job.event.broadcast
  /\ job.phase \in {"broadcast", "members", "fanout"} => job.event.broadcast
  /\ job.phase = "scan" /\ job.event.h # NoGroup => ~job.event.broadcast
  /\ job.phase \in {"broadcast", "members"} => \A u \in Users : ~Heard(u)

Reached(u) == \A a \in Reachable(u) : pushes[<<u, a>>] > 0

(* The scan is through with the user: no filter of his is left to match.   *)
Answered(u) ==
  \/ Heard(u)
  \/ AppsOf(u) = {}
  \/ \A s \in Readable(u) : ~Matches(s, job.event)

Concluded(u) ==
  /\ job.event.kind = "direct" => MentionHeard(u)
  /\ OfGroup(job.event) /\ job.event.broadcast /\ (\E v \in Users : Heard(v)) =>
       \A a \in AppsOf(u) : pushes[<<u, a>>] > 0
  /\ OfGroup(job.event) /\ ~job.event.broadcast => MentionHeard(u)
  /\ job.event.kind # "direct" /\ ~job.event.broadcast /\ Matching(u) # {} => Heard(u)
  /\ /\ job.event.h = NoGroup /\ job.event.kind = "other" /\ job.event.live
     /\ u \in Range(job.event.mentions) /\ AppsOf(u) # {}
     => Heard(u)

Duty(u) ==
  /\ job.phase \in {"direct", "mentions"} =>
       (u \in Range(job.event.mentions) => u \in Range(job.queue) \/ Reached(u))
  /\ job.phase = "fanout" =>
       (u \notin job.left => \A a \in AppsOf(u) : pushes[<<u, a>>] > 0)
  /\ job.phase = "scan" =>
       /\ job.event.h # NoGroup => MentionHeard(u)
       /\ u \notin job.left => Answered(u)
  /\ job.phase = "mentioned" =>
       /\ Answered(u)
       /\ u \in job.served => Heard(u)
       /\ u \in Range(job.event.mentions) =>
            u \in Range(job.queue) \/ AppsOf(u) = {} \/ Heard(u)
  /\ job.phase = "finished" /\ (job.event.kind = "direct" \/ ~job.event.a) => Concluded(u)

DutyInv == Path /\ \A u \in Users : Due(u) => Duty(u)

-----------------------------------------------------------------------------
(* What a step inside a handler never takes back.                          *)
Onward ==
  /\ GroupStep /\ job'.event = job.event /\ job'.start = job.start
  /\ job.failed \subseteq job'.failed /\ tokens' \subseteq tokens
  /\ \A d \in Devices : pushes'[d] >= pushes[d]

Persists(u) ==
  /\ Due(u)
  /\ AppsOf(u)' \subseteq AppsOf(u)
  /\ \A a \in AppsOf(u) : pushes[<<u, a>>] > 0 => pushes'[<<u, a>>] > 0

LEMMA HeardStays ==
  ASSUME TypeOK, pushes' \in [Devices -> Nat], \A d \in Devices : pushes'[d] >= pushes[d],
         NEW u, Heard(u)
  PROVE  Heard(u)'
<1>1. PICK d \in Devices : d[1] = u /\ pushes[d] > 0
  BY DEF Heard
<1>2. pushes[d] \in Nat /\ pushes'[d] \in Nat /\ pushes'[d] >= pushes[d]
  BY DEF TypeOK
<1> QED BY <1>1, <1>2 DEF Heard

LEMMA DueBefore ==
  ASSUME DispatchInv, DispatchInv', job.phase # "idle", GroupStep,
         job'.event = job.event, job'.start = job.start, job.failed \subseteq job'.failed,
         NEW u \in Users, Due(u)'
  PROVE  Due(u)
<1>1. u # job.event.sender /\ u \notin job.failed
  BY DEF Due
<1>2. ASSUME OfGroup(job.event), Recent(missingAt[job.event.h][u]) PROVE FALSE
  <2>1. job.event.h \in Groups /\ TypeOK
    BY <1>2, EventInWork DEF OfGroup, DispatchInv
  <2>2. /\ now' \in Nat /\ now' >= now /\ now \in Nat
        /\ \/ missingAt'[job.event.h][u] = missingAt[job.event.h][u]
           \/ missingAt'[job.event.h][u] = now'
    BY <2>1, HistoryGrows DEF DispatchInv, TypeOK, GroupTypeOK
  <2>3. job.start \in Nat /\ job.start <= now
    BY DEF DispatchInv, TypeOK, JobOK, Jobs
  <2>4. Recent(missingAt[job.event.h][u])'
    BY <1>2, <2>2, <2>3 DEF Recent, Never
  <2> QED BY <1>2, <2>4 DEF Due, Settled, OfGroup
<1> QED BY <1>1, <1>2 DEF Due, Settled

LEMMA Persistence ==
  ASSUME DispatchInv, DispatchInv', job.phase # "idle", Onward, NEW u \in Users, Due(u)'
  PROVE  Persists(u) /\ \A v : Heard(v) => Heard(v)'
<1>1. Due(u)
  BY DueBefore DEF Onward
<1>2. AppsOf(u)' \subseteq AppsOf(u)
  BY DEF Onward, AppsOf
<1>3. \A a \in AppsOf(u) : /\ <<u, a>> \in Devices
                           /\ pushes[<<u, a>>] \in Nat /\ pushes'[<<u, a>>] \in Nat
                           /\ pushes'[<<u, a>>] >= pushes[<<u, a>>]
  BY DEF DispatchInv, TypeOK, AppsOf, Onward
<1>4. \A v : Heard(v) => Heard(v)'
  BY HeardStays DEF DispatchInv, TypeOK, Onward
<1> QED BY <1>1, <1>2, <1>3, <1>4 DEF Persists

(* Stored subscriptions are only dropped.                                  *)
Dwindles == UNCHANGED storedVars \/ \E dropped : Unsubscribed(dropped)

LEMMA ReadableBefore ==
  ASSUME TypeOK, Dwindles, job'.event = job.event, NEW u, NEW s \in Readable(u)'
  PROVE  s \in Readable(u) /\ (Matches(s, job.event)' => Matches(s, job.event))
<1>1. CASE UNCHANGED storedVars
  BY <1>1 DEF storedVars, Readable, Matches
<1>2. ASSUME NEW dropped, Unsubscribed(dropped)
      PROVE  s \in Readable(u) /\ (Matches(s, job.event)' => Matches(s, job.event))
  <2>1. s \in subs /\ s \in Subscriptions /\ s.user = u /\ filterAt'[KeyOf(s)] # Absent
    BY <1>2 DEF Readable, Unsubscribed, TypeOK, StoredOK
  <2>2. KeyOf(s) \in FilterKeys
    BY <2>1, DispatchAssumption DEF KeyOf, FilterKeys
  <2>3. filterAt'[KeyOf(s)] = filterAt[KeyOf(s)]
    BY <1>2, <2>1, <2>2 DEF Unsubscribed
  <2> QED BY <2>1, <2>3 DEF Readable, Matches
<1> QED BY <1>1, <1>2 DEF Dwindles

LEMMA AnsweredStays ==
  ASSUME DispatchInv, DispatchInv', job.phase # "idle", Onward, Dwindles,
         NEW u \in Users, Due(u)', Answered(u)
  PROVE  Answered(u)'
<1>1. Persists(u) /\ (Heard(u) => Heard(u)')
  BY Persistence
<1>2. AppsOf(u) = {} => AppsOf(u)' = {}
  BY <1>1 DEF Persists
<1>3. ASSUME \A s \in Readable(u) : ~Matches(s, job.event)
      PROVE  \A s \in Readable(u)' : ~Matches(s, job.event)'
  BY <1>3, ReadableBefore DEF DispatchInv, Onward
<1> QED BY <1>1, <1>2, <1>3 DEF Answered

LEMMA MentionHeardStays ==
  ASSUME DispatchInv, DispatchInv', job.phase # "idle", Onward, job.event.kind # "direct",
         NEW u \in Users, Due(u)', MentionHeard(u)
  PROVE  MentionHeard(u)'
<1>1. Persists(u)
  BY Persistence
<1>2. Reachable(u) = AppsOf(u) /\ Reachable(u)' = AppsOf(u)'
  BY DEF Reachable, Gate, Onward, AppsOf
<1> QED BY <1>1, <1>2 DEF MentionHeard, Persists, Onward

-----------------------------------------------------------------------------
(* One lemma for each step.                                                *)

LEMMA RangeTail ==
  ASSUME NEW q \in Seq(Users), q # <<>>, NEW u \in Range(q), u # Head(q)
  PROVE  u \in Range(Tail(q))
<1>1. PICK i \in 1..Len(q) : q[i] = u
  BY DEF Range
<1>2. i \in Int /\ i # 1 /\ Head(q) = q[1] /\ Len(q) \in Nat
  BY <1>1
<1>3. /\ i - 1 \in 1..(Len(q) - 1) /\ DOMAIN Tail(q) = 1..(Len(q) - 1)
      /\ Tail(q)[i - 1] = q[i]
  BY <1>2
<1> QED BY <1>1, <1>3 DEF Range

LEMMA TurnIsOnward ==
  ASSUME TypeOK, GroupStep, NEW u, MentionTurn(u) PROVE Onward
<1>1. \A d \in Devices : pushes[d] \in Nat
  BY DEF TypeOK
<1> QED BY <1>1 DEF MentionTurn, Onward

LEMMA MentionDuty ==
  ASSUME DispatchInv, DispatchInv', DutyInv, NEW u \in Users,
         DirectMessage(u) \/ MentionMember(u)
  PROVE  DutyInv'
<1>1. /\ TypeOK /\ job.phase \in {"direct", "mentions"}
      /\ job.queue \in Seq(Users) /\ job.queue # <<>> /\ u = Head(job.queue)
      /\ UNCHANGED storedVars /\ GroupStep
  <2>1. job.phase = "mentions" => job.event.h \in Groups
    BY EventInWork DEF DispatchInv, Routed
  <2> QED BY <2>1 DEF DirectMessage, MentionMember, DispatchInv, TypeOK, JobOK, Jobs, GroupStep,
                      GetMembersFails
<1>2. \/ Proceed(NextMention(u)) \/ Proceed(Unsure(u))
      \/ \E reached : NotifyUser(u, reached, NextMention(u))
  BY DEF DirectMessage, MentionMember, Unsure
<1>3. MentionTurn(u)
  BY <1>1, <1>2, MentionEffect
<1>4. Onward
  BY <1>1, <1>3, TurnIsOnward
<1>5. Path'
  BY <1>1, <1>3 DEF Path, MentionTurn, DutyInv
<1>6. ASSUME NEW v \in Users, Due(v)' PROVE Duty(v)'
  <2>1. Persists(v)
    BY <1>1, <1>4, <1>6, Persistence
  <2>2. Reachable(v)' \subseteq Reachable(v) /\ Reachable(v) \subseteq AppsOf(v)
    BY <1>1, <1>3, <2>1 DEF Reachable, Gate, Persists, MentionTurn, storedVars
  <2> SUFFICES ASSUME v \in Range(job.event.mentions), v \notin Range(job'.queue)
               PROVE  Reached(v)'
    BY <1>1, <1>3 DEF Duty, MentionTurn
  <2>3. CASE v # u
    <3>1. v \notin Range(job.queue)
      BY <1>1, <1>3, <2>3, RangeTail DEF MentionTurn
    <3>2. Reached(v)
      BY <1>1, <2>1, <3>1 DEF DutyInv, Duty, Persists
    <3> QED BY <2>1, <2>2, <3>2 DEF Reached, Persists
  <2>4. CASE v = u
    <3>1. ~IsSender(u) /\ u \notin job'.failed
      BY <1>6, <2>1, <2>4 DEF Persists, Due, IsSender
    <3>2. CASE \E reached : NotifyUser(u, reached, NextMention(u))
      BY <1>1, <2>2, <2>4, <3>1, <3>2, NotifyTurn DEF Reached
    <3>3. CASE Proceed(Unsure(u))
      BY <1>1, <3>1, <3>3, UnsureTurn
    <3>4. ASSUME MentionMember(u), NEW entry \in Told(job.event.h),
                 u \notin entry.members, entry.complete
          PROVE  FALSE
      <4>1. OfGroup(job.event) /\ job.event.h \in Groups
        BY <1>1, <3>4, EventInWork DEF DutyInv, Path, OfGroup, MentionMember, DispatchInv, Routed
      <4>2. Recent(missingAt[job.event.h][u])
        BY <3>4, <4>1, LeftOutIsRecent
      <4> QED BY <2>1, <2>4, <4>1, <4>2 DEF Persists, Due, Settled
    <3>5. CASE DirectMessage(u)
      BY <3>1, <3>2, <3>5 DEF DirectMessage
    <3>6. CASE MentionMember(u)
      BY <3>1, <3>2, <3>3, <3>4, <3>6 DEF MentionMember, Unsure
    <3> QED BY <3>5, <3>6
  <2> QED BY <2>3, <2>4
<1> QED BY <1>5, <1>6 DEF DutyInv

LEMMA FanOutDuty ==
  ASSUME DispatchInv, DispatchInv', DutyInv, NEW u \in Users, FanOut(u) PROVE DutyInv'
<1> DEFINE step == [job EXCEPT !.left = @ \ {u}]
<1>1. /\ TypeOK /\ job \in Jobs /\ job.phase = "fanout" /\ u \in job.left
      /\ job.event.kind # "direct" /\ GroupStep
      /\ \A d \in Devices : pushes[d] \in Nat
  BY DEF FanOut, DispatchInv, TypeOK, JobOK, GroupStep, DutyInv, Path
<1>2. /\ step \in Jobs /\ step.event = job.event /\ step.phase = "fanout"
      /\ step.start = job.start /\ step.left = job.left \ {u} /\ step.failed = job.failed
  BY <1>1 DEF Jobs
<1> HIDE DEF step
<1>3. /\ job'.event = job.event /\ job'.phase = "fanout" /\ job'.start = job.start
      /\ job'.left = job.left \ {u} /\ job.failed \subseteq job'.failed /\ tokens' = tokens
      /\ \A d \in Devices : pushes'[d] >= pushes[d]
      /\ ~IsSender(u) => u \in job'.failed \/ \A a \in Reachable(u) : pushes'[<<u, a>>] > 0
  <2>1. CASE IsSender(u)
    <3>1. job' = step /\ UNCHANGED <<tokens, pushes>>
      BY <2>1 DEF FanOut, Proceed, step
    <3> QED BY <1>1, <1>2, <2>1, <3>1
  <2>2. CASE ~IsSender(u)
    <3>1. PICK reached : NotifyUser(u, reached, step)
      BY <2>2 DEF FanOut, step
    <3>2. job' = [step EXCEPT !.failed = @ \cup (IF reached = Reachable(u) THEN {} ELSE {u})]
      BY <3>1 DEF NotifyUser
    <3>3. \A d \in Devices : pushes'[d] = pushes[d] + (IF d[1] = u /\ d[2] \in reached THEN 1 ELSE 0)
      BY <3>1 DEF NotifyUser
    <3>4. /\ job'.event = job.event /\ job'.phase = "fanout" /\ job'.start = job.start
          /\ job'.left = job.left \ {u} /\ job.failed \subseteq job'.failed /\ tokens' = tokens
          /\ reached # Reachable(u) => u \in job'.failed
      BY <1>2, <3>1, <3>2 DEF NotifyUser, Jobs
    <3>5. \A d \in Devices : pushes'[d] >= pushes[d]
      BY <1>1, <3>3
    <3>6. ASSUME reached = Reachable(u), NEW a \in Reachable(u) PROVE pushes'[<<u, a>>] > 0
      <4>1. <<u, a>> \in Devices
        BY <1>1 DEF Reachable, AppsOf, TypeOK
      <4> QED BY <1>1, <3>3, <3>6, <4>1
    <3> QED BY <3>4, <3>5, <3>6
  <2> QED BY <2>1, <2>2
<1>4. Onward
  BY <1>1, <1>3 DEF Onward
<1>5. Path'
  BY <1>1, <1>3 DEF Path, DutyInv
<1>6. ASSUME NEW v \in Users, Due(v)' PROVE Duty(v)'
  <2>1. Persists(v)
    BY <1>1, <1>4, <1>6, Persistence
  <2> SUFFICES ASSUME v \notin job'.left, NEW a \in AppsOf(v)' PROVE pushes'[<<v, a>>] > 0
    BY <1>3 DEF Duty
  <2>2. CASE v # u
    BY <1>1, <1>3, <2>1, <2>2 DEF DutyInv, Duty, Persists
  <2>3. CASE v = u
    <3>1. ~IsSender(u) /\ u \notin job'.failed
      BY <1>6, <2>1, <2>3 DEF Persists, Due, IsSender
    <3>2. a \in Reachable(u)
      BY <1>1, <2>1, <2>3 DEF Persists, Reachable, Gate, AppsOf
    <3> QED BY <1>3, <2>3, <3>1, <3>2
  <2> QED BY <2>2, <2>3
<1> QED BY <1>5, <1>6 DEF DutyInv

LEMMA FetchAudienceDuty ==
  ASSUME DispatchInv, DispatchInv', DutyInv, FetchAudience PROVE DutyInv'
<1>1. /\ TypeOK /\ job \in Jobs /\ job.phase = "members" /\ job.event.h \in Groups
      /\ job.event.kind # "direct" /\ ~job.event.a /\ job.event.broadcast
  BY EventInWork DEF FetchAudience, DispatchInv, TypeOK, JobOK, Routed, DutyInv, Path
<1>2. PICK entry \in Told(job.event.h) :
        /\ GetMembers(job.event.h, entry)
        /\ Proceed([job EXCEPT !.phase = "fanout", !.left = entry.members,
                               !.failed = IF entry.complete THEN {} ELSE Users])
  BY DEF FetchAudience
<1>3. /\ job'.event = job.event /\ job'.phase = "fanout" /\ job'.start = job.start
      /\ job'.left = entry.members /\ (~entry.complete => job'.failed = Users)
      /\ UNCHANGED <<tokens, pushes>>
  BY <1>1, <1>2 DEF Proceed, Jobs
<1>4. Path'
  BY <1>1, <1>3 DEF Path
<1>5. ASSUME NEW v \in Users, Due(v)' PROVE v \in job'.left
  <2> SUFFICES ASSUME v \notin entry.members PROVE FALSE
    BY <1>3
  <2>1. entry.complete
    BY <1>3, <1>5 DEF Due
  <2>2. Recent(missingAt[job.event.h][v])
    BY <1>1, <2>1, LeftOutIsRecent
  <2>3. now' = now /\ missingAt' = missingAt
    BY <1>2 DEF GetMembers, histories
  <2>4. OfGroup(job.event)' /\ OfGroup(job.event)
    BY <1>1, <1>3, DispatchAssumption DEF OfGroup
  <2> QED BY <1>3, <1>5, <2>2, <2>3, <2>4 DEF Due, Settled, Recent
<1> QED BY <1>3, <1>4, <1>5 DEF DutyInv, Duty

LEMMA CheckBroadcastDuty ==
  ASSUME DispatchInv, DispatchInv', DutyInv, CheckBroadcast PROVE DutyInv'
<1>1. /\ job \in Jobs /\ job.phase = "broadcast" /\ job.event.h # NoGroup
      /\ job.event.kind # "direct" /\ ~job.event.a /\ job.event.broadcast
      /\ \A u \in Users : ~Heard(u)
  BY DEF CheckBroadcast, DispatchInv, TypeOK, JobOK, Routed, DutyInv, Path
<1>2. PICK phase \in {"members", "finished"} : Proceed([job EXCEPT !.phase = phase])
  BY DEF CheckBroadcast
<1>3. job'.event = job.event /\ job'.phase = phase /\ UNCHANGED <<tokens, pushes>>
  BY <1>1, <1>2 DEF Proceed, Jobs
<1>4. \A u : Heard(u)' <=> Heard(u)
  BY <1>3 DEF Heard
<1>5. Path'
  BY <1>1, <1>3, <1>4 DEF Path
<1>6. \A u \in Users : Duty(u)'
  BY <1>1, <1>3, <1>4 DEF Duty, Concluded, OfGroup
<1> QED BY <1>5, <1>6 DEF DutyInv

LEMMA StartScanDuty ==
  ASSUME DispatchInv, DispatchInv', DutyInv, StartScan PROVE DutyInv'
<1>1. /\ TypeOK /\ job \in Jobs /\ job.phase = "mentions" /\ job.event.h # NoGroup /\ job.queue = <<>>
      /\ job.event.kind # "direct" /\ ~job.event.a /\ ~job.event.broadcast
      /\ GroupStep /\ UNCHANGED storedVars
  BY DEF StartScan, DispatchInv, TypeOK, JobOK, Routed, DutyInv, Path, GroupStep
<1>2. /\ job'.event = job.event /\ job'.phase = "scan" /\ job'.start = job.start
      /\ job'.left = Subscribers /\ job'.failed = job.failed /\ UNCHANGED <<tokens, pushes>>
  BY <1>1 DEF StartScan, Proceed, Jobs
<1>3. Path'
  BY <1>1, <1>2 DEF Path
<1>4. ASSUME NEW v \in Users, Due(v)' PROVE MentionHeard(v)' /\ (v \notin job'.left => Answered(v)')
  <2>1. Due(v)
    BY <1>1, <1>2, <1>4, DueBefore
  <2>2. MentionHeard(v)
    BY <1>1, <2>1 DEF DutyInv, Duty, MentionHeard, Reached, Range
  <2>3. MentionHeard(v)'
    BY <1>2, <1>1, <2>2 DEF MentionHeard, Reachable, AppsOf, Gate, storedVars
  <2>4. v \notin job'.left => Answered(v)'
    BY <1>1, <1>2 DEF Answered, Readable, Subscribers, storedVars
  <2> QED BY <2>3, <2>4
<1> QED BY <1>2, <1>3, <1>4 DEF DutyInv, Duty

(* The scan of one user, of an event of a group or of none.                *)
LEMMA ScanDuty ==
  ASSUME DispatchInv, DispatchInv', DutyInv, NEW u \in Users, ScanUser(u) PROVE DutyInv'
<1> DEFINE step == [job EXCEPT !.left = @ \ {u}]
           Turn == /\ job'.event = job.event /\ job'.phase = "scan" /\ job'.start = job.start
                   /\ job'.left = job.left \ {u} /\ job.failed \subseteq job'.failed
                   /\ tokens' \subseteq tokens /\ \A d \in Devices : pushes'[d] >= pushes[d]
                   /\ GroupStep /\ Dwindles
           Seen == IsSender(u) \/ u \in job'.failed \/ ~Due(u) \/ Answered(u)'
<1>1. /\ TypeOK /\ job.phase = "scan" /\ u \in job.left
      /\ job.event.kind # "direct" /\ ~job.event.a
      /\ job.event.h # NoGroup => job.event.h \in Groups /\ OfGroup(job.event)
      /\ \A d \in Devices : pushes[d] \in Nat
  BY EventInWork DEF ScanUser, DispatchInv, TypeOK, DutyInv, Path, OfGroup
<1>2. /\ step \in Jobs /\ step.event = job.event /\ step.phase = "scan"
      /\ step.start = job.start /\ step.left = job.left \ {u} /\ step.failed = job.failed
  BY <1>1 DEF Jobs, TypeOK, JobOK
<1> HIDE DEF step
<1>3. ASSUME NEW F, job' = [step EXCEPT !.failed = @ \cup F]
      PROVE  /\ job'.event = job.event /\ job'.phase = "scan" /\ job'.start = job.start
             /\ job'.left = job.left \ {u} /\ job'.failed = job.failed \cup F
  BY <1>2, <1>3 DEF Jobs
<1>4. ASSUME NEW F, Proceed([step EXCEPT !.failed = @ \cup F]), GroupStep, Dwindles
      PROVE  Turn /\ job'.failed = job.failed \cup F
  BY <1>1, <1>3, <1>4 DEF Proceed
<1>5. ASSUME ScanSkips(u), Proceed(step), UNCHANGED <<groupVars, storedVars>> PROVE Turn /\ Seen
  <2>1. Turn
    BY <1>1, <1>2, <1>5 DEF Proceed, GroupStep, Dwindles
  <2>2. AppsOf(u) = {} => AppsOf(u)' = {}
    BY <1>5 DEF Proceed, AppsOf
  <2> QED BY <1>5, <2>1, <2>2 DEF ScanSkips, Answered
<1>6. ASSUME ScanAll(u, step) PROVE Turn /\ Seen
  <2> PICK dropped \in SUBSET Idlers(u) :
        /\ Unsubscribed(dropped)
        /\ Proceed([step EXCEPT !.failed = @ \cup (IF dropped = Idlers(u) THEN {} ELSE {u})])
    BY <1>6 DEF ScanAll
  <2>1. /\ Turn /\ UNCHANGED tokens
        /\ job'.failed = job.failed \cup (IF dropped = Idlers(u) THEN {} ELSE {u})
    BY <1>4, <1>6 DEF ScanAll, GroupStep, Dwindles, Proceed
  <2>2. ASSUME dropped = Idlers(u), NEW s \in Readable(u)' PROVE ~Matches(s, job.event)'
    <3>1. s \in Readable(u) /\ (Matches(s, job.event)' => Matches(s, job.event))
      BY <1>1, <2>1, ReadableBefore
    <3>2. s \in subs' /\ s \notin dropped
      BY DEF Readable, Unsubscribed
    <3> QED BY <1>6, <2>2, <3>1, <3>2 DEF ScanAll, Matching, Idlers
  <2> QED BY <2>1, <2>2 DEF Answered
<1>7. ASSUME NEW s \in Matching(u), NEW reached \in BOOLEAN, ScanNotifies(u, s, reached, step),
             GroupStep, Dwindles
      PROVE  Turn /\ Seen
  <2>1. /\ pushes' = [pushes EXCEPT ![<<u, s.app>>] = @ + (IF reached THEN 1 ELSE 0)]
        /\ job' = [step EXCEPT !.failed = @ \cup (IF reached THEN {} ELSE {u})]
        /\ tokens' \subseteq tokens
    BY <1>7 DEF ScanNotifies, NotifyApp
  <2>2. <<u, s.app>> \in Devices
    BY <1>1 DEF Matching, TypeOK
  <2>3. \A d \in Devices :
          pushes'[d] = IF d = <<u, s.app>> /\ reached THEN pushes[d] + 1 ELSE pushes[d]
    BY <1>1, <2>1 DEF TypeOK
  <2>4. \A d \in Devices : pushes'[d] >= pushes[d]
    BY <1>1, <2>3
  <2>5. Turn /\ job'.failed = job.failed \cup (IF reached THEN {} ELSE {u})
    BY <1>3, <1>7, <2>1, <2>4
  <2>6. CASE reached
    <3>1. <<u, s.app>>[1] = u /\ pushes'[<<u, s.app>>] > 0
      BY <1>1, <2>2, <2>3, <2>6
    <3>2. Heard(u)'
      BY <2>2, <3>1 DEF Heard
    <3> HIDE DEF Turn
    <3> QED BY <2>5, <3>2 DEF Answered
  <2>7. CASE ~reached
    <3> HIDE DEF Turn
    <3> QED BY <2>5, <2>7
  <2> QED BY <2>6, <2>7
<1>8. ASSUME NEW tried \in SUBSET Idlers(u), NEW s \in Matching(u), ScanMatch(u, s, tried, step)
      PROVE  Turn /\ Seen
  <2>0. ASSUME NEW gone, Drop(gone) PROVE Dwindles
    BY <2>0 DEF Drop, Dwindles
  <2>1. CASE /\ job.event.h = NoGroup /\ UNCHANGED groupVars /\ Drop(tried)
             /\ \E reached \in BOOLEAN : ScanNotifies(u, s, reached, step)
    BY <1>7, <2>0, <2>1 DEF GroupStep
  <2>2. ASSUME job.event.h # NoGroup, NEW entry \in Told(job.event.h),
               GetMembers(job.event.h, entry), Drop(tried),
               \E reached \in BOOLEAN : ScanNotifies(u, s, reached, step)
        PROVE  Turn /\ Seen
    <3>1. GroupStep
      BY <1>1, <2>2 DEF GroupStep
    <3> QED BY <1>7, <2>0, <2>2, <3>1
  <2>3. ASSUME job.event.h # NoGroup, NEW entry \in Told(job.event.h),
               GetMembers(job.event.h, entry), u \notin entry.members,
               ScanRejects(u, s, tried, entry, step)
        PROVE  Turn /\ Seen
    <3>1. GroupStep /\ Dwindles
      BY <1>1, <2>0, <2>3 DEF GroupStep, ScanRejects
    <3>2. Turn /\ job'.failed = job.failed \cup (IF entry.complete THEN {} ELSE {u})
      BY <1>4, <2>3, <3>1 DEF ScanRejects
    <3>3. entry.complete => ~Due(u)
      BY <1>1, <2>3, LeftOutIsRecent DEF Due, Settled
    <3> HIDE DEF Turn
    <3> QED BY <3>2, <3>3
  <2>4. CASE GetMembersFails(job.event.h) /\ Drop(tried)
             /\ Proceed([step EXCEPT !.failed = @ \cup {u}])
    <3>1. GroupStep /\ Dwindles
      BY <2>0, <2>4 DEF GroupStep, GetMembersFails
    <3>2. Turn /\ job'.failed = job.failed \cup {u}
      BY <1>4, <2>4, <3>1
    <3> HIDE DEF Turn
    <3> QED BY <3>2
  <2> HIDE DEF Turn, Seen
  <2> QED BY <1>8, <2>1, <2>2, <2>3, <2>4 DEF ScanMatch
<1>9. Turn /\ Seen
  BY <1>5, <1>6, <1>7, <1>8 DEF ScanUser, step
<1> HIDE DEF Seen
<1>10. Path'
  BY <1>1, <1>9 DEF Path, DutyInv
<1>11. Onward
  BY <1>9 DEF Onward
<1>12. ASSUME NEW v \in Users, Due(v)'
       PROVE  /\ job.event.h # NoGroup => MentionHeard(v)'
              /\ v \notin job'.left => Answered(v)'
  <2>1. Persists(v)
    BY <1>1, <1>11, <1>12, Persistence
  <2>2. Duty(v)
    BY <2>1 DEF DutyInv, Persists
  <2>3. job.event.h # NoGroup => MentionHeard(v)'
    BY <1>1, <1>11, <1>12, <2>2, MentionHeardStays DEF Duty
  <2>4. CASE v # u
    BY <1>1, <1>9, <1>11, <1>12, <2>2, <2>3, <2>4, AnsweredStays DEF Duty
  <2>5. CASE v = u
    BY <1>9, <1>12, <2>1, <2>3, <2>5 DEF Seen, Persists, Due, IsSender
  <2> QED BY <2>4, <2>5
<1> QED BY <1>9, <1>10, <1>12 DEF DutyInv, Duty

LEMMA MatchingAnswered ==
  ASSUME TypeOK, NEW u, Answered(u), Matching(u) # {} PROVE Heard(u)
<1>1. PICK s \in Matching(u) : TRUE
  OBVIOUS
<1>2. s.app \in AppsOf(u)
  BY DispatchAssumption DEF TypeOK, StoredOK, Matching, AppsOf, Readable
<1> QED BY <1>1, <1>2 DEF Answered, Matching

LEMMA TallyDuty ==
  ASSUME DispatchInv, DispatchInv', DutyInv, Tally PROVE DutyInv'
<1>1. /\ TypeOK /\ job \in Jobs /\ job.phase = "scan" /\ job.left = {} /\ job.event.h = NoGroup
      /\ job.event.kind # "direct" /\ ~job.event.a
      /\ GroupStep /\ UNCHANGED storedVars
  BY DEF Tally, DispatchInv, TypeOK, JobOK, DutyInv, Path, GroupStep
<1> DEFINE on == job.event.kind = "other" /\ job.event.live
<1>2. /\ job'.event = job.event /\ job'.start = job.start /\ job'.failed = job.failed
      /\ job'.phase = IF on THEN "mentioned" ELSE "finished"
      /\ job'.queue = IF on THEN job.event.mentions ELSE <<>>
      /\ job'.served = Served(job.event) /\ UNCHANGED <<tokens, pushes>>
  BY <1>1 DEF Tally, Proceed, Jobs
<1>3. Path'
  BY <1>1, <1>2 DEF Path
<1>4. ASSUME NEW v \in Users, Due(v)' PROVE Duty(v)'
  <2>1. Due(v)
    BY <1>1, <1>2, <1>4, DueBefore
  <2>2. Answered(v)
    BY <1>1, <2>1 DEF DutyInv, Duty
  <2>3. Answered(v)'
    BY <1>1, <1>2, <1>4, <2>2, AnsweredStays DEF Onward, Dwindles, DispatchInv, TypeOK
  <2>4. CASE on
    <3>1. v \in job'.served => Heard(v)'
      BY <1>1, <1>2, <2>2 DEF Served, Answered, Heard
    <3> QED BY <1>2, <2>3, <2>4, <3>1 DEF Duty
  <2>5. CASE ~on
    <3>1. Matching(v)' # {} => Heard(v)'
      <4>1. Matching(v)' = Matching(v) /\ (Heard(v) => Heard(v)')
        BY <1>1, <1>2 DEF Matching, Readable, Matches, Heard, storedVars
      <4> QED BY <1>1, <2>2, <4>1, MatchingAnswered
    <3>2. job'.phase = "finished" /\ job'.event.h = NoGroup /\ job'.event.kind # "direct"
      BY <1>1, <1>2, <2>5
    <3>3. Concluded(v)'
      BY <1>2, <2>5, <3>1, <3>2 DEF Concluded, OfGroup
    <3> QED BY <3>2, <3>3 DEF Duty
  <2> QED BY <2>4, <2>5
<1> QED BY <1>3, <1>4 DEF DutyInv

LEMMA MentionAnyoneDuty ==
  ASSUME DispatchInv, DispatchInv', DutyInv, NEW u \in Users, MentionAnyone(u) PROVE DutyInv'
<1>1. /\ TypeOK /\ job.phase = "mentioned" /\ job.event.h = NoGroup
      /\ job.event.kind # "direct" /\ ~job.event.a
      /\ job.queue \in Seq(Users) /\ job.queue # <<>> /\ u = Head(job.queue)
      /\ UNCHANGED storedVars /\ GroupStep
      /\ Proceed(NextMention(u)) \/ \E reached : NotifyUser(u, reached, NextMention(u))
  BY DEF MentionAnyone, DispatchInv, Routed, TypeOK, JobOK, Jobs, GroupStep, DutyInv, Path
<1>2. MentionTurn(u)
  BY <1>1, MentionEffect
<1>3. Onward /\ Dwindles
  BY <1>1, <1>2, TurnIsOnward DEF Dwindles
<1>4. Path'
  BY <1>1, <1>2 DEF Path, MentionTurn
<1>5. ASSUME NEW v \in Users, Due(v)' PROVE Duty(v)'
  <2>1. Persists(v) /\ (Heard(v) => Heard(v)')
    BY <1>1, <1>3, <1>5, Persistence
  <2>2. Answered(v) /\ Answered(v)' /\ (v \in job.served => Heard(v))
    BY <1>1, <1>3, <1>5, <2>1, AnsweredStays DEF DutyInv, Duty, Persists
  <2> SUFFICES ASSUME v \in Range(job.event.mentions), v \notin Range(job'.queue),
                      AppsOf(v)' # {}
               PROVE  Heard(v)'
    BY <1>1, <1>2, <2>1, <2>2 DEF Duty, MentionTurn
  <2>3. AppsOf(v) # {}
    BY <2>1 DEF Persists
  <2>4. CASE v # u
    <3>1. v \notin Range(job.queue)
      BY <1>1, <1>2, <2>4, RangeTail DEF MentionTurn
    <3> QED BY <1>1, <2>1, <2>3, <3>1 DEF DutyInv, Duty, Persists
  <2>5. CASE v = u
    <3>1. ~IsSender(u) /\ u \notin job'.failed
      BY <1>5, <2>1, <2>5 DEF Persists, Due, IsSender
    <3>2. CASE u \in job.served
      BY <2>1, <2>2, <2>5, <3>2
    <3>3. ASSUME u \notin job.served PROVE Heard(v)'
      <4>1. PICK reached : NotifyUser(u, reached, NextMention(u))
        BY <2>3, <2>5, <3>1, <3>3 DEF MentionAnyone
      <4>2. PICK a \in AppsOf(u) : pushes'[<<u, a>>] > 0
        BY <1>1, <2>3, <2>5, <3>1, <4>1, NotifyTurn DEF Reachable, Gate, AppsOf
      <4>3. <<u, a>> \in Devices /\ <<u, a>>[1] = u
        BY <1>1, <4>2 DEF AppsOf, TypeOK
      <4> QED BY <2>5, <4>2, <4>3 DEF Heard
    <3> QED BY <3>2, <3>3
  <2> QED BY <2>4, <2>5
<1> QED BY <1>4, <1>5 DEF DutyInv

LEMMA FinishDuty ==
  ASSUME DispatchInv, DispatchInv', DutyInv, Finish PROVE DutyInv'
<1>1. /\ TypeOK /\ job \in Jobs /\ Routed /\ Path
      /\ \/ job.phase \in {"fanout", "scan"} /\ job.left = {}
         \/ job.phase \in {"direct", "mentioned"} /\ job.queue = <<>>
      /\ job.phase = "scan" => job.event.h # NoGroup
      /\ GroupStep /\ UNCHANGED storedVars /\ UNCHANGED <<tokens, pushes>>
  BY DEF Finish, DispatchInv, TypeOK, JobOK, DutyInv, GroupStep, Proceed
<1>2. /\ job'.event = job.event /\ job'.start = job.start /\ job'.failed = job.failed
      /\ job'.phase = "finished"
  BY <1>1 DEF Finish, Proceed, Jobs
<1>3. Path'
  BY <1>2 DEF Path
<1>4. ASSUME NEW v \in Users, Due(v)' PROVE Concluded(v)'
  <2>1. Due(v) /\ Duty(v)
    BY <1>1, <1>2, <1>4, DueBefore DEF DutyInv
  <2>2. Range(<<>>) = {}
    BY DEF Range
  <2>3. Concluded(v)
    <3>1. CASE job.phase = "direct"
      BY <1>1, <2>1, <2>2, <3>1 DEF Duty, Concluded, Routed, OfGroup, MentionHeard, Reached
    <3>2. CASE job.phase = "fanout"
      BY <1>1, <2>1, <3>2 DEF Duty, Concluded, Routed, Path, OfGroup
    <3>3. CASE job.phase = "scan"
      BY <1>1, <2>1, <3>3, MatchingAnswered DEF Duty, Concluded, Path, OfGroup
    <3>4. CASE job.phase = "mentioned"
      BY <1>1, <2>1, <2>2, <3>4, MatchingAnswered DEF Duty, Concluded, Routed, Path, OfGroup
    <3> QED BY <1>1, <3>1, <3>2, <3>3, <3>4
  <2>4. /\ \A u : Heard(u)' = Heard(u) /\ AppsOf(u)' = AppsOf(u)
        /\ MentionHeard(v)' = MentionHeard(v) /\ Matching(v)' = Matching(v)
    BY <1>1, <1>2 DEF Heard, AppsOf, MentionHeard, Reachable, Gate, Matching, Readable, Matches,
                      storedVars
  <2> QED BY <1>1, <1>2, <2>3, <2>4 DEF Concluded, OfGroup
<1> QED BY <1>2, <1>3, <1>4 DEF DutyInv, Duty

LEMMA TakeDuty ==
  ASSUME DispatchInv, DispatchInv', NEW e \in Events, Take(e) PROVE DutyInv'
<1>1. /\ job'.event = e /\ job'.phase = FirstPhase(e) /\ pushes' = Silence
      /\ FirstPhase(e) \in {"direct", "mentions"} => job'.queue = e.mentions
      /\ FirstPhase(e) = "scan" => job'.left = Subscribers
      /\ UNCHANGED <<tokens, storedVars>>
  BY DEF Take, DispatchInv, Quiet, Idle
<1>2. \A u : ~Heard(u)'
  BY <1>1 DEF Heard, Silence
<1>3. Path'
  BY <1>1, <1>2 DEF Path, FirstPhase
<1>4. ASSUME NEW v \in Users PROVE Duty(v)'
  <2>1. v \notin Subscribers => Answered(v)'
    BY <1>1 DEF Answered, Readable, Subscribers, storedVars
  <2> QED BY <1>1, <2>1 DEF Duty, FirstPhase
<1> QED BY <1>3, <1>4 DEF DutyInv

LEMMA IdleDuty ==
  ASSUME job'.phase = "idle" PROVE DutyInv'
  BY DEF DutyInv, Path, Duty

LEMMA UnchangedDuty ==
  ASSUME DispatchInv, DispatchInv', DutyInv, GroupStep, UNCHANGED dispatchVars PROVE DutyInv'
<1>1. CASE job.phase = "idle"
  BY <1>1, IdleDuty DEF dispatchVars
<1>2. CASE job.phase # "idle"
  <2>1. \A u : Heard(u)' = Heard(u) /\ AppsOf(u)' = AppsOf(u)
    BY DEF Heard, AppsOf, dispatchVars
  <2>2. Path'
    BY <2>1 DEF Path, DutyInv, dispatchVars
  <2>3. ASSUME NEW v \in Users, Due(v)' PROVE Duty(v)'
    <3>1. Due(v) /\ Duty(v)
      BY <1>2, <2>3, DueBefore DEF DutyInv, dispatchVars
    <3>2. /\ MentionHeard(v)' = MentionHeard(v) /\ Matching(v)' = Matching(v)
          /\ Reached(v)' = Reached(v) /\ Answered(v)' = Answered(v)
      BY DEF Heard, AppsOf, MentionHeard, Reachable, Gate, Matching, Readable, Matches,
             Reached, Answered, dispatchVars, storedVars
    <3> QED BY <2>1, <3>1, <3>2 DEF Duty, Concluded, OfGroup, dispatchVars
  <2> QED BY <2>2, <2>3 DEF DutyInv
<1> QED BY <1>1, <1>2

LEMMA DutyStep == DispatchInv /\ DutyInv /\ [Next]_vars => DutyInv'
<1> SUFFICES ASSUME DispatchInv, DutyInv, [Next]_vars PROVE DutyInv'
  OBVIOUS
<1>1. DispatchInv'
  BY DispatchStep
<1>2. CASE UNCHANGED vars \/ Environment
  BY <1>1, <1>2, UnchangedDuty DEF vars, Environment, GroupStep
<1>3. CASE Control
  <2>1. job'.phase = "idle"
    BY <1>3 DEF Control, Register, Deregister, Upsert, Unsubscribe
  <2> QED BY <2>1, IdleDuty
<1>4. CASE Return \/ Abandon \/ Restart
  BY <1>4, IdleDuty DEF Return, Abandon, Restart, Idle
<1> QED BY <1>1, <1>2, <1>3, <1>4, TakeDuty, MentionDuty, StartScanDuty, CheckBroadcastDuty,
           FetchAudienceDuty, FanOutDuty, ScanDuty, TallyDuty, MentionAnyoneDuty, FinishDuty
        DEF Next

-----------------------------------------------------------------------------
(* A user whose filters nobody else uses is notified at most once, in each *)
(* app, of an event without a group (handle_custom_subscriptions).         *)
THEOREM CustomHeardOnce == Spec => []CustomOnce
<1>1. Init => OnceInv
  BY DEF Init, Idle, OnceInv, Single
<1>2. OnceInv => CustomOnce
  BY DEF OnceInv, Single, OnceAtMost, CustomOnce
<1> QED BY DispatchStart, DispatchStep, OnceStep, <1>1, <1>2, PTL DEF Spec

(* With no filter shared by two users the second pass of                   *)
(* handle_custom_subscriptions duplicates nothing, as its comment says: it *)
(* is filter data shared by users that breaks this in the code.            *)
THEOREM NobodyTwice ==
  ASSUME \A u \in Users : OwnFilters(u)
  PROVE  Spec => []NobodyHearsTwice
<1>1. \A d \in Devices : d[1] \in Users
  BY DispatchAssumption
<1>2. CustomOnce => NobodyHearsTwice
  BY <1>1 DEF CustomOnce, NobodyHearsTwice
<1> QED BY <1>2, CustomHeardOnce, PTL

(* When a handler returns, nobody it owed a push was forgotten, unless the *)
(* relay, Redis or FCM failed him: on every path, whatever is dropped and  *)
(* whatever the relay publishes while the loops run.                       *)
THEOREM DutyDone == Spec => []NobodyForgotten
<1>1. Init => DutyInv
  BY DEF Init, Idle, DutyInv, Path, Duty
<1>2. DutyInv => NobodyForgotten
  BY DEF DutyInv, Duty, Concluded, NobodyForgotten
<1> QED BY DispatchStart, DispatchStep, DutyStep, <1>1, <1>2, PTL DEF Spec
=============================================================================
