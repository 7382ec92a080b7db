--------------------------- MODULE DispatchProofs ---------------------------
(* Theorems about GroupMembership and Dispatch, for any users, groups,     *)
(* apps, subscriptions, events and cache expiration: the types, the age of *)
(* a cached answer, that only members hear of a group event and that its   *)
(* sender never does.                                                      *)
EXTENDS Dispatch, TLAPS

-----------------------------------------------------------------------------
(* The group client.  What Dispatch does to its variables is one of these: *)

GroupStep ==
  \/ Relay
  \/ \E g \in Groups : \E entry \in Told(g) : GetMembers(g, entry)
  \/ ClearCache
  \/ UNCHANGED groupVars

(* The histories lie in the past, and those of the users agree with those  *)
(* of the lists.                                                           *)
HistoryExact ==
  /\ \A g \in Groups, u \in Users : listedAt[g][u] <= now /\ missingAt[g][u] <= now
  /\ \A g \in Groups, list \in MemberLists, u \in Users :
       heldAt[g][list] # Never =>
         IF u \in PublicKeys(list) THEN listedAt[g][u] >= heldAt[g][list]
                                   ELSE missingAt[g][u] >= heldAt[g][list]

(* Whom the cache calls a member was one at some time, and whom a complete *)
(* answer leaves out was none.                                             *)
CachedWereListed ==
  \A g \in Groups, u \in Users :
    /\ u \in cache[g].members => listedAt[g][u] # Never
    /\ u \notin cache[g].members /\ cache[g].complete => missingAt[g][u] # Never

GroupInv == GroupTypeOK /\ HistoryExact /\ CachedWereListed /\ CacheIsRecent

LEMMA GroupStart == GroupInit => GroupInv
<1> SUFFICES ASSUME GroupInit PROVE GroupInv
  OBVIOUS
<1>1. GroupTypeOK
  BY GroupMembershipAssumption
  DEF GroupInit, GroupTypeOK, NoEntry, Entries, Times, Never
<1>2. HistoryExact
  BY DEF GroupInit, HistoryExact, Never
<1>3. CachedWereListed /\ CacheIsRecent
  BY DEF GroupInit, CachedWereListed, CacheIsRecent, NoEntry
<1> QED BY <1>1, <1>2, <1>3 DEF GroupInv

(* Answers are well typed, and recent by the clock of the query's end.     *)
LEMMA AnswerIsRecent ==
  ASSUME GroupInv, NEW g \in Groups, NEW since, NEW entry \in Answers(g, since)
  PROVE  /\ entry \in Entries
         /\ \A u \in entry.members :
              /\ u \in Users /\ listedAt[g][u] # Never
              /\ listedAt[g][u] + Lifetime >= entry.expiration
              /\ since \in Nat => listedAt[g][u] >= since \/ entry.expiration > now
         /\ \A u \in Users : u \notin entry.members /\ entry.complete =>
              /\ missingAt[g][u] # Never
              /\ missingAt[g][u] + Lifetime >= entry.expiration
              /\ since \in Nat => missingAt[g][u] >= since \/ entry.expiration > now
<1> USE GroupMembershipAssumption
<1>1. CASE Fresh(g)
  <2>1. entry = cache[g] /\ entry.expiration > now
    BY <1>1 DEF Answers, Fresh
  <2>2. entry \in Entries /\ entry.members \subseteq Users
    BY <2>1 DEF GroupInv, GroupTypeOK, Entries
  <2> QED BY <2>1, <2>2 DEF GroupInv, CachedWereListed, CacheIsRecent
<1>2. CASE ~Fresh(g)
  <2>1. \/ entry = Entry({}, FALSE)
        \/ \E list \in Reported(g, since) : entry = Entry(PublicKeys(list), TRUE)
    BY <1>2 DEF Answers
  <2>2. now \in Nat /\ now + CacheExpiration \in Nat /\ now # Never
    BY DEF GroupInv, GroupTypeOK, Never
  <2>3. CASE entry = Entry({}, FALSE)
    BY <2>2, <2>3 DEF Entry, Entries
  <2>4. CASE entry # Entry({}, FALSE)
    <3>1. PICK list \in Reported(g, since) : entry = Entry(PublicKeys(list), TRUE)
      BY <2>1, <2>4
    <3>2. /\ entry.expiration = now + CacheExpiration
          /\ entry.members = PublicKeys(list) /\ entry.members \subseteq Users
          /\ entry \in Entries
      BY <2>2, <3>1 DEF Entry, Entries, PublicKeys
    <3>3. /\ list \in MemberLists /\ heldAt[g][list] # Never
          /\ heldAt[g][list] >= since /\ heldAt[g][list] + FetchTimeout >= now
          /\ heldAt[g][list] \in Nat
      BY DEF Reported, GroupInv, GroupTypeOK, Times
    <3>4. \A u \in Users : /\ listedAt[g][u] \in Int /\ missingAt[g][u] \in Int
                           /\ IF u \in entry.members THEN listedAt[g][u] >= heldAt[g][list]
                                                      ELSE missingAt[g][u] >= heldAt[g][list]
      BY <3>2, <3>3 DEF GroupInv, HistoryExact, GroupTypeOK, Times, Never
    <3> QED BY <2>2, <3>2, <3>3, <3>4 DEF Lifetime, Never
  <2> QED BY <2>3, <2>4
<1> QED BY <1>1, <1>2

(* The histories never go back.                                            *)
LEMMA HistoryGrows ==
  ASSUME GroupInv, GroupStep, NEW g \in Groups, NEW u \in Users
  PROVE  /\ now' \in Nat /\ now' >= now
         /\ listedAt'[g][u] = listedAt[g][u] \/ listedAt'[g][u] = now'
         /\ missingAt'[g][u] = missingAt[g][u] \/ missingAt'[g][u] = now'
<1> USE GroupMembershipAssumption DEF GroupInv, GroupTypeOK
<1>1. CASE Relay
  <2>1. ASSUME NEW h \in Groups, NEW list \in MemberLists, PublishMembers(h, list)
        PROVE  now' = now /\ Witness(memberList', now')
    BY <2>1 DEF PublishMembers
  <2>2. CASE Tick
    BY <2>2 DEF Tick, Witness, Listed, Missing
  <2>3. ASSUME NEW h \in Groups, NEW list \in AdminLists, PublishAdmins(h, list)
        PROVE  UNCHANGED <<now, listedAt, missingAt>>
    BY <2>3 DEF PublishAdmins, histories
  <2> QED BY <1>1, <2>1, <2>2, <2>3 DEF Relay, Witness, Listed, Missing
<1>2. CASE ~Relay
  BY <1>2 DEF GroupStep, GetMembers, ClearCache, groupVars, histories
<1> QED BY <1>1, <1>2

LEMMA GroupInvStep == GroupInv /\ GroupStep => GroupInv'
<1> SUFFICES ASSUME GroupInv, GroupStep PROVE GroupInv'
  OBVIOUS
<1> USE GroupMembershipAssumption
<1>1. CASE Relay
  <2>1. cache' = cache
    BY <1>1 DEF Relay, PublishMembers, PublishAdmins, Tick
  <2>2. /\ memberList' \in [Groups -> MemberLists]
        /\ adminList' \in [Groups -> AdminLists]
    <3> USE DEF GroupInv, GroupTypeOK
    <3>1. ASSUME NEW g \in Groups, NEW list \in MemberLists, PublishMembers(g, list)
          PROVE  memberList' \in [Groups -> MemberLists] /\ adminList' = adminList
      BY <3>1 DEF PublishMembers
    <3>2. ASSUME NEW g \in Groups, NEW list \in AdminLists, PublishAdmins(g, list)
          PROVE  adminList' \in [Groups -> AdminLists] /\ memberList' = memberList
      BY <3>2 DEF PublishAdmins
    <3> QED BY <1>1, <3>1, <3>2 DEF Relay, Tick
  <2>3. CASE UNCHANGED <<now, memberList, histories>>
    BY <2>1, <2>2, <2>3 DEF histories, GroupInv, GroupTypeOK, HistoryExact,
                            CachedWereListed, CacheIsRecent, PublicKeys
  <2>4. CASE Witness(memberList', now')
    <3>1. now' \in Nat /\ now' >= now /\ now' # Never /\ now' \in Times
      BY HistoryGrows, <1>1 DEF Relay, PublishMembers, PublishAdmins, Tick, GroupInv,
                                GroupTypeOK, Never, Times
    <3>2. /\ listedAt' \in [Groups -> [Users -> Times]]
          /\ missingAt' \in [Groups -> [Users -> Times]]
          /\ heldAt' \in [Groups -> [MemberLists -> Times]]
      BY <2>2, <2>4, <3>1 DEF Witness, Listed, Missing, GroupInv, GroupTypeOK
    <3>3. \A g \in Groups, u \in Users :
            /\ listedAt'[g][u] = IF u \in PublicKeys(memberList'[g]) THEN now' ELSE listedAt[g][u]
            /\ missingAt'[g][u] = IF u \in PublicKeys(memberList'[g]) THEN missingAt[g][u] ELSE now'
      BY <2>4 DEF Witness, Listed, Missing
    <3>4. \A g \in Groups, list \in MemberLists :
            heldAt'[g][list] = IF list = memberList'[g] THEN now' ELSE heldAt[g][list]
      BY <2>2, <2>4 DEF Witness, GroupInv, GroupTypeOK
    <3>5. \A g \in Groups, u \in Users :
            /\ listedAt[g][u] \in Int /\ listedAt'[g][u] \in Int
            /\ missingAt[g][u] \in Int /\ missingAt'[g][u] \in Int
            /\ listedAt[g][u] <= now /\ missingAt[g][u] <= now
      BY <3>2 DEF GroupInv, GroupTypeOK, HistoryExact, Times, Never
    <3>6. \A g \in Groups, u \in Users :
            /\ listedAt'[g][u] >= listedAt[g][u] /\ missingAt'[g][u] >= missingAt[g][u]
            /\ listedAt'[g][u] <= now' /\ missingAt'[g][u] <= now'
            /\ listedAt[g][u] # Never => listedAt'[g][u] # Never
            /\ missingAt[g][u] # Never => missingAt'[g][u] # Never
      BY <3>1, <3>3, <3>5 DEF GroupInv, GroupTypeOK
    <3>7. (\A g \in Groups : cache[g].expiration \in Nat) /\ Lifetime \in Nat
      BY DEF GroupInv, GroupTypeOK, Entries, Lifetime
    <3>8. CachedWereListed' /\ CacheIsRecent'
      BY <2>1, <3>5, <3>6, <3>7 DEF GroupInv, CachedWereListed, CacheIsRecent
    <3>9. \A g \in Groups, list \in MemberLists, u \in Users :
            heldAt'[g][list] # Never =>
              IF u \in PublicKeys(list) THEN listedAt'[g][u] >= heldAt'[g][list]
                                        ELSE missingAt'[g][u] >= heldAt'[g][list]
      <4> SUFFICES ASSUME NEW g \in Groups, NEW list \in MemberLists, NEW u \in Users,
                          heldAt'[g][list] # Never
                   PROVE  IF u \in PublicKeys(list) THEN listedAt'[g][u] >= heldAt'[g][list]
                                                    ELSE missingAt'[g][u] >= heldAt'[g][list]
        OBVIOUS
      <4>1. CASE list = memberList'[g]
        BY <3>1, <3>3, <3>4, <4>1
      <4>2. CASE list # memberList'[g]
        <5>1. heldAt'[g][list] = heldAt[g][list] /\ heldAt[g][list] \in Int
          BY <3>4, <4>2 DEF GroupInv, GroupTypeOK, Times, Never
        <5>2. IF u \in PublicKeys(list) THEN listedAt[g][u] >= heldAt[g][list]
                                        ELSE missingAt[g][u] >= heldAt[g][list]
          BY <5>1 DEF GroupInv, HistoryExact
        <5> QED BY <3>5, <3>6, <5>1, <5>2
      <4> QED BY <4>1, <4>2
    <3>10. HistoryExact'
      BY <3>6, <3>9 DEF HistoryExact, PublicKeys
    <3> QED BY <2>1, <2>2, <3>1, <3>2, <3>8, <3>10 DEF GroupInv, GroupTypeOK
  <2>5. CASE Tick
    BY <2>4, <2>5 DEF Tick, Witness, Listed, Missing
  <2>6. ASSUME NEW g \in Groups, NEW list \in MemberLists, PublishMembers(g, list)
        PROVE  GroupInv'
    BY <2>4, <2>6 DEF PublishMembers, Witness, Listed, Missing
  <2>7. ASSUME NEW g \in Groups, NEW list \in AdminLists, PublishAdmins(g, list)
        PROVE  GroupInv'
    BY <2>3, <2>7 DEF PublishAdmins
  <2> QED BY <1>1, <2>5, <2>6, <2>7 DEF Relay
<1>2. ASSUME NEW g \in Groups, NEW entry \in Told(g), GetMembers(g, entry)
      PROVE  GroupInv'
  <2>1. entry \in Entries /\ cache' \in [Groups -> Entries]
    BY <1>2, AnswerIsRecent DEF GetMembers, GroupInv, GroupTypeOK, Told
  <2>2. UNCHANGED <<now, memberList, adminList, heldAt, listedAt, missingAt>>
    BY <1>2 DEF GetMembers, histories
  <2>3. \A h \in Groups : cache'[h] = IF h = g THEN entry ELSE cache[h]
    BY <1>2 DEF GetMembers, GroupInv, GroupTypeOK
  <2>4. CachedWereListed' /\ CacheIsRecent'
    BY <2>2, <2>3, AnswerIsRecent DEF GroupInv, CachedWereListed, CacheIsRecent, Told
  <2> QED BY <2>1, <2>2, <2>4 DEF GroupInv, GroupTypeOK, HistoryExact, PublicKeys
<1>3. CASE ClearCache
  <2>1. \A g \in Groups : cache'[g] = NoEntry
    BY <1>3 DEF ClearCache
  <2>2. cache' \in [Groups -> Entries]
    BY <1>3 DEF ClearCache, NoEntry, Entries
  <2> QED BY <1>3, <2>1, <2>2 DEF ClearCache, GroupInv, GroupTypeOK, HistoryExact, PublicKeys,
             CachedWereListed, CacheIsRecent, NoEntry, histories
<1>4. CASE UNCHANGED groupVars
  BY <1>4 DEF groupVars, GroupInv, GroupTypeOK, HistoryExact, PublicKeys, CachedWereListed,
              CacheIsRecent, histories
<1> QED BY <1>1, <1>2, <1>3, <1>4 DEF GroupStep

-----------------------------------------------------------------------------
(* The handlers.  The phases of a group event are entered with a group     *)
(* only, and the audience of a broadcast consists of recent members.       *)

Routed ==
  /\ job.phase \in {"mentions", "broadcast", "members", "fanout"} => job.event.h # NoGroup
  /\ job.phase = "mentioned" => job.event.h = NoGroup
  /\ job.phase = "direct" => job.event.kind = "direct"

AudienceRecent ==
  job.phase = "fanout" => \A u \in job.left : Recent(listedAt[job.event.h][u])

Quiet == job.phase = "idle" => pushes = Silence

DispatchInv ==
  /\ GroupInv /\ TypeOK
  /\ Routed /\ AudienceRecent /\ Quiet
  /\ job.start <= now
  /\ SenderHearsNothing

(* What a step pushes is not for the sender, and for members only.         *)
PushesDue ==
  \A d \in Devices : pushes'[d] > pushes[d] =>
    /\ d[1] # job.event.sender
    /\ OfGroup(job.event) => Recent(listedAt[job.event.h][d[1]])

LEMMA EventInWork ==
  ASSUME TypeOK, job.phase # "idle"
  PROVE  /\ job.event \in Events /\ job.event.sender \in Users
         /\ job.event.mentions \in Seq(Users) /\ job.event.at \in Nat
         /\ job.event.h \in Groups \cup {NoGroup}
  BY DispatchAssumption DEF TypeOK, JobOK, Jobs

LEMMA ToldIsRecent ==
  ASSUME DispatchInv, NEW g \in Groups, NEW entry \in Told(g), NEW u \in entry.members
  PROVE  u \in Users /\ Recent(listedAt[g][u])
<1>1. /\ u \in Users /\ listedAt[g][u] # Never /\ entry.expiration \in Nat
      /\ listedAt[g][u] + Lifetime >= entry.expiration
      /\ job.start \in Nat => listedAt[g][u] >= job.start \/ entry.expiration > now
  BY AnswerIsRecent DEF DispatchInv, Entries, Told
<1>2. /\ job.start \in Nat /\ job.start <= now /\ now \in Nat
      /\ listedAt[g][u] \in Int /\ Lifetime \in Nat
  BY <1>1, GroupMembershipAssumption
  DEF Lifetime, DispatchInv, TypeOK, GroupTypeOK, JobOK, Jobs, Times, Never
<1> QED BY <1>1, <1>2 DEF Recent

LEMMA RecentStays ==
  ASSUME DispatchInv, GroupStep, job'.start = job.start, NEW g \in Groups, NEW u \in Users,
         Recent(listedAt[g][u])
  PROVE  Recent(listedAt[g][u])'
<1>1. /\ now' \in Nat /\ now' >= now /\ now \in Nat
      /\ listedAt'[g][u] = listedAt[g][u] \/ listedAt'[g][u] = now'
  BY HistoryGrows DEF DispatchInv, TypeOK, GroupTypeOK
<1>2. job.start \in Nat /\ job.start <= now
  BY DEF DispatchInv, TypeOK, JobOK, Jobs
<1> QED BY <1>1, <1>2 DEF Recent, Never

(* A step inside a handler keeps the invariant when its parts do.          *)
LEMMA InsideHandler ==
  ASSUME DispatchInv, GroupStep, PushesDue,
         JobOK(job'), tokens' \subseteq Devices, pushes' \in [Devices -> Nat],
         StoredOK',
         job.phase # "idle", job'.phase # "idle",
         job'.event = job.event, job'.start = job.start,
         Routed',
         job'.phase = "fanout" => job.phase = "fanout" /\ job'.left \subseteq job.left
  PROVE  DispatchInv'
<1>1. GroupInv'
  BY GroupInvStep DEF DispatchInv
<1>2. TypeOK'
  BY <1>1 DEF GroupInv, TypeOK
<1>3. job'.start <= now'
  <2>1. job.start <= now /\ job.start \in Nat /\ now \in Nat /\ now' \in Nat
    BY <1>1 DEF DispatchInv, TypeOK, JobOK, Jobs, GroupInv, GroupTypeOK
  <2>2. now' >= now
    BY <2>1 DEF GroupStep, Relay, Tick, PublishMembers, PublishAdmins, GetMembers, ClearCache,
                groupVars
  <2> QED BY <2>1, <2>2
<1>4. AudienceRecent'
  <2> SUFFICES ASSUME job'.phase = "fanout", NEW u \in job'.left
               PROVE  Recent(listedAt[job.event.h][u])'
    BY DEF AudienceRecent
  <2>1. u \in Users /\ job.event.h \in Groups /\ Recent(listedAt[job.event.h][u])
    BY EventInWork DEF DispatchInv, AudienceRecent, Routed, TypeOK, JobOK, Jobs
  <2> QED BY <2>1, RecentStays
<1>5. SenderHearsNothing'
  <2> SUFFICES ASSUME NEW d \in Devices, d[1] = job.event.sender PROVE pushes'[d] = 0
    BY DEF SenderHearsNothing
  <2>1. pushes[d] = 0 /\ pushes'[d] \in Nat
    BY DEF DispatchInv, SenderHearsNothing
  <2>2. ~(pushes'[d] > pushes[d])
    BY DEF PushesDue
  <2> QED BY <2>1, <2>2
<1> QED BY <1>1, <1>2, <1>3, <1>4, <1>5 DEF DispatchInv, Quiet

-----------------------------------------------------------------------------
(* What the parts of a step do: "step" is the handler's progress without   *)
(* the users it failed.                                                    *)

Follows(j, step) ==
  /\ JobOK(j) /\ j.phase = step.phase /\ j.event = step.event
  /\ j.left = step.left /\ j.start = step.start

PushesOnly(u) ==
  /\ tokens' \subseteq Devices /\ pushes' \in [Devices -> Nat]
  /\ \A d \in Devices : d[1] # u => pushes'[d] = pushes[d]

LEMMA FailedFollows ==
  ASSUME NEW step, JobOK(step), NEW F \in SUBSET Users
  PROVE  Follows([step EXCEPT !.failed = @ \cup F], step)
  BY DEF Follows, JobOK, Jobs

LEMMA NotifyUserEffect ==
  ASSUME TypeOK, NEW u \in Users, NEW reached, NEW step, JobOK(step),
         NotifyUser(u, reached, step)
  PROVE  Follows(job', step) /\ PushesOnly(u)
<1>1. Follows(job', step)
  BY FailedFollows DEF NotifyUser
<1>2. \A d \in Devices : pushes'[d] = pushes[d] + (IF d[1] = u /\ d[2] \in reached THEN 1 ELSE 0)
  BY DEF NotifyUser
<1>3. pushes' \in [Devices -> Nat]
  BY DEF NotifyUser, TypeOK
<1>4. \A d \in Devices : d[1] # u => pushes'[d] = pushes[d]
  BY <1>2 DEF TypeOK
<1> QED BY <1>1, <1>3, <1>4 DEF NotifyUser, PushesOnly, TypeOK

LEMMA Counted ==
  ASSUME NEW S, NEW f \in [S -> Nat], NEW k, NEW n \in Nat
  PROVE  [f EXCEPT ![k] = f[k] + n] \in [S -> Nat]
<1>1. CASE k \in S
  BY <1>1
<1>2. CASE k \notin S
  BY <1>2
<1> QED BY <1>1, <1>2

LEMMA NotifyAppEffect ==
  ASSUME TypeOK, NEW u \in Users, NEW a \in Apps, NEW reached \in BOOLEAN, NEW step,
         JobOK(step), NotifyApp(u, a, reached, step)
  PROVE  Follows(job', step) /\ PushesOnly(u)
<1>1. Follows(job', step)
  BY FailedFollows DEF NotifyApp
<1>2. pushes' = [pushes EXCEPT ![<<u, a>>] = @ + (IF reached THEN 1 ELSE 0)]
  BY DEF NotifyApp
<1>3. pushes' \in [Devices -> Nat]
  <2>1. (IF reached THEN 1 ELSE 0) \in Nat
    OBVIOUS
  <2> QED BY <1>2, <2>1, Counted DEF TypeOK
<1>4. ASSUME NEW d \in Devices, d[1] # u PROVE pushes'[d] = pushes[d]
  <2>1. d # <<u, a>>
    BY <1>4
  <2> QED BY <1>2, <2>1 DEF TypeOK
<1> QED BY <1>1, <1>3, <1>4 DEF NotifyApp, PushesOnly, TypeOK

LEMMA ProceedEffect ==
  ASSUME TypeOK, NEW step, JobOK(step), Proceed(step)
  PROVE  Follows(job', step) /\ \A u \in Users : PushesOnly(u)
  BY DEF Proceed, Follows, PushesOnly, TypeOK

LEMMA StoredStays ==
  ASSUME TypeOK, UNCHANGED storedVars PROVE StoredOK'
  BY DEF TypeOK, StoredOK, storedVars

LEMMA ForgetEffect ==
  ASSUME TypeOK, NEW tried, Forgotten(tried), NEW dropped, Unsubscribed(dropped)
  PROVE  StoredOK'
<1>1. asked' \subseteq Direct /\ shared' \subseteq FiltersOf(Direct)
  BY DEF TypeOK, StoredOK, Forgotten
<1>2. PICK deleted :
        filterAt' = [k \in FilterKeys |-> IF k \in deleted THEN Absent ELSE filterAt[k]]
  BY DEF Unsubscribed
<1>3. subs' \subseteq Subscriptions /\ filterAt' \in [FilterKeys -> Nat \cup {Absent}]
  BY <1>2 DEF TypeOK, StoredOK, Unsubscribed
<1> QED BY <1>1, <1>3 DEF StoredOK

LEMMA DropEffect ==
  ASSUME TypeOK, NEW tried, Drop(tried) PROVE StoredOK'
<1> PICK dropped : Unsubscribed(dropped)
  BY DEF Drop
<1> QED BY ForgetEffect DEF Drop

(* A push to a single user, who is not the sender and may hear.            *)
LEMMA PushDue ==
  ASSUME DispatchInv, NEW u \in Users, PushesOnly(u),
         u # job.event.sender, OfGroup(job.event) => Recent(listedAt[job.event.h][u])
  PROVE  PushesDue
<1> SUFFICES ASSUME NEW d \in Devices, pushes'[d] > pushes[d] PROVE d[1] = u
  BY DEF PushesDue
<1>1. pushes[d] \in Nat
  BY DEF DispatchInv, TypeOK
<1> QED BY <1>1 DEF PushesOnly

LEMMA NoPushDue ==
  ASSUME DispatchInv, NEW step, Proceed(step)
  PROVE  PushesDue
<1>1. \A d \in Devices : pushes[d] \in Nat /\ pushes'[d] = pushes[d]
  BY DEF DispatchInv, TypeOK, Proceed
<1> QED BY <1>1 DEF PushesDue

-----------------------------------------------------------------------------
LEMMA MentionStep ==
  ASSUME DispatchInv, NEW u \in Users, MentionMember(u)
  PROVE  DispatchInv' /\ PushesDue
<1> DEFINE g == job.event.h
           step == NextMention(u)
           unsure == [step EXCEPT !.failed = @ \cup {u}]
<1>1. /\ job.phase = "mentions" /\ job.queue # <<>> /\ UNCHANGED storedVars
      /\ TypeOK /\ g \in Groups
  BY EventInWork DEF MentionMember, DispatchInv, Routed
<1>2. JobOK(step) /\ Follows(step, job)
  <2>1. Tail(job.queue) \in Seq(Users)
    BY <1>1 DEF TypeOK, JobOK, Jobs
  <2> QED BY <1>1, <2>1 DEF NextMention, TypeOK, JobOK, Jobs, Follows
<1>3. JobOK(unsure) /\ Follows(unsure, job)
  BY <1>2, FailedFollows DEF Follows
<1>4. ASSUME GroupStep, PushesDue, Follows(job', job), PushesOnly(u)
      PROVE  DispatchInv' /\ PushesDue
  <2>1. Routed'
    BY <1>1, <1>4 DEF Routed, Follows, DispatchInv
  <2> QED BY <1>1, <1>4, <2>1, InsideHandler, StoredStays DEF Follows, PushesOnly, TypeOK
<1>5. ASSUME NEW next, JobOK(next), Follows(next, job), Proceed(next), GroupStep
      PROVE  DispatchInv' /\ PushesDue
  BY <1>1, <1>4, <1>5, ProceedEffect, NoPushDue DEF Follows
<1>6. CASE IsSender(u) /\ Proceed(step) /\ UNCHANGED groupVars
  BY <1>2, <1>5, <1>6 DEF GroupStep
<1>7. ASSUME ~IsSender(u), NEW entry \in Told(g), GetMembers(g, entry),
             IF u \in entry.members
             THEN \E reached \in SUBSET Reachable(u) : NotifyUser(u, reached, step)
             ELSE Proceed(IF entry.complete THEN step ELSE unsure)
      PROVE  DispatchInv' /\ PushesDue
  <2>1. GroupStep
    BY <1>1, <1>7 DEF GroupStep
  <2>2. ASSUME u \in entry.members, NEW reached, NotifyUser(u, reached, step)
        PROVE  DispatchInv' /\ PushesDue
    <3>1. Follows(job', step) /\ PushesOnly(u)
      BY <1>1, <1>2, <2>2, NotifyUserEffect
    <3>2. PushesDue
      BY <1>1, <1>7, <2>2, <3>1, ToldIsRecent, PushDue DEF IsSender
    <3> QED BY <1>2, <1>4, <2>1, <3>1, <3>2 DEF Follows
  <2>3. CASE u \notin entry.members
    BY <1>2, <1>3, <1>5, <1>7, <2>1, <2>3
  <2> QED BY <1>7, <2>2, <2>3
<1>8. CASE GetMembersFails(g) /\ Proceed(unsure)
  BY <1>3, <1>5, <1>8 DEF GroupStep, GetMembersFails
<1> QED BY <1>6, <1>7, <1>8 DEF MentionMember

LEMMA DirectStep ==
  ASSUME DispatchInv, NEW u \in Users, DirectMessage(u) PROVE DispatchInv' /\ PushesDue
<1> DEFINE step == NextMention(u)
<1>1. /\ TypeOK /\ job.phase = "direct" /\ job.queue # <<>> /\ ~OfGroup(job.event)
      /\ GroupStep /\ UNCHANGED storedVars
  BY DEF DirectMessage, DispatchInv, Routed, GroupStep, OfGroup
<1>2. JobOK(step) /\ step.event = job.event /\ step.start = job.start /\ step.phase = "direct"
  <2>1. Tail(job.queue) \in Seq(Users)
    BY <1>1 DEF TypeOK, JobOK, Jobs
  <2> QED BY <1>1, <2>1 DEF NextMention, TypeOK, JobOK, Jobs
<1>3. Follows(job', step) /\ PushesOnly(u) /\ PushesDue
  <2>1. CASE Proceed(step)
    BY <1>1, <1>2, <2>1, ProceedEffect, NoPushDue
  <2>2. ASSUME ~IsSender(u), NEW reached, NotifyUser(u, reached, step)
        PROVE  Follows(job', step) /\ PushesOnly(u) /\ PushesDue
    <3>1. Follows(job', step) /\ PushesOnly(u)
      BY <1>1, <1>2, <2>2, NotifyUserEffect
    <3> QED BY <1>1, <2>2, <3>1, PushDue DEF IsSender
  <2> QED BY <2>1, <2>2 DEF DirectMessage
<1> HIDE DEF step
<1>4. Routed'
  BY <1>1, <1>2, <1>3 DEF Routed, Follows, DispatchInv
<1> QED BY <1>1, <1>2, <1>3, <1>4, InsideHandler, StoredStays DEF TypeOK, Follows, PushesOnly

LEMMA StartScanStep ==
  ASSUME DispatchInv, StartScan PROVE DispatchInv' /\ PushesDue
<1> DEFINE step == [job EXCEPT !.phase = "scan", !.left = Subscribers]
<1>1. /\ TypeOK /\ job.phase = "mentions" /\ Proceed(step) /\ GroupStep
      /\ UNCHANGED storedVars
  BY DEF StartScan, DispatchInv, GroupStep
<1>2. Subscribers \subseteq Users
  BY <1>1, DispatchAssumption DEF TypeOK, StoredOK, Subscribers
<1>3. JobOK(step) /\ step.event = job.event /\ step.start = job.start /\ step.phase = "scan"
  BY <1>1, <1>2 DEF TypeOK, JobOK, Jobs, Phases
<1>4. PushesDue /\ job' = step /\ UNCHANGED <<tokens, pushes>>
  BY <1>1, NoPushDue DEF Proceed
<1> HIDE DEF step
<1>5. Routed'
  BY <1>3, <1>4 DEF Routed
<1> QED BY <1>1, <1>3, <1>4, <1>5, InsideHandler, StoredStays DEF TypeOK

LEMMA CheckBroadcastStep ==
  ASSUME DispatchInv, CheckBroadcast PROVE DispatchInv' /\ PushesDue
<1>1. PICK phase \in {"members", "finished"} : Proceed([job EXCEPT !.phase = phase])
  BY DEF CheckBroadcast
<1> DEFINE step == [job EXCEPT !.phase = phase]
<1>2. TypeOK /\ job.phase = "broadcast" /\ GroupStep /\ UNCHANGED storedVars
  BY DEF CheckBroadcast, DispatchInv, GroupStep, GetAdmins
<1>3. JobOK(step) /\ step.event = job.event /\ step.start = job.start /\ step.phase = phase
  BY <1>2 DEF TypeOK, JobOK, Jobs, Phases
<1>4. PushesDue /\ job' = step /\ UNCHANGED <<tokens, pushes>>
  BY <1>1, NoPushDue DEF Proceed
<1> HIDE DEF step
<1>5. Routed'
  BY <1>2, <1>3, <1>4 DEF Routed, DispatchInv
<1> QED BY <1>2, <1>3, <1>4, <1>5, InsideHandler, StoredStays DEF TypeOK

LEMMA FetchAudienceStep ==
  ASSUME DispatchInv, FetchAudience PROVE DispatchInv' /\ PushesDue
<1> DEFINE g == job.event.h
<1>1. TypeOK /\ job.phase = "members" /\ g \in Groups /\ UNCHANGED storedVars
  BY EventInWork DEF FetchAudience, DispatchInv, Routed
<1>2. PICK entry \in Told(g) :
        /\ GetMembers(g, entry)
        /\ Proceed([job EXCEPT !.phase = "fanout", !.left = entry.members,
                               !.failed = IF entry.complete THEN {} ELSE Users])
  BY DEF FetchAudience
<1> DEFINE step == [job EXCEPT !.phase = "fanout", !.left = entry.members,
                               !.failed = IF entry.complete THEN {} ELSE Users]
<1>3. GroupStep
  BY <1>1, <1>2 DEF GroupStep
<1>4. entry.members \subseteq Users
  BY <1>1, ToldIsRecent
<1>5. /\ JobOK(step) /\ step.event = job.event /\ step.start = job.start
      /\ step.phase = "fanout" /\ step.left = entry.members
  BY <1>1, <1>4 DEF TypeOK, JobOK, Jobs, Phases
<1>6. PushesDue /\ job' = step /\ UNCHANGED <<tokens, pushes>>
  BY <1>2, NoPushDue DEF Proceed
<1> HIDE DEF step
<1>7. GroupInv'
  BY <1>3, GroupInvStep DEF DispatchInv
<1>8. TypeOK'
  BY <1>1, <1>5, <1>6, <1>7, StoredStays DEF GroupInv, TypeOK
<1>9. Routed' /\ Quiet'
  BY <1>1, <1>5, <1>6 DEF Routed, Quiet, DispatchInv
<1>10. AudienceRecent'
  <2> SUFFICES ASSUME NEW u \in entry.members PROVE Recent(listedAt[g][u])'
    BY <1>5, <1>6 DEF AudienceRecent
  <2> QED BY <1>1, <1>3, <1>5, <1>6, ToldIsRecent, RecentStays
<1>11. job'.start <= now' /\ SenderHearsNothing'
  BY <1>1, <1>2, <1>5, <1>6 DEF DispatchInv, SenderHearsNothing, GetMembers
<1> QED BY <1>6, <1>7, <1>8, <1>9, <1>10, <1>11 DEF DispatchInv

LEMMA FanOutStep ==
  ASSUME DispatchInv, NEW u \in Users, FanOut(u) PROVE DispatchInv' /\ PushesDue
<1> DEFINE step == [job EXCEPT !.left = @ \ {u}]
<1>1. /\ TypeOK /\ job.phase = "fanout" /\ u \in job.left /\ job.event.h \in Groups
      /\ GroupStep /\ UNCHANGED storedVars
  BY EventInWork DEF FanOut, DispatchInv, Routed, GroupStep
<1>2. /\ JobOK(step) /\ step.event = job.event /\ step.start = job.start
      /\ step.phase = "fanout" /\ step.left \subseteq job.left
  BY <1>1 DEF TypeOK, JobOK, Jobs
<1>3. Follows(job', step) /\ PushesOnly(u) /\ PushesDue
  <2>1. CASE IsSender(u)
    BY <1>1, <1>2, <2>1, ProceedEffect, NoPushDue DEF FanOut
  <2>2. CASE ~IsSender(u)
    <3>1. PICK reached : NotifyUser(u, reached, step)
      BY <2>2 DEF FanOut
    <3>2. Follows(job', step) /\ PushesOnly(u)
      BY <1>1, <1>2, <3>1, NotifyUserEffect
    <3>3. Recent(listedAt[job.event.h][u])
      BY <1>1 DEF DispatchInv, AudienceRecent
    <3> QED BY <2>2, <3>2, <3>3, PushDue DEF IsSender
  <2> QED BY <2>1, <2>2
<1> HIDE DEF step
<1>4. Routed'
  BY <1>1, <1>2, <1>3 DEF Routed, Follows, DispatchInv
<1> QED BY <1>1, <1>2, <1>3, <1>4, InsideHandler, StoredStays DEF TypeOK, Follows, PushesOnly

LEMMA ScanUserStep ==
  ASSUME DispatchInv, NEW u \in Users, ScanUser(u) PROVE DispatchInv' /\ PushesDue
<1> DEFINE step == [job EXCEPT !.left = @ \ {u}]
           failed == [step EXCEPT !.failed = @ \cup {u}]
<1>1. TypeOK /\ job.phase = "scan" /\ job.event.h \in Groups \cup {NoGroup}
  BY EventInWork DEF ScanUser, DispatchInv
<1>2. JobOK(step) /\ step.event = job.event /\ step.start = job.start /\ step.phase = "scan"
  BY <1>1 DEF TypeOK, JobOK, Jobs
<1>3. JobOK(failed) /\ Follows(failed, step) /\ Follows(step, step)
  BY <1>2, FailedFollows DEF Follows
<1> HIDE DEF step, failed
<1>4. ASSUME GroupStep, PushesDue, Follows(job', step), PushesOnly(u), StoredOK'
      PROVE  DispatchInv' /\ PushesDue
  <2>1. Routed'
    BY <1>2, <1>4 DEF Routed, Follows
  <2> QED BY <1>1, <1>2, <1>4, <2>1, InsideHandler, StoredStays DEF Follows, PushesOnly
<1>5. ASSUME NEW next, Follows(next, step), Proceed(next), GroupStep, StoredOK'
      PROVE  DispatchInv' /\ PushesDue
  BY <1>1, <1>4, <1>5, ProceedEffect, NoPushDue DEF Follows
<1>6. ASSUME ~IsSender(u), NEW s \in Matching(u), NEW reached \in BOOLEAN,
             ScanNotifies(u, s, reached, step), GroupStep, StoredOK',
             OfGroup(job.event) => Recent(listedAt[job.event.h][u])
      PROVE  DispatchInv' /\ PushesDue
  <2>1. s.app \in Apps
    BY <1>1, DispatchAssumption DEF Matching, Readable, TypeOK
  <2>2. Follows(job', step) /\ PushesOnly(u)
    BY <1>1, <1>2, <1>6, <2>1, NotifyAppEffect DEF ScanNotifies
  <2>3. PushesDue
    BY <1>6, <2>2, PushDue DEF IsSender
  <2> QED BY <1>4, <1>6, <2>2, <2>3
<1>7. CASE ScanSkips(u) /\ Proceed(step) /\ UNCHANGED <<groupVars, storedVars>>
  BY <1>1, <1>3, <1>5, <1>7, StoredStays DEF GroupStep
<1>8. ASSUME ~ScanSkips(u), ScanAll(u, step)
      PROVE  DispatchInv' /\ PushesDue
  <2>1. PICK dropped \in SUBSET Idlers(u) :
          /\ Unsubscribed(dropped) /\ Forgotten(Idlers(u)) /\ GroupStep
          /\ Proceed([step EXCEPT !.failed = @ \cup (IF dropped = Idlers(u) THEN {} ELSE {u})])
    BY <1>8 DEF ScanAll, GroupStep
  <2>2. Follows([step EXCEPT !.failed = @ \cup (IF dropped = Idlers(u) THEN {} ELSE {u})], step)
    BY <1>2, FailedFollows
  <2> QED BY <1>1, <1>5, <2>1, <2>2, ForgetEffect
<1>9. ASSUME ~ScanSkips(u), NEW tried \in SUBSET Idlers(u), NEW s \in Matching(u),
             ScanMatch(u, s, tried, step)
      PROVE  DispatchInv' /\ PushesDue
  <2>1. ~IsSender(u)
    BY <1>9 DEF ScanSkips
  <2>2. CASE /\ job.event.h = NoGroup /\ UNCHANGED groupVars /\ Drop(tried)
             /\ \E reached \in BOOLEAN : ScanNotifies(u, s, reached, step)
    BY <1>1, <1>6, <2>1, <2>2, DropEffect DEF GroupStep, OfGroup
  <2>3. ASSUME job.event.h # NoGroup, NEW entry \in Told(job.event.h),
               GetMembers(job.event.h, entry), u \in entry.members, Drop(tried),
               \E reached \in BOOLEAN : ScanNotifies(u, s, reached, step)
        PROVE  DispatchInv' /\ PushesDue
    <3>1. GroupStep /\ Recent(listedAt[job.event.h][u])
      BY <1>1, <2>3, ToldIsRecent DEF GroupStep
    <3> QED BY <1>1, <1>6, <2>1, <2>3, <3>1, DropEffect
  <2>4. ASSUME job.event.h # NoGroup, NEW entry \in Told(job.event.h),
               GetMembers(job.event.h, entry), ScanRejects(u, s, tried, entry, step)
        PROVE  DispatchInv' /\ PushesDue
    <3>1. PICK gone : Drop(gone)
      BY <2>4 DEF ScanRejects
    <3>2. Proceed([step EXCEPT !.failed = @ \cup (IF entry.complete THEN {} ELSE {u})])
      BY <2>4 DEF ScanRejects
    <3>3. Follows([step EXCEPT !.failed = @ \cup (IF entry.complete THEN {} ELSE {u})], step)
      BY <1>2, FailedFollows
    <3>4. GroupStep
      BY <1>1, <2>4 DEF GroupStep
    <3> QED BY <1>1, <1>5, <3>1, <3>2, <3>3, <3>4, DropEffect
  <2>5. CASE GetMembersFails(job.event.h) /\ Drop(tried) /\ Proceed(failed)
    BY <1>1, <1>3, <1>5, <2>5, DropEffect DEF GroupStep, GetMembersFails
  <2> QED BY <1>9, <2>2, <2>3, <2>4, <2>5 DEF ScanMatch, failed
<1> QED BY <1>7, <1>8, <1>9 DEF ScanUser, step

LEMMA TallyStep ==
  ASSUME DispatchInv, Tally PROVE DispatchInv' /\ PushesDue
<1> DEFINE on == job.event.kind = "other" /\ job.event.live
           step == [job EXCEPT !.served = Served(job.event),
                     !.phase = IF on THEN "mentioned" ELSE "finished",
                     !.queue = IF on THEN job.event.mentions ELSE <<>>]
<1>1. /\ TypeOK /\ job.phase = "scan" /\ job.left = {} /\ job.event.h = NoGroup
      /\ Proceed(step) /\ GroupStep /\ UNCHANGED storedVars
  BY DEF Tally, DispatchInv, GroupStep
<1>2. Served(job.event) \subseteq Users
  BY <1>1, DispatchAssumption DEF TypeOK, StoredOK, Subscribers, Served
<1>3. (IF on THEN job.event.mentions ELSE <<>>) \in Seq(Users)
  BY <1>1, EventInWork
<1>4. JobOK(step)
  BY <1>1, <1>2, <1>3 DEF TypeOK, JobOK, Jobs, Phases
<1>5. /\ step.event = job.event /\ step.start = job.start
      /\ step.phase \in {"mentioned", "finished"}
  BY <1>1 DEF TypeOK, JobOK, Jobs
<1>6. PushesDue /\ job' = step /\ UNCHANGED <<tokens, pushes>>
  BY <1>1, NoPushDue DEF Proceed
<1> HIDE DEF step, on
<1>7. Routed'
  BY <1>1, <1>5, <1>6 DEF Routed
<1> QED BY <1>1, <1>4, <1>5, <1>6, <1>7, InsideHandler, StoredStays DEF TypeOK

LEMMA MentionAnyoneStep ==
  ASSUME DispatchInv, NEW u \in Users, MentionAnyone(u) PROVE DispatchInv' /\ PushesDue
<1> DEFINE step == NextMention(u)
<1>1. /\ TypeOK /\ job.phase = "mentioned" /\ job.queue # <<>> /\ job.event.h = NoGroup
      /\ GroupStep /\ UNCHANGED storedVars
  BY DEF MentionAnyone, DispatchInv, Routed, GroupStep
<1>2. JobOK(step) /\ step.event = job.event /\ step.start = job.start /\ step.phase = "mentioned"
  <2>1. Tail(job.queue) \in Seq(Users)
    BY <1>1 DEF TypeOK, JobOK, Jobs
  <2> QED BY <1>1, <2>1 DEF NextMention, TypeOK, JobOK, Jobs
<1>3. Follows(job', step) /\ PushesOnly(u) /\ PushesDue
  <2>1. CASE Proceed(step)
    BY <1>1, <1>2, <2>1, ProceedEffect, NoPushDue
  <2>2. ASSUME ~IsSender(u), NEW reached, NotifyUser(u, reached, step)
        PROVE  Follows(job', step) /\ PushesOnly(u) /\ PushesDue
    <3>1. Follows(job', step) /\ PushesOnly(u)
      BY <1>1, <1>2, <2>2, NotifyUserEffect
    <3> QED BY <1>1, <2>2, <3>1, PushDue DEF IsSender, OfGroup
  <2> QED BY <2>1, <2>2 DEF MentionAnyone
<1> HIDE DEF step
<1>4. Routed'
  BY <1>1, <1>2, <1>3 DEF Routed, Follows
<1> QED BY <1>1, <1>2, <1>3, <1>4, InsideHandler, StoredStays DEF TypeOK, Follows, PushesOnly

LEMMA FinishStep ==
  ASSUME DispatchInv, Finish PROVE DispatchInv' /\ PushesDue
<1> DEFINE step == [job EXCEPT !.phase = "finished"]
<1>1. /\ TypeOK /\ job.phase \in {"fanout", "scan", "direct", "mentioned"}
      /\ job.left = {} \/ job.phase \in {"direct", "mentioned"}
      /\ Proceed(step) /\ GroupStep /\ UNCHANGED storedVars
  BY DEF Finish, DispatchInv, GroupStep
<1>2. JobOK(step) /\ step.event = job.event /\ step.start = job.start /\ step.phase = "finished"
  BY <1>1 DEF TypeOK, JobOK, Jobs, Phases
<1>3. PushesDue /\ job' = step /\ UNCHANGED <<tokens, pushes>>
  BY <1>1, NoPushDue DEF Proceed
<1> HIDE DEF step
<1>4. Routed'
  BY <1>2, <1>3 DEF Routed
<1> QED BY <1>1, <1>2, <1>3, <1>4, InsideHandler, StoredStays DEF TypeOK

(* Between two events: nothing is pushed, and the handler's part is void.  *)
LEMMA Between ==
  ASSUME DispatchInv, GroupStep, JobOK(job'), tokens' \subseteq Devices,
         StoredOK',
         pushes' = Silence, job'.start <= now',
         job'.phase \in {"idle", "direct", "mentions", "broadcast", "scan", "finished"},
         job'.phase \in {"mentions", "broadcast"} => job'.event.h # NoGroup,
         job'.phase = "direct" => job'.event.kind = "direct"
  PROVE  DispatchInv' /\ PushesDue
<1>1. GroupInv'
  BY GroupInvStep DEF DispatchInv
<1>2. Silence \in [Devices -> Nat] /\ \A d \in Devices : Silence[d] = 0
  BY DEF Silence
<1>3. TypeOK'
  BY <1>1, <1>2 DEF GroupInv, TypeOK
<1>4. PushesDue
  BY <1>2 DEF PushesDue, DispatchInv, TypeOK
<1> QED BY <1>1, <1>2, <1>3, <1>4
        DEF DispatchInv, Routed, AudienceRecent, Quiet, SenderHearsNothing

LEMMA IdleOK == JobOK(Idle) /\ Idle.phase = "idle" /\ Idle.start = 0
<1>1. <<>> \in Seq(Users)
  OBVIOUS
<1> QED BY <1>1, DispatchAssumption DEF Idle, JobOK, Jobs, Phases

LEMMA TakeStep ==
  ASSUME DispatchInv, NEW e \in Events, Take(e) PROVE DispatchInv' /\ PushesDue
<1>1. /\ TypeOK /\ job.phase = "idle" /\ pushes = Silence /\ GroupStep
      /\ now \in Nat /\ now' = now /\ UNCHANGED <<tokens, storedVars, pushes>>
  BY DEF Take, DispatchInv, Quiet, GroupStep, groupVars, TypeOK, GroupTypeOK
<1>2. e.mentions \in Seq(Users) /\ e # NoEvent /\ <<>> \in Seq(Users)
  BY DispatchAssumption
<1>3. Subscribers \subseteq Users
  BY <1>1, DispatchAssumption DEF TypeOK, StoredOK, Subscribers
<1>4. /\ FirstPhase(e) \in {"direct", "mentions", "broadcast", "scan", "finished"}
      /\ FirstPhase(e) \in {"mentions", "broadcast"} => e.h # NoGroup
      /\ FirstPhase(e) = "direct" => e.kind = "direct"
  BY DEF FirstPhase
<1> DEFINE step == [Idle EXCEPT !.phase = FirstPhase(e), !.event = e, !.start = now,
                     !.queue = IF FirstPhase(e) \in {"direct", "mentions"} THEN e.mentions ELSE <<>>,
                     !.left = IF FirstPhase(e) = "scan" THEN Subscribers ELSE {}]
<1>5. JobOK(step) /\ step.phase = FirstPhase(e) /\ step.event = e /\ step.start = now
  <2>1. (IF FirstPhase(e) \in {"direct", "mentions"} THEN e.mentions ELSE <<>>) \in Seq(Users)
    BY <1>2
  <2>2. (IF FirstPhase(e) = "scan" THEN Subscribers ELSE {}) \subseteq Users
    BY <1>3
  <2> QED BY <1>1, <1>2, <1>4, <2>1, <2>2 DEF Idle, JobOK, Jobs, Phases
<1>6. job' = step
  BY DEF Take
<1> HIDE DEF step
<1> QED BY <1>1, <1>4, <1>5, <1>6, Between, StoredStays DEF TypeOK

LEMMA EndStep ==
  ASSUME DispatchInv, Return \/ Abandon \/ Restart PROVE DispatchInv' /\ PushesDue
<1>1. /\ GroupStep /\ job' = Idle /\ pushes' = Silence /\ UNCHANGED tokens
  BY DEF Return, Abandon, Restart, GroupStep
<1>2. now' \in Nat
  BY <1>1, GroupInvStep DEF DispatchInv, GroupInv, GroupTypeOK
<1>3. StoredOK'
  <2>1. CASE UNCHANGED storedVars
    BY <2>1, StoredStays DEF DispatchInv
  <2>2. CASE Restart
    BY <2>2 DEF Restart, DispatchInv, TypeOK, StoredOK, FiltersOf
  <2> QED BY <2>1, <2>2 DEF Return, Abandon
<1> QED BY <1>1, <1>2, <1>3, IdleOK, Between DEF DispatchInv, TypeOK

LEMMA ControlStep ==
  ASSUME DispatchInv, Control PROVE DispatchInv' /\ PushesDue
<1>1. TypeOK /\ job.phase = "idle" /\ pushes = Silence /\ job.start <= now
  BY DEF Control, DispatchInv, Quiet
<1>2. UNCHANGED <<groupVars, job, pushes>>
  BY DEF Control, Register, Deregister, Upsert, Unsubscribe
<1>3. GroupStep /\ now' = now
  BY <1>2 DEF GroupStep, groupVars
<1> DEFINE Typed == tokens' \subseteq Devices /\ StoredOK'
<1>4. Typed
  <2>1. ASSUME NEW d \in Devices, Register(d) PROVE Typed
    BY <1>1, <2>1, StoredStays DEF Register, TypeOK
  <2>2. ASSUME NEW d \in Devices, Deregister(d) PROVE Typed
    BY <1>1, <2>2 DEF Deregister, Forgotten, TypeOK, StoredOK
  <2>3. ASSUME NEW s \in Subscriptions, Unsubscribe(s) PROVE Typed
    BY <1>1, <2>3, DropEffect DEF Unsubscribe, TypeOK
  <2>4. ASSUME NEW s \in Subscriptions, NEW at \in Dates, Upsert(s, at) PROVE Typed
    <3>1. at \in Nat
      BY DispatchAssumption
    <3>2. asked' \subseteq Direct /\ shared' \subseteq FiltersOf(Direct)
      BY <1>1, <2>4 DEF Upsert, TypeOK, StoredOK, FiltersOf
    <3> QED BY <1>1, <2>4, <3>1, <3>2 DEF Upsert, TypeOK, StoredOK
  <2> QED BY <2>1, <2>2, <2>3, <2>4 DEF Control
<1> QED BY <1>1, <1>2, <1>3, <1>4, Between DEF TypeOK

LEMMA EnvironmentStep ==
  ASSUME DispatchInv, Environment PROVE DispatchInv' /\ PushesDue
<1>1. TypeOK /\ GroupStep /\ UNCHANGED <<tokens, storedVars, job, pushes>>
  BY DEF Environment, DispatchInv, GroupStep, dispatchVars
<1>2. PushesDue
  BY <1>1 DEF PushesDue, TypeOK
<1>3. CASE job.phase = "idle"
  <2>1. now' >= now /\ now \in Nat /\ now' \in Nat /\ job.start \in Nat /\ job.start <= now
    BY <1>1, GroupInvStep
    DEF Environment, Relay, PublishMembers, PublishAdmins, Tick, DispatchInv, GroupInv,
        GroupTypeOK, TypeOK, JobOK, Jobs
  <2> QED BY <1>1, <1>3, <2>1, Between, StoredStays DEF DispatchInv, Quiet, TypeOK
<1>4. CASE job.phase # "idle"
  <2>1. Routed'
    BY <1>1 DEF Routed, DispatchInv
  <2> QED BY <1>1, <1>2, <1>4, <2>1, InsideHandler, StoredStays DEF TypeOK
<1> QED BY <1>3, <1>4

LEMMA DispatchStart == Init => DispatchInv
<1> SUFFICES ASSUME Init PROVE DispatchInv
  OBVIOUS
<1>1. GroupInv
  BY GroupStart DEF Init
<1>2. JobOK(job) /\ job.phase = "idle" /\ job.start = 0 /\ now = 0
  BY IdleOK DEF Init, GroupInit
<1>3. pushes \in [Devices -> Nat] /\ StoredOK
  BY DEF Init, Silence, StoredOK
<1>4. TypeOK
  BY <1>1, <1>2, <1>3 DEF Init, GroupInv, TypeOK
<1> QED BY <1>1, <1>2, <1>4 DEF Init, DispatchInv, Routed, AudienceRecent, Quiet,
           SenderHearsNothing

LEMMA DispatchStep == DispatchInv /\ [Next]_vars => DispatchInv' /\ PushesDue
<1> SUFFICES ASSUME DispatchInv, [Next]_vars PROVE DispatchInv' /\ PushesDue
  OBVIOUS
<1>1. CASE UNCHANGED vars
  <2>1. DispatchInv'
    BY <1>1 DEF vars, groupVars, histories, dispatchVars, storedVars, StoredOK, DispatchInv, GroupInv,
                GroupTypeOK, TypeOK,
                HistoryExact, CachedWereListed, CacheIsRecent, Routed, AudienceRecent, Quiet,
                SenderHearsNothing, Recent, PublicKeys
  <2> QED BY <1>1, <2>1 DEF vars, dispatchVars, PushesDue, DispatchInv, TypeOK
<1>2. CASE Next
  BY <1>2, EnvironmentStep, ControlStep, TakeStep, DirectStep, MentionStep, FanOutStep, ScanUserStep,
     MentionAnyoneStep, StartScanStep, CheckBroadcastStep, FetchAudienceStep, TallyStep,
     FinishStep, EndStep DEF Next
<1> QED BY <1>1, <1>2

(* Who is not a member by a complete answer was missing recently.          *)
LEMMA LeftOutIsRecent ==
  ASSUME DispatchInv, NEW g \in Groups, NEW entry \in Told(g), NEW u \in Users,
         u \notin entry.members, entry.complete
  PROVE  Recent(missingAt[g][u])
<1>1. /\ missingAt[g][u] # Never /\ entry.expiration \in Nat
      /\ missingAt[g][u] + Lifetime >= entry.expiration
      /\ job.start \in Nat => missingAt[g][u] >= job.start \/ entry.expiration > now
  BY AnswerIsRecent DEF DispatchInv, Entries, Told
<1>2. /\ job.start \in Nat /\ job.start <= now /\ now \in Nat
      /\ missingAt[g][u] \in Int /\ Lifetime \in Nat
  BY <1>1, GroupMembershipAssumption
  DEF Lifetime, DispatchInv, TypeOK, GroupTypeOK, JobOK, Jobs, Times, Never
<1> QED BY <1>1, <1>2 DEF Recent

(* What a scan drops.                                                      *)
OrphanedBy(s) ==
  <<s.user, s.app>> \in tokens =>
    /\ s.h = {job.event.h}
    /\ \/ Recent(missingAt[job.event.h][s.user])
       \/ s.user \in job'.failed

LEMMA DropsOnly ==
  ASSUME NEW tried, Drop(tried) PROVE subs \ subs' \subseteq tried
<1> PICK dropped \in SUBSET (tried \cap subs) : Unsubscribed(dropped)
  BY DEF Drop
<1> QED BY DEF Unsubscribed

LEMMA IdlersHaveNoToken ==
  ASSUME NEW u, NEW s \in Idlers(u) PROVE OrphanedBy(s)
  BY DEF Idlers, Readable, OrphanedBy

LEMMA ScanDropsOrphans ==
  ASSUME DispatchInv, NEW u \in Users, ScanUser(u), NEW gone \in subs \ subs'
  PROVE  OrphanedBy(gone)
<1> DEFINE step == [job EXCEPT !.left = @ \ {u}]
<1>1. step \in Jobs /\ job.event.h \in Groups \cup {NoGroup}
  BY EventInWork DEF ScanUser, DispatchInv, TypeOK, JobOK, Jobs
<1> HIDE DEF step
<1>2. CASE UNCHANGED storedVars
  BY <1>2 DEF storedVars
<1>3. CASE ScanAll(u, step)
  <2>1. gone \in Idlers(u)
    BY <1>3 DEF ScanAll, Unsubscribed
  <2> QED BY <2>1, IdlersHaveNoToken
<1>4. ASSUME NEW tried \in SUBSET Idlers(u), Drop(tried) PROVE OrphanedBy(gone)
  BY <1>4, DropsOnly, IdlersHaveNoToken
<1>5. ASSUME NEW tried \in SUBSET Idlers(u), NEW s \in Matching(u),
             job.event.h # NoGroup, NEW entry \in Told(job.event.h), u \notin entry.members,
             ScanRejects(u, s, tried, entry, step)
      PROVE  OrphanedBy(gone)
  <2> DEFINE orphan == IF IsSpecificTo(s, job.event.h) THEN {s} ELSE {}
  <2>1. gone \in tried \cup orphan
    BY <1>5, DropsOnly DEF ScanRejects
  <2>2. CASE gone \in tried
    BY <1>5, <2>2, IdlersHaveNoToken
  <2>3. CASE gone \in orphan
    <3>1. gone = s /\ s.h = {job.event.h} /\ s.user = u
      BY <2>3 DEF IsSpecificTo, Matching, Readable
    <3>2. CASE entry.complete
      BY <1>1, <1>5, <3>1, <3>2, LeftOutIsRecent DEF OrphanedBy
    <3>3. CASE ~entry.complete
      <4>1. job' = [step EXCEPT !.failed = @ \cup {u}]
        BY <1>5, <3>3 DEF ScanRejects, Proceed
      <4> QED BY <1>1, <3>1, <4>1 DEF OrphanedBy, Jobs
    <3> QED BY <3>2, <3>3
  <2> QED BY <2>1, <2>2, <2>3
<1>6. ASSUME NEW tried \in SUBSET Idlers(u), NEW s \in Matching(u), ScanMatch(u, s, tried, step)
      PROVE  OrphanedBy(gone)
  BY <1>4, <1>5, <1>6 DEF ScanMatch
<1> QED BY <1>2, <1>3, <1>6 DEF ScanUser, step, storedVars

LEMMA DropsOrphans ==
  ASSUME DispatchInv, [Next]_vars, job.phase = "scan", job'.phase = "scan",
         NEW gone \in subs \ subs'
  PROVE  OrphanedBy(gone)
<1>1. \E u \in Users : ScanUser(u)
  <2>1. ~ UNCHANGED storedVars
    BY DEF storedVars
  <2>2. ~ UNCHANGED vars /\ ~Environment
    BY <2>1 DEF vars, dispatchVars, Environment
  <2>3. \A u \in Users : ~DirectMessage(u) /\ ~MentionMember(u) /\ ~FanOut(u) /\ ~MentionAnyone(u)
    BY DEF DirectMessage, MentionMember, FanOut, MentionAnyone
  <2>4. ~Control /\ ~StartScan /\ ~CheckBroadcast /\ ~FetchAudience /\ ~Return
        /\ \A e \in Events : ~Take(e)
    BY DEF Control, StartScan, CheckBroadcast, FetchAudience, Return, Take
  <2>5. ~Tally /\ ~Finish /\ ~Abandon
    BY <2>1 DEF Tally, Finish, Abandon
  <2>6. ~Restart
    BY DEF Restart, Idle
  <2> QED BY <2>2, <2>3, <2>4, <2>5, <2>6 DEF Next
<1> QED BY <1>1, ScanDropsOrphans

-----------------------------------------------------------------------------
(* The variables keep their types.                                         *)
THEOREM TypeCorrect == Spec => []TypeOK
<1>1. DispatchInv => TypeOK
  BY DEF DispatchInv
<1> QED BY DispatchStart, DispatchStep, <1>1, PTL DEF Spec

(* What the service believes of a group's members is at most the cache's   *)
(* lifetime old, whatever the relay publishes and however queries end.     *)
THEOREM AnswersRecent == Spec => []CacheIsRecent
<1>1. DispatchInv => CacheIsRecent
  BY DEF DispatchInv, GroupInv
<1> QED BY DispatchStart, DispatchStep, <1>1, PTL DEF Spec

(* Nobody is notified of his own event.                                    *)
THEOREM SenderSilent == Spec => []SenderHearsNothing
<1>1. DispatchInv => SenderHearsNothing
  BY DEF DispatchInv
<1> QED BY DispatchStart, DispatchStep, <1>1, PTL DEF Spec

(* Only members, by a list the relay had not long ago, hear of a group's   *)
(* events, on the three paths: mentions, broadcasts, subscriptions.        *)
THEOREM MembersOnly == Spec => OnlyMembersHear
<1>1. DispatchInv /\ [Next]_vars =>
        [\A d \in Devices : pushes'[d] > pushes[d] /\ OfGroup(job.event) =>
           Recent(listedAt[job.event.h][d[1]])]_vars
  BY DispatchStep DEF PushesDue
<1> QED BY DispatchStart, DispatchStep, <1>1, PTL DEF Spec, OnlyMembersHear

(* No scan drops the subscription of a device in use unless it is for the  *)
(* event's group alone and the user was missing from the list not long     *)
(* ago, by the cache or the relay; a query cut short is the exception.     *)
THEOREM OrphansRemoved == Spec => RemovedWereOrphans
<1>1. DispatchInv /\ [Next]_vars =>
        [\A s \in subs \ subs' :
           job.phase = "scan" /\ job'.phase = "scan" /\ <<s.user, s.app>> \in tokens =>
             /\ s.h = {job.event.h}
             /\ \/ Recent(missingAt[job.event.h][s.user])
                \/ s.user \in job'.failed]_vars
  BY DropsOrphans DEF OrphanedBy
<1> QED BY DispatchStart, DispatchStep, <1>1, PTL DEF Spec, RemovedWereOrphans
=============================================================================
