--------------------------- MODULE GroupMembership ---------------------------
(***************************************************************************)
(* The NIP-29 client of nip29.rs: the lists of members and admins a relay  *)
(* publishes for a group, and the cache of members the service asks before *)
(* it notifies somebody of a group event.  An entry is used until it       *)
(* expires, whatever the relay publishes meanwhile; admins are not cached. *)
(* A query takes up to FetchTimeout: the relay may publish a new list after *)
(* it has answered.  A query it does not complete in time yields an empty  *)
(* answer, which is cached like any other, from the query's end on.        *)
(***************************************************************************)
EXTENDS Integers

CONSTANTS
  Users,
  Groups,
  MemberLists,      \* lists of members a relay may publish
  AdminLists,       \* lists of admins it may publish
  CacheExpiration,  \* cache_expiration
  FetchTimeout,     \* FETCH_TIMEOUT
  MaxTime           \* bound on the clock

\* How a list names a user: not at all, in a tag ["p", key], or in one with a role.
Tags == {"absent", "plain", "role"}

ASSUME GroupMembershipAssumption ==
  /\ MemberLists \subseteq [Users -> Tags] /\ AdminLists \subseteq [Users -> Tags]
  /\ CacheExpiration \in Nat /\ FetchTimeout \in Nat /\ MaxTime \in Nat

VARIABLES
  now,
  memberList,  \* of each group, its latest event of kind 39002
  adminList,   \* of each group, its latest event of kind 39001
  cache,       \* GroupMembershipCache: per group the expiration and the members
  heldAt,      \* history: when a list was last the list of a group
  listedAt,    \* history: when the list of a group last named the user a member
  missingAt    \* history: when it last did not

histories == <<heldAt, listedAt, missingAt>>
groupVars == <<now, memberList, adminList, cache, histories>>

Never == -1
Times == Nat \cup {Never}

\* The tags.public_keys() of nostr-sdk reads plain tags only.
PublicKeys(list) == {u \in Users : list[u] = "plain"}
ExtractPubkeys(list) == {u \in Users : list[u] # "absent"}

\* "complete" is history: the relay completed the query the members come from.  NoEntry
\* stands for a group that is not in the cache; it has expired from the start.
NoEntry == [expiration |-> 0, members |-> {}, complete |-> FALSE]
Entries == [expiration : Nat, members : SUBSET Users, complete : BOOLEAN]

GroupTypeOK ==
  /\ now \in Nat
  /\ memberList \in [Groups -> MemberLists]
  /\ adminList \in [Groups -> AdminLists]
  /\ cache \in [Groups -> Entries]
  /\ heldAt \in [Groups -> [MemberLists -> Times]]
  /\ listedAt \in [Groups -> [Users -> Times]]
  /\ missingAt \in [Groups -> [Users -> Times]]

\* The histories at time t, when the relay has the lists "lists".
Listed(lists, t, g, u) == IF u \in PublicKeys(lists[g]) THEN t ELSE listedAt[g][u]
Missing(lists, t, g, u) == IF u \in PublicKeys(lists[g]) THEN missingAt[g][u] ELSE t

Witness(lists, t) ==
  /\ heldAt' = [g \in Groups |-> [heldAt[g] EXCEPT ![lists[g]] = t]]
  /\ listedAt' = [g \in Groups |-> [u \in Users |-> Listed(lists, t, g, u)]]
  /\ missingAt' = [g \in Groups |-> [u \in Users |-> Missing(lists, t, g, u)]]

GroupInit ==
  /\ now = 0
  /\ memberList \in [Groups -> MemberLists]
  /\ adminList \in [Groups -> AdminLists]
  /\ cache = [g \in Groups |-> NoEntry]
  /\ heldAt = [g \in Groups |-> [list \in MemberLists |->
                 IF list = memberList[g] THEN 0 ELSE Never]]
  /\ listedAt = [g \in Groups |-> [u \in Users |->
                   IF u \in PublicKeys(memberList[g]) THEN 0 ELSE Never]]
  /\ missingAt = [g \in Groups |-> [u \in Users |->
                   IF u \in PublicKeys(memberList[g]) THEN Never ELSE 0]]

-----------------------------------------------------------------------------
PublishMembers(g, list) ==
  /\ memberList' = [memberList EXCEPT ![g] = list]
  /\ Witness(memberList', now)
  /\ UNCHANGED <<now, adminList, cache>>

PublishAdmins(g, list) ==
  /\ adminList' = [adminList EXCEPT ![g] = list]
  /\ UNCHANGED <<now, memberList, cache, histories>>

Tick ==
  /\ now < MaxTime
  /\ now' = now + 1
  /\ Witness(memberList, now + 1)
  /\ UNCHANGED <<memberList, adminList, cache>>

Relay ==
  \/ \E g \in Groups, list \in MemberLists : PublishMembers(g, list)
  \/ \E g \in Groups, list \in AdminLists : PublishAdmins(g, list)
  \/ Tick

-----------------------------------------------------------------------------
\* Mutation: the entry of a group answers for ever.
FreshForEver(g) == cache[g] # NoEntry

\* get_members: an entry answers as long as its expiration is ahead.
Fresh(g) == cache[g].expiration > now

\* Mutation: the expiration is counted from the end of the query's time-out.
EntryFromTimeout(members, complete) ==
  [expiration |-> now + 1 + CacheExpiration, members |-> members, complete |-> complete]

\* update_cache with what a query returned.
Entry(members, complete) ==
  [expiration |-> now + CacheExpiration, members |-> members, complete |-> complete]

\* The lists a query that began after "since" may return when it ends now.
Reported(g, since) ==
  {list \in MemberLists : /\ heldAt[g][list] # Never
                          /\ heldAt[g][list] >= since
                          /\ heldAt[g][list] + FetchTimeout >= now}

\* What a caller may be told: the cached entry while it is fresh, else the outcome of a
\* query the relay completes or does not.
Answers(g, since) ==
  IF Fresh(g) THEN {cache[g]}
  ELSE {Entry(PublicKeys(list), TRUE) : list \in Reported(g, since)} \cup {Entry({}, FALSE)}

\* get_group_members, whose answer is "entry".  A hit writes nothing: the entry is the
\* cached one.
GetMembers(g, entry) ==
  /\ cache' = [cache EXCEPT ![g] = entry]
  /\ UNCHANGED <<now, memberList, adminList, histories>>

\* The query fails, and nothing is cached.
GetMembersFails(g) == ~Fresh(g) /\ UNCHANGED groupVars

\* get_group_admins: the admins the caller is told, by the list of the query's end; the query
\* may time out, or fail.
GetAdmins(g, admins) ==
  /\ admins \in {ExtractPubkeys(adminList[g]), {}}
  /\ UNCHANGED groupVars

\* A new process starts with an empty cache.
ClearCache ==
  /\ cache' = [g \in Groups |-> NoEntry]
  /\ UNCHANGED <<now, memberList, adminList, histories>>

-----------------------------------------------------------------------------
\* The age an answer from the cache can have.
Lifetime == CacheExpiration + FetchTimeout

\* Whom the cache calls a member was one at most CacheExpiration and the duration of a query
\* before the entry expires, and whom a complete answer leaves out was missing then.
CacheIsRecent ==
  \A g \in Groups, u \in Users :
    /\ u \in cache[g].members => listedAt[g][u] + Lifetime >= cache[g].expiration
    /\ u \notin cache[g].members /\ cache[g].complete =>
         missingAt[g][u] + Lifetime >= cache[g].expiration
=============================================================================
