-------------------------- MODULE SubscriptionState --------------------------
(***************************************************************************)
(* The subscriptions of one process: the SubscriptionManager in memory     *)
(* (subscriptions/manager.rs), the subscriptions open at the relay, the    *)
(* subscription sets and the filter data in Redis (redis_store.rs), and    *)
(* what changes them: the upsert, delete and deregistration handlers, the  *)
(* lazy cleanup of a group message (event_handler.rs) and the recovery     *)
(* after a restart (nostr_listener.rs).                                    *)
(*                                                                         *)
(* The handlers run one after the other and the recovery before any of     *)
(* them, so memory is updated in one step; every Redis write is a step of  *)
(* its own, before which the process may die or the write may fail.        *)
(***************************************************************************)
EXTENDS Integers, FiniteSets

CONSTANTS
  Holders,        \* the (app, pubkey) pairs that hold subscriptions or tokens
  Filters,        \* filters as clients write them, one per Redis hash
  Canonical,      \* the form an upsert stores a filter in: [Filters -> Filters]
  Hashes,         \* hashes of normalised filters
  HashOf,         \* compute_filter_hash: [Filters -> Hashes]
  DmHashes,       \* hashes of filters with a direct message kind
  GroupFilters,   \* filters for exactly one group
  HeldDeletes,    \* clients delete only what they hold
  NoTask,         \* the event loop is between two Redis writes of nothing
  MaxRef          \* bound on a reference count

ASSUME SubscriptionStateAssumption ==
  /\ IsFiniteSet(Holders) /\ IsFiniteSet(Filters)
  /\ Canonical \in [Filters -> Filters]
  /\ HashOf \in [Filters -> Hashes]
  /\ \A f \in Filters : /\ Canonical[Canonical[f]] = Canonical[f]
                         /\ HashOf[Canonical[f]] = HashOf[f]
  /\ DmHashes \subseteq Hashes
  /\ HeldDeletes \in BOOLEAN
  /\ MaxRef \in Nat

VARIABLES
  refCount,     \* shared_filters: [hash], 0 if absent
  userFilters,  \* user_filters: [holder]
  filterUsers,  \* filter_users: [hash]
  recounted,    \* history: the hashes a user who held them was counted for again, since
                \* they last had no reference
  userSubs,     \* user_subscriptions: the hashes with a subscription id
  openSubs,     \* how many subscriptions the relay has open: [hash]
  subs,         \* Redis app:{app}:subscriptions:{pubkey}: [holder]
  filterData,   \* Redis app:{app}:filter:{hash}: the <<app, filter>> present
  registered,   \* the holders with a token in Redis
  phase,        \* of the process: down, recovering or running
  todo,         \* the <<holder, filter>> the recovery has still to load
  task          \* the Redis write the event loop is about to make

manager == <<refCount, userFilters, filterUsers, recounted>>
relay   == <<userSubs, openSubs>>
memory  == <<manager, relay>>
redis   == <<subs, filterData, registered>>
vars == <<refCount, userFilters, filterUsers, recounted, userSubs, openSubs,
          subs, filterData, registered, phase, todo, task>>

AppOf(k) == k[1]
UserOf(k) == k[2]
Entries == Holders \X Filters
Data == {<<AppOf(k), f>> : k \in Holders, f \in Filters}

Tasks == [op : {"sadd", "set", "srem", "del", "forget"}, k : Holders, f : Filters,
          evict : BOOLEAN]

TypeOK ==
  /\ refCount \in [Hashes -> Nat]
  /\ userFilters \in [Holders -> SUBSET Hashes]
  /\ filterUsers \in [Hashes -> SUBSET Holders]
  /\ recounted \subseteq Hashes
  /\ userSubs \subseteq Hashes
  /\ openSubs \in [Hashes -> Int]
  /\ subs \in [Holders -> SUBSET Filters]
  /\ filterData \subseteq Data
  /\ registered \subseteq Holders
  /\ phase \in {"down", "recovering", "running"}
  /\ todo \subseteq Entries
  /\ task \in Tasks \cup {NoTask}

EmptyMemory ==
  /\ refCount' = [h \in Hashes |-> 0]
  /\ userFilters' = [k \in Holders |-> {}]
  /\ filterUsers' = [h \in Hashes |-> {}]
  /\ recounted' = {}
  /\ userSubs' = {}
  /\ openSubs' = [h \in Hashes |-> 0]

Init ==
  /\ refCount = [h \in Hashes |-> 0]
  /\ userFilters = [k \in Holders |-> {}]
  /\ filterUsers = [h \in Hashes |-> {}]
  /\ recounted = {}
  /\ userSubs = {}
  /\ openSubs = [h \in Hashes |-> 0]
  /\ subs = [k \in Holders |-> {}]
  /\ filterData = {}
  /\ registered = {}
  /\ phase = "down"
  /\ todo = {}
  /\ task = NoTask

-----------------------------------------------------------------------------
(* add_user_filter, which counts a reference whether or not the holder had *)
(* the filter already.                                                     *)
Track(k, h) ==
  /\ refCount' = [refCount EXCEPT ![h] = @ + 1]
  /\ userFilters' = [userFilters EXCEPT ![k] = @ \cup {h}]
  /\ filterUsers' = [filterUsers EXCEPT ![h] = @ \cup {k}]
  /\ recounted' = recounted \cup {x \in {h} : k \in filterUsers[x]}

(* Mutation: the first reference is taken for the one just counted.        *)
IsNewAfterCounting(h) == refCount[h] <= 1

IsNew(h) == refCount[h] = 0

Subscribe(h) ==
  /\ userSubs' = userSubs \cup {h}
  /\ openSubs' = [openSubs EXCEPT ![h] = @ + 1]

(* remove_user_filter on every hash of gone, which counts a reference less *)
(* whether or not the holder had the filter; the filters that lost their   *)
(* last reference are unsubscribed from the relay.                         *)
LastReference(gone) == {h \in gone : refCount[h] = 1}

(* Mutation: the count of an absent filter is decremented.                 *)
UntrackUnguarded(k, gone) ==
  /\ refCount' = [h \in Hashes |-> IF h \in gone THEN refCount[h] - 1 ELSE refCount[h]]
  /\ userFilters' = [userFilters EXCEPT ![k] = @ \ gone]
  /\ filterUsers' = [h \in Hashes |->
       IF h \in gone THEN filterUsers[h] \ {k} ELSE filterUsers[h]]
  /\ recounted' = recounted \ LastReference(gone)
  /\ UNCHANGED relay

Untrack(k, gone) ==
  /\ refCount' = [h \in Hashes |->
       IF h \in gone /\ refCount[h] > 0 THEN refCount[h] - 1 ELSE refCount[h]]
  /\ userFilters' = [userFilters EXCEPT ![k] = @ \ gone]
  /\ filterUsers' = [h \in Hashes |->
       IF h \in gone THEN filterUsers[h] \ {k} ELSE filterUsers[h]]
  /\ recounted' = recounted \ LastReference(gone)
  /\ userSubs' = userSubs \ LastReference(gone)
  /\ openSubs' = [h \in Hashes |->
       IF h \in LastReference(gone) \cap userSubs THEN openSubs[h] - 1 ELSE openSubs[h]]

Idle == phase = "running" /\ task = NoTask

Write(op, k, f, evict) == [op |-> op, k |-> k, f |-> f, evict |-> evict]

-----------------------------------------------------------------------------
(* handle_subscription_upsert.  A payload it cannot decrypt or parse, an   *)
(* unsupported app and a disallowed kind change nothing.  Clients repeat   *)
(* it, as a subscription is to be refreshed before it expires              *)
(* (nip-xx-push-notifications.md:153).                                     *)
Upsert(k, f) ==
  LET h == HashOf[f] IN
  /\ Idle
  /\ refCount[h] < MaxRef
  /\ Track(k, h)
  /\ IF IsNew(h) /\ h \notin DmHashes THEN Subscribe(h) ELSE UNCHANGED relay
  /\ task' = Write("sadd", k, Canonical[f], FALSE)
  /\ UNCHANGED <<redis, phase, todo>>

(* Mutation: the rollback of a refused subscription leaves the second      *)
(* index.                                                                  *)
UpsertRefusedHalfRolledBack(k, f) ==
  /\ Idle
  /\ IsNew(HashOf[f]) /\ HashOf[f] \notin DmHashes
  /\ userFilters' = [userFilters EXCEPT ![k] = @ \ {HashOf[f]}]
  /\ filterUsers' = [filterUsers EXCEPT ![HashOf[f]] = @ \cup {k}]
  /\ UNCHANGED <<refCount, recounted, relay, redis, phase, todo, task>>

(* Mutation: the rollback of a refused subscription leaves the reference.  *)
UpsertRefusedStillCounted(k, f) ==
  /\ Idle
  /\ refCount[HashOf[f]] < MaxRef
  /\ IsNew(HashOf[f]) /\ HashOf[f] \notin DmHashes
  /\ refCount' = [refCount EXCEPT ![HashOf[f]] = @ + 1]
  /\ UNCHANGED <<userFilters, filterUsers, recounted, relay, redis, phase, todo, task>>

(* The relay refuses the subscription: remove_user_filter rolls the        *)
(* manager back and the handler fails before it writes to Redis.           *)
UpsertRefused(k, f) ==
  LET h == HashOf[f] IN
  /\ Idle
  /\ refCount[h] < MaxRef
  /\ IsNew(h) /\ h \notin DmHashes
  /\ userFilters' = [userFilters EXCEPT ![k] = @ \ {h}]
  /\ filterUsers' = [filterUsers EXCEPT ![h] = @ \ {k}]
  /\ UNCHANGED <<refCount, recounted, relay, redis, phase, todo, task>>

(* add_subscription_by_filter: SADD, then SET of data all holders share.   *)
AddMember ==
  /\ task # NoTask /\ task.op = "sadd"
  /\ subs' = [subs EXCEPT ![task.k] = @ \cup {task.f}]
  /\ task' = Write("set", task.k, task.f, FALSE)
  /\ UNCHANGED <<memory, filterData, registered, phase, todo>>

SetData ==
  /\ task # NoTask /\ task.op = "set"
  /\ filterData' = filterData \cup {<<AppOf(task.k), task.f>>}
  /\ task' = NoTask
  /\ UNCHANGED <<memory, subs, registered, phase, todo>>

(* handle_subscription_delete: the manager goes by the normalised filter,  *)
(* Redis by the filter as the client wrote it.                             *)
Delete(k, f) ==
  LET h == HashOf[f] IN
  /\ Idle
  /\ HeldDeletes => k \in filterUsers[h]
  /\ Untrack(k, {h})
  /\ task' = Write("srem", k, f, FALSE)
  /\ UNCHANGED <<redis, phase, todo>>

(* remove_subscription_by_filter: SREM, then DEL if there was a member.    *)
AfterRemoval(k, f, evict) == IF evict THEN Write("forget", k, f, TRUE) ELSE NoTask

RemoveMember ==
  /\ task # NoTask /\ task.op = "srem"
  /\ subs' = [subs EXCEPT ![task.k] = @ \ {task.f}]
  /\ task' = IF task.f \in subs[task.k] THEN Write("del", task.k, task.f, task.evict)
                                        ELSE AfterRemoval(task.k, task.f, task.evict)
  /\ UNCHANGED <<memory, filterData, registered, phase, todo>>

RemoveData ==
  /\ task # NoTask /\ task.op = "del"
  /\ filterData' = filterData \ {<<AppOf(task.k), task.f>>}
  /\ task' = AfterRemoval(task.k, task.f, task.evict)
  /\ UNCHANGED <<memory, subs, registered, phase, todo>>

(* A Redis error ends the upsert or delete where it stands; the cleanup of *)
(* a group message ignores it.                                             *)
RedisError ==
  /\ task # NoTask /\ task.op # "forget"
  /\ task' = AfterRemoval(task.k, task.f, task.evict)
  /\ UNCHANGED <<memory, redis, phase, todo>>

-----------------------------------------------------------------------------
(* check_subscriptions_for_matching_users drops a readable subscription of *)
(* an app in which a user with tokens elsewhere has none, or for a group   *)
(* the user is not in: from Redis first, then from the manager.            *)
Evict(k, f) ==
  /\ Idle
  /\ f \in subs[k] /\ <<AppOf(k), f>> \in filterData
  /\ IF k \in registered THEN f \in GroupFilters
     ELSE \E other \in registered : UserOf(other) = UserOf(k)
  /\ task' = Write("srem", k, f, TRUE)
  /\ UNCHANGED <<memory, redis, phase, todo>>

Forget ==
  /\ task # NoTask /\ task.op = "forget"
  /\ Untrack(task.k, {HashOf[task.f]})
  /\ task' = NoTask
  /\ UNCHANGED <<redis, phase, todo>>

(* Registrations, and the pruning of tokens FCM refuses.                   *)
Register(k) ==
  /\ Idle
  /\ registered' = registered \cup {k}
  /\ UNCHANGED <<memory, subs, filterData, phase, todo, task>>

LoseTokens(k) ==
  /\ Idle
  /\ registered' = registered \ {k}
  /\ UNCHANGED <<memory, subs, filterData, phase, todo, task>>

(* handle_deregistration: whether or not the token was there, and whether  *)
(* or not it was the last one, the manager drops every filter of the user. *)
Deregister(k) ==
  /\ Idle
  /\ registered' \in {registered, registered \ {k}}
  /\ Untrack(k, userFilters[k])
  /\ UNCHANGED <<subs, filterData, phase, todo, task>>

-----------------------------------------------------------------------------
(* The process starts, connects and reads every subscription in Redis that *)
(* has its filter data ...                                                 *)
Readable == {e \in Entries : e[2] \in subs[e[1]] /\ <<AppOf(e[1]), e[2]>> \in filterData}

Start ==
  /\ phase = "down"
  /\ phase' = "recovering"
  /\ todo' = Readable
  /\ UNCHANGED <<memory, redis, task>>

(* Mutation: the recovery forgets a filter the relay refuses.              *)
RecoverOneOrForget(k, f) ==
  /\ phase = "recovering"
  /\ <<k, f>> \in todo
  /\ \/ Track(k, HashOf[f]) /\ IF IsNew(HashOf[f]) THEN Subscribe(HashOf[f]) ELSE UNCHANGED relay
     \/ UNCHANGED memory
  /\ todo' = todo \ {<<k, f>>}
  /\ UNCHANGED <<redis, phase, task>>

(* ... recover_existing_subscriptions adds them one by one; a subscription *)
(* the relay refuses is only logged, and direct messages are not exempt.   *)
RecoverOne(k, f) ==
  LET h == HashOf[f] IN
  /\ phase = "recovering"
  /\ <<k, f>> \in todo
  /\ Track(k, h)
  /\ \/ IsNew(h) /\ Subscribe(h)
     \/ UNCHANGED relay
  /\ todo' = todo \ {<<k, f>>}
  /\ UNCHANGED <<redis, phase, task>>

RecoveryDone ==
  /\ phase = "recovering"
  /\ todo = {}
  /\ phase' = "running"
  /\ UNCHANGED <<memory, redis, todo, task>>

(* The process dies, and with it its memory and its relay connection.      *)
Crash ==
  /\ phase # "down"
  /\ phase' = "down"
  /\ EmptyMemory
  /\ todo' = {}
  /\ task' = NoTask
  /\ UNCHANGED redis

Next ==
  \/ \E k \in Holders, f \in Filters :
       \/ Upsert(k, f) \/ UpsertRefused(k, f) \/ Delete(k, f)
       \/ Evict(k, f) \/ RecoverOne(k, f)
  \/ AddMember \/ SetData \/ RemoveMember \/ RemoveData \/ RedisError \/ Forget
  \/ \E k \in Holders : Register(k) \/ LoseTokens(k) \/ Deregister(k)
  \/ Start \/ RecoveryDone \/ Crash

Spec == Init /\ [][Next]_vars

-----------------------------------------------------------------------------
(* The two indexes of the manager mirror each other through rollbacks,     *)
(* deregistrations and recovery, though they are written one by one.       *)
IndexesMirror ==
  \A k \in Holders, h \in Hashes : h \in userFilters[k] <=> k \in filterUsers[h]

(* user_subscriptions is an exact ledger of the relay: a filter it names   *)
(* is open once and referenced, any other filter is closed, whatever the   *)
(* clients, the relay or a restart do.                                     *)
RelayLedger ==
  \A h \in Hashes :
    /\ openSubs[h] = IF h \in userSubs THEN 1 ELSE 0
    /\ h \in userSubs => refCount[h] > 0

(* The recovery leaves the manager with exactly the readable subscriptions *)
(* of Redis, each counted once, and opens no filter nobody holds.          *)
RecoveryExact ==
  [][RecoveryDone =>
       /\ \A k \in Holders : userFilters[k] = {HashOf[e[2]] : e \in {x \in Readable : x[1] = k}}
       /\ \A h \in Hashes : refCount[h] = Cardinality({e \in Readable : HashOf[e[2]] = h})
       /\ userSubs \subseteq {HashOf[e[2]] : e \in Readable}]_vars

(* event_handler.rs:1449: "Unsubscribe from relay if no one else needs     *)
(* this filter".  A filter without users has no reference left, and its    *)
(* relay subscription is closed.  It fails when a user refreshes his       *)
(* subscription, which counts him twice.                                   *)
UnusedFilterIsClosed ==
  \A h \in Hashes : filterUsers[h] = {} => refCount[h] = 0 /\ h \notin userSubs

(* Nothing else leaks: a filter without users that is still referenced, or *)
(* open, has counted a user twice since it last had no reference, whatever *)
(* was refused, failed, was deleted twice or was lost with a process.      *)
OnlyRefreshLeaks ==
  \A h \in Hashes \ recounted :
    filterUsers[h] = {} => refCount[h] = 0 /\ h \notin userSubs

(* event_handler.rs:1449: a relay subscription is given up only when no    *)
(* one else needs its filter.                                              *)
UsedFilterStaysOpen ==
  [][\A h \in userSubs \ userSubs' : phase' = "down" \/ filterUsers'[h] = {}]_vars
=============================================================================
