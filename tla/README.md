# A TLA+ development of nostr_push_service

`nostr_push_service` listens to a Nostr relay, keeps device tokens and subscriptions in Redis and
sends push notifications through Firebase Cloud Messaging (FCM). These modules model its core, TLC
checks them on small instances, and TLAPS proves the central invariants for every value of the
constants. Paths below are relative to the repository.

## 1. The system

One process (production runs one replica; a rolling update overlaps two) runs four tasks that share
`AppState` and a cancellation token (`src/main.rs`):

| component | state | operations | interacts with |
|---|---|---|---|
| Nostr listener, `src/nostr_listener.rs` | phase, relay subscription | connect, recover subscriptions, replay history, subscribe, forward live events | relay (broadcast channel of the client), event loop (mpsc of 1000), Redis, manager |
| Event loop, `src/event_handler.rs` `run` | the event in work | horizon and processed check, route, mark | Redis, every handler |
| Control handlers, `event_handler.rs` | - | registration, deregistration, subscription upsert and delete | token store, manager, relay, subscription storage |
| Notification handlers, `event_handler.rs` | - | direct messages, groups, broadcasts, communities, custom subscriptions | token store, subscription storage, manager, group client, FCM |
| Notification content, `event_handler.rs` `create_fcm_payload` | Redis keys `profile:`, `group_meta:` | look up the sender's name and the group, cut the body | Redis, relays, mention parser |
| Mention parser, `src/services/mention_parser.rs` | Redis keys `profile_cache:` | recognise mentions, look up names, replace mentions by names | Redis, relays for profiles |
| Token store, `src/redis_store.rs` | per app: token sets, owner hash, last-seen sorted set | register, remove, remove globally, read, clean up | control and notification handlers, cleanup task |
| Processed set, `redis_store.rs` | one set with one time to live | test, mark | event loop |
| Subscription storage, `redis_store.rs` | per app: sets of filter hashes, shared filter data | add, remove, read | handlers, recovery |
| Subscription manager, `src/subscriptions/manager.rs` | `shared_filters` with `ref_count`, `user_filters`, `filter_users` | add, remove, remove all | handlers, recovery, relay subscriptions (`AppState::user_subscriptions`) |
| Cleanup service, `src/cleanup_service.rs` | - | periodic pass over stale tokens | token store |
| Group client, `src/nostr/nip29.rs` | cache of members and admins | membership queries | relay |
| Community handler, `src/handlers/community.rs` | four maps: members of communities and of groups, communities and groups of users | join, leave, route, clean up, count | routing, deregistration |
| Crypto, FCM sender, HTTP server | - | decryption, sending, static pages | - |

What is hard about it: Redis is updated in several round trips, so replicas, crashes and errors come
between them; memory (manager), the relay's subscriptions and Redis each hold a copy of who subscribes
to what and are updated one after the other; the same event arrives by the history query, the live
subscription and both replicas; the relay client drops notifications of a slow receiver; and the shutdown
has to reach every place a task may be waiting. What makes each part correct:

- *tokens*: one owner per app and token, and the three structures agree on it; refused and stale tokens go;
- *subscriptions*: the indexes agree, the relay has open exactly what `user_subscriptions` names, a filter
  stays open while it is used and closes after, a restart restores what was stored;
- *pipeline*: nothing is marked that was not handled, the shutdown ends, accepted events are taken, the look
  back of the live subscription loses nothing;
- *replay protection*: a marked event is handled again only when the set may have expired and the horizon still
  admits the event;
- *groups and dispatch*: only members are notified, nobody of his own event, nobody who is owed a push is
  forgotten or pushed to twice, and a device in use loses a subscription only if it is for one group and the list lacked
  its user recently, or could not be read in time;
- *communities*: the maps by place and by user agree, though each has its own lock; a clean-up leaves nothing, an
  event goes to the members of its places, and calls wait for each other for good in one case only;
- *content*: names are recent although they are cached twice, stand where their mentions stood, and a slow relay
  delays a notification without preventing it.

## 2. Modules

| module | models |
|---|---|
| `TokenRegistry` | abstract: an owner per app and token, and the audience of a push |
| `TokenStore` | token functions of `redis_store.rs`, registration, deregistration, pruning, cleanup |
| `SubscriptionState` | manager, relay subscriptions, subscription storage, upsert, delete, deregistration, lazy cleanup, recovery |
| `EventPipeline` | `main.rs`, listener, channels, event loop, cancellation |
| `ProcessedEvents` | the horizon and the processed set |
| `GroupMembership` | the lists a relay publishes, the clock, the membership cache of `nip29.rs` |
| `Dispatch` | extends it by the notification handlers of `event_handler.rs` over tokens and subscriptions |
| `CommunityHandler` | the four maps of `community.rs` and every call on them, lock by lock |
| `MentionFormat` | pure: which mentions of a content are recognised, and their replacement |
| `PushContent` | extends it by the lookups of names, their caches, queries and time-outs |
| `MC*` | instances for TLC |
| `*Proofs` | theorems |

### TokenStore

`userTokens`, `tokenToPubkey` and `staleTokens` are the three Redis structures of each namespace; the keys
without an app are the namespace `Legacy`. A Redis round trip is an action: `BeginRegister` is the HGET of
`add_or_update_token_with_app` and `CommitRegister` its transaction, `BeginDeregister`/`CommitRemove` are the
two halves of `remove_token_with_app`, `FetchTokens`, `FcmReplies`, `BeginPrune` and `RemoveGlobally` a push
and the pruning that follows it, `CleanupFind`, `CleanupMap` and `CleanupExecute` the cleanup pass. `Abort`,
`PruneError` and `CleanupAbort` are errors, cancellations and crashes at any step. Initially the app
namespaces are empty and the un-namespaced keys hold any consistent leftovers of a version without apps.
A failed transaction changes nothing (MULTI/EXEC); a worker does one thing at a time, as the event loop does.

### SubscriptionState

`refCount`, `userFilters` and `filterUsers` are the manager's maps, `userSubs` is `user_subscriptions`,
`openSubs` counts what the relay has open, `subs` and `filterData` are the two kinds of Redis keys.
A handler's work in memory is one action, since the event loop runs one handler at a time and a crash loses
memory and connection together; each Redis write is an action of its own (`task` says which is next), and a
crash or an error may come before it. A filter has a `Canonical` form, in which the upsert stores it (parsed
and serialised again), and a `HashOf` its normalised form, the key of the manager. Clients repeat upserts
in any order, as `docs/nip-xx-push-notifications.md:153` has them refresh what they hold; with `HeldDeletes` they delete
only what they hold. The history `recounted` has the hashes for which a user was counted twice since they last had no
reference.

### EventPipeline

The listener's variable follows `NostrListener::run` phase by phase; `queue` is the receiver's part of the
client's broadcast channel (a full one drops the oldest notification and sets `lagged`), `chan` the mpsc
channel, `handler` and `current` the event loop. Each `select!` on the token is a step that may be taken once
`cancelled` holds. `Publish`, `Deliver` and `Notify` are the relay and the client library, modelled from how
the listener uses them: the client notifies of an event once. `Crash` ends the process anywhere, `Boot` starts
it again. `Stored` are the events a user's stored filter matches: the recovery opens any of these filters, those for direct
messages included, long before there is a receiver, and a handler may open or close them (`Resubscribe`). The body of a
handler is one step, which ends, fails or is cut short. `StepsLeft` counts, for a cancelled
process, the steps its tasks can still take.

### ProcessedEvents

`members` and `expiresAt` are the Redis set with its one time to live. Events may be dated as
their authors like, are delivered any number of times to any worker, and a query of the set takes at most `Delay`. The
history `markedAt` has the time of an event's last mark.

### GroupMembership and Dispatch

`GroupMembership` has no behaviour of its own: its operators are actions of `Dispatch`, which extends it. `cache` is
`GroupMembershipCache`, an expiration and a set of members per group; `memberList` and `adminList` are the relay's
latest events of kinds 39002 and 39001. The lists keep how a user is named, because `tags.public_keys()`, which
reads members, skips a `p` tag with a role, and `extract_pubkeys_from_p_tags`, which reads admins and mentions,
does not. `Answers` is what a caller of `get_group_members` may be told: the cached members while they are fresh,
else those of a list, or nobody, as the client library returns what it has when a query times out; both are cached.
A query takes up to `FetchTimeout`, during which the relay may publish: `Reported` has every list that was the group's
within `FetchTimeout` of the query's end and since the handler began, for the handler asks after that. So
an answer from the cache is up to `Lifetime`, the sum of `CacheExpiration` and `FetchTimeout`, old. A query of admins, which nothing caches, returns the
list of its end. `heldAt`, `listedAt` and `missingAt` are history variables: when a list was last the group's, when the
group's list last named a user, and when it last did not. The code has none of them.

In `Dispatch` the event loop has one event in work, `job`; its `phase` says which loop the handler is in, `queue`
and `left` what the loop has yet to do. A turn of a loop is one action: `DirectMessage`, `MentionMember` and
`MentionAnyone` for the three loops over users an event names, `FanOut` for a broadcast, `ScanUser` for `check_subscriptions_for_matching_users`. Redis lists
a user's subscriptions in any order, so a scan drops any of those in apps without a token (`Idlers`) before the first
that matches, and all of them when none does; an ignored Redis error may keep any of them. Between turns the relay publishes
lists and time passes. `Abandon` is an error the handler passes on or a cancellation, `Restart` a new process. A filter
is kept by the groups its `#h` names and whether it names a kind of direct messages; its timestamp, shared like the filter data, is in `filterAt`. A device is a user's
token in an app; several tokens of a user in one app are one. `Control` is what control events change of it,
`TokenStore` and `SubscriptionState` have them in full. `asked` and `shared` are the part of the
manager's `user_filters` and `shared_filters` that the gate of direct messages reads (`Gate`). They are a second copy of what is in
Redis and go their own way: a deregistration empties the user's part, a Redis error leaves Redis behind it, a restart makes them
equal again. References are not counted here, so every removal may take the filter from its other users, too (`Forgotten`).
SADD and SET of a stored filter, SREM and DEL of a removed one may fail apart (`Upsert`, `Unsubscribed`). The ghost field `failed` names users a push, a query or a
Redis write failed for. Left out: replicas, and the content of a filter beyond its groups and direct messages.

### CommunityHandler

`members` and `joined` are the maps by place and by user, a place being a community or a group. Each of the four Rust maps is
behind its own lock, and a section under one lock is an action: `Add` and `AddSecond` are the two halves of a join,
`Remove` and `RemoveSecond` of a leave, `Cleanup`, `LeaveCommunity`, `LeaveSecond`, `TakeGroups` and `SweepGroups` the steps of
`cleanup_user`, `ReadPlace` a turn of the loops of `route_event`, `TakeLock` one of the four locks of `get_stats`.
`WriteLocked` and `ReadLocked` say who holds a lock between two steps, `LockFree` whether a call finds its next one free.
A tokio lock also holds up readers behind a writer who waits; that only adds waits for a call that holds nothing. The service calls `route_event` and
`cleanup_user` from the event loop only, only the tests add members, and nothing calls `get_stats`; the model takes the handler
for what it offers, an object shared by tasks, and its properties are about that object and no hazard of the running
service: any of `Workers` routes and counts, `Callers` says who joins, leaves and cleans up for a user.
`ever` and `stayed` are history, of the places of an event that is being routed.

### MentionFormat and PushContent

A content is a sequence of letters, spaces and mentions; a mention stands for `MentionLength` characters, a name for as
many as it has. `Recognised` follows the regular expression, which takes up to 60 characters after `nostr:`.
`ReplaceMentions` puts names into the text from the end, as the code does; `WithNames` is the reference definition it is
compared with.

In `PushContent` each of several processes makes one notification at a time: `Begin`, then for each `stage` (the
sender's profile, the group's metadata, the profiles of the mentioned) `ReadCache` and, for the keys missed, a query, in
which the relays answer one by one (`Hear`) until all have or the time-out ends it (`Answered`), or which fails
(`Failed`). Relays get newer versions at any time (`Publish`). `cache` holds relative times to live, `elapsed` the age of
a query, and the history `unheld` for how long no relay has had a version, so that time needs no clock: `Tick` lets all of them
go on. It is taken when processes do nothing but wait for relays, as anything else takes little against seconds.

## 3. Runs

| run | bounds | shows |
|---|---|---|
| `token_store` | 2 apps, 2 users, 2 tokens, 1 worker, 1 tick | type, ownership and refinement of `TokenRegistry` |
| `token_replicas` | 2 workers | **violated**: `OwnershipConsistent`, the HGET races the other replica's transaction |
| `subscriptions` | 1 app, 2 users; 2 spellings of a filter, a filter for direct messages; 3 references | type, mirrored indexes, relay ledger, exact recovery, only a repeated upsert leaks |
| `subscriptions_refresh` | 1 app, 2 users, clients delete only what they hold | **violated**: after a refresh the last user's deletion leaves the filter open |
| `subscriptions_used` | 2 apps | **violated**: two removals of one user close another user's filter |
| `pipeline` | 3 events, channels of 1 | type, marks are complete, shutdown in a bounded number of steps, progress |
| `pipeline_lookback` | 2 events | **violated**: events between subscription and receiver are lost |
| `replay` | 2 events of any date, 2 workers, horizon and time to live 2, delay 1, clock to 6 | what was marked is let in again only if the set may have expired and the event is dated late |
| `dispatch` | reader in 2 apps, author and admin, 1 group, 8 events, 2 filters, stored at 0, entries live 1, queries take up to 1, clock to 2 | only members hear, no echo, once, nobody forgotten, a device's filter dropped only for a user the list lacked, or by a query cut short |
| `dispatch_twice` | reader, author and a third user, 2 apps, no group | **violated**: the clean-up of the third user's subscription makes the reader hear twice |
| `communities` | 2 users, 2 communities, 1 group, 2 workers, both of which clean up and count | type, both maps agree, a clean-up is complete, recipients are right; all calls can go on and return but for `cleanup_user` against `get_stats` |
| `notification` | 2 processes, 1 user, 1 group, 2 versions of a profile, times to live and time-outs 1, a body of 7 characters | type, names are recent, the body reads right, every notification is made |

The findings in `PROJECT.json` quote the sentence each violated property states. The bounds suffice for what
the properties tell apart: two users to share or fight over a token or a filter, two apps to keep
namespaces apart, two spellings of one hash, channels of one element to be full and to lag, a clock that
outlives the horizon and the set, which are equal as they are in the configuration. In `dispatch` an entry expires within the clock's range, so hits,
misses, answers that are out of date and lists replaced while they are read all occur; the events are a mention, one of oneself, a broadcast by an admin, one by
somebody else, an event with both tags, a mention without a group, a direct message and an event from the history. In `communities`
each worker changes the memberships of one user, so that calls on different users overlap in every map; two workers suffice
for a wait in a circle. In `notification` an entry expires between two notifications or survives into the next, a query
ends by answers or by the time-out, the name of the first version is longer than its mention and the other one shorter, and the limit
cuts into what follows. `MaxRef`, `MaxTime`, `ChanCap` and `QueueCap` bound what would grow
without limit. Deadlock is checked except in `replay`, where the end of the clock ends everything, and in `communities`, where the
circle of `cleanup_user` and `get_stats` does.
Every definition under a comment that begins with *Mutation* is a plausible mistake in the definition that
follows it; each property of a passing run is violated when its mutation replaces the original.

### Fairness

`EventPipeline`, `CommunityHandler` and `PushContent` have liveness properties.

- `EventPipeline!FairSpec` assumes weak fairness of the listener, of the event loop, of the other tasks once the token is
  cancelled, and of the end of `main`: tokio schedules every task, and the Redis and relay calls they wait for return or
  fail (connection and query timeouts of 15 s and 60 s).
- `CommunityHandler!FairSpec` assumes strong fairness of each worker's current call: a tokio `RwLock` serves those who wait in
  turn, so a call that can have its lock again and again gets it. Nobody has to begin a call.
- `PushContent!FairSpec` assumes that a process goes on when it can (weak fairness of `Make`) and that time passes (strong
  fairness of `Tick`, which steps that take no time disable and enable again).

Nothing is assumed of the relay, the clients, the signal that cancels the token, or a restart.

### Behaviour the models show and no run checks

Some consequences of the code need one step to see and no property to find: the cleanup pass acts on the
un-namespaced keys only, so stale tokens of apps stay (`CleanupExecute`), and so does the removal of a token refused in a
push to every app, although `README.md:130` has invalid tokens removed (`RemoveGlobally`); who has just joined a group
loses his subscription to it on a cached list, and a member on a query cut short, although `README.md:116` speaks of orphaned
subscriptions (`ScanRejects`; `RemovedWereOrphans` says for how long); a delete in a spelling that
is not the stored one misses in Redis (`Delete`); a deregistration of one device drops the filters of all
(`Deregister`); a listener that lagged ends, is not restarted, and `/health` goes on answering OK (`Lag`); two
replicas that both check before either marks handle one event twice (`Check`), and so does one process that crashes before the
mark (`GiveUp`); with the configured seven days for horizon and time to live alike, an event dated ahead, by however much, is young
enough when the set has expired, and is handled again (`Receive`, `RepeatedOnlyIfDatedLate` says no other is);
a filter the recovery cannot open keeps its reference, so that nothing opens it until the next restart (`RecoverOne`); a Redis
error after an upsert leaves the filter served until then (`RedisError`); a deregistration leaves the stored subscriptions in Redis, where the next recovery
finds them (`Deregister`); a removal deletes the filter data of every user of the app (`RemoveData`), whose stored
subscriptions are unreadable from then on; a member who is mentioned in a group and has a matching subscription is pushed to
twice (`MentionMember`, `ScanUser`); events of kind 9 or 10 without a group have no mentions (`Tally`); an event with
an `h` and an `a` tag reaches the community handler only, which nothing gives members (`FirstPhase`); a group
without a list of members, which the README calls unmanaged, has none (`Answers`); kind 4, which
`config/settings.yaml:18` lists among the direct messages, is none for `is_dm_event`, so the gate does not apply to it (`Kinds`);
filters for direct messages that a deregistration dropped count again after a restart (`Deregister`, `Restart`); of several profiles of a
mentioned user the oldest wins, while the sender's name is the newest (`Choice`); a mention directly followed by a letter
or by another mention is left as it is (`Recognised`); that a user has no profile is not cached, and each
notification asks again (`EndQuery`).

## 4. Theorems

TLAPS proves, for any finite or infinite values of the constants unless a theorem says otherwise:

- `TokenStoreProofs`: `TypeCorrect`; with one replica (`SingleReplica`) `Ownership` and `Refinement`. The
  inductive invariant adds to the type and the ownership that the reply of the HGET is current when the
  transaction runs (`ReplyIsCurrent`); it is what two replicas break. `Refinement` maps every transaction on an
  app to a registration or an owner's removal of `TokenRegistry`, any other step to a stutter. `ReachedByOwner` is what is
  left with any number of replicas: `OwnersReached`, the half of the agreement that a push to the owner and the
  expiry need, is inductive as no transaction removes a token from an owner it does not take it from (`AppWriters`). So
  the violation of `token_replicas` is of the other half, a token left with a former owner.
- `SubscriptionProofs`: `TypeCorrect`, `Mirror`, `Ledger`, each from its own inductive invariant: the indexes
  mirror each other without any assumption about clients, and so does the ledger (an open filter is referenced).
  `OnlyRefresh` concerns the property `subscriptions_refresh` violates and assumes nothing: until a user is counted again for a
  hash, it has no more references than users (`CountedOnce`), as upsert, rollback, removal and recovery each keep the two
  together. So the refresh is all that leaks. `Recovery` needs no assumption either; `RecoveryInv` says that the manager
  holds what has been `Loaded` so far, that a process that is down has an empty memory, and that nothing is being written before it
  runs. `UsedWhileHeld` concerns the property `subscriptions_used` violates: it holds of every behaviour in which a
  removal is by a holder of the filter (`RemoveOnlyHeld`), because references then never count fewer than the users
  (`NobodyUncounted`), refreshes or not; the lazy cleanup, or a client, that removes a filter twice breaks the hypothesis.
- `EventPipelineProofs`: `TypeCorrect`, `MarkedComplete`; the invariant says which handler states imply that the
  current event is complete, and that a handler cut short can only be on its way past a cancelled token.
  `CaughtOnceReceiving` concerns the property `pipeline_lookback` violates: it holds of every behaviour in which the relay
  sends no direct message before `process_live_events` has its receiver (`NoneSentEarly`), be it on a recovered subscription or
  in answer to the live one; afterwards the receiver has it, unless it overflows. `ShutdownIsShort` proves `ShutdownAdvances`: after the token each step of a task lowers `StepsLeft`,
  which is ten at most for any capacities and any load.
- `ProcessedEventsProofs`: `TypeCorrect`; `RepeatedOnlyLate`, for any number of workers, any horizon and any time to live, so
  for the configured seven days of both. Its invariant says that a mark lasts for the time to live (`MarkLasts`), and that the
  query about an event ends soon after the horizon let the event in (`CheckedInTime`).
- `DispatchProofs`: `TypeCorrect`; `AnswersRecent`, `SenderSilent`, `MembersOnly` and `OrphansRemoved`. The invariant `DispatchInv` says of
  the group client that the histories of users and of lists agree (`HistoryExact`), that cached members were listed at some time and
  whom a complete answer leaves out was missing at some time (`CachedWereListed`), and answers are no older than `Lifetime` (`CacheIsRecent`); of the job that a group event is never in a loop
  without a membership check (`Routed`), that the members still to be served by a broadcast were listed recently
  (`AudienceRecent`), and that nothing is pushed while the handler is idle (`Quiet`). `MembersOnly` needs `AudienceRecent`, as
  the last push of a broadcast may come long after the only look at the list; `OrphansRemoved` needs the other half of
  `CachedWereListed`.
- `NotificationProofs`: `CustomHeardOnce` and `DutyDone`, what the loops of `Dispatch` owe a user. `OnceInv` says of whoever was
  pushed to that he does not come up again in the loop at work, and that a scan leaves him a filter by which the second pass
  finds him (`KeepsMatch`), or no token. `DutyInv` says for each phase what has been done for the users the loop is
  through with (`Duty`), and which events take which path (`Path`); it holds for a user only while `Due` does, so that each
  step needs that a user once missing from the list, or failed by Redis, stays so (`Persists`). `NobodyTwice` has the
  property `dispatch_twice` violates, under the assumption that no filter data is shared by users (`OwnFilters`).
- `CommunityProofs`: `TypeCorrect`, `RoutingCorrect`; under `OneCallerPerUser`, that one worker changes a user's memberships,
  `AgreementCorrect` and `CleanupCorrect`. The invariant of the first two says what a routing has read so far lies between those
  who stayed and those who ever were in the places; that of the others, for every user, which half of which call accounts for a
  difference between the maps, and which communities a clean-up may still find. `OnlyOneDeadlock` assumes
  nothing: the last lock of `get_stats` is the first of the two `cleanup_user` holds, and unless they wait for each other (`Circle`)
  either a clean-up that holds a lock can go on or the count it waits for can (`WithSweep`).
- `PushContentProofs`: `TypeCorrect`; `NamesCorrect`, for any number of processes and any times. `IInv` bounds the age of what
  is in the cache by the time it has still to live (`CacheRecent`), and of what a job has found by the time
  its remaining queries may take (`JobRecent`). `BodyCorrect` holds for contents, names and limits of any length. It
  is an induction over the positions of the text from the last one to the first (`LeastNat` and `Induction`, stated for sets of
  numbers, as the prover takes no induction over formulas): what follows a position already reads right, and putting
  a name there leaves it (`Splice`, `ReplaceMentionsIs`, `MentionsReplaced`).

Every invariant and action property of a passing run is proved. Only model-checked are the liveness properties
(`ShutdownCompletes`, `QueuedIsTaken`, `CallsReturn`, `NotificationMade`): the prover knows nothing of `ENABLED`, and all but the
first need an induction over a temporal formula (the place in the channel, the queue of a routing, the time of a query). What
safety has to say of them is proved: the shutdown has boundedly many steps (`ShutdownIsShort`), and some call can go on
outside the circle of the two (`OnlyOneDeadlock`). What the violation runs refute is proved, for four of the five, up to the
behaviour or the data that refutes it, and in its weaker form for `token_replicas`.

## 5. Not modelled

Decryption, JSON and the fixed texts of notifications; the FCM protocol (its answers are inputs); configuration; HTTP pages;
functions that only tests call (un-hashed subscriptions, `remove_device_tokens`) and
`src/redis/subscriptions.rs`, which nothing calls. `PROJECT.json` lists the hazards without a property yet,
each with the reason.

## 6. Plan

Done: all modules of section 2, with proofs of `TokenStore`, `SubscriptionState`, `EventPipeline`, `ProcessedEvents`,
`Dispatch`, `CommunityHandler` and `PushContent`. Next, in this order:

1. `FilterForms`: normalisation and both hashes as operators, for the parameters `Canonical` and `HashOf`; the filter the relay has
   open for a hash (the first subscriber's, with its time bounds) against those of its users.
2. Compositions: `TokenStore` with `SubscriptionState` (a deregistration across both), `EventPipeline` with
   `ProcessedEvents` (an event handled at least once, and once if there is no crash).
3. `SubscriptionStore` (`src/redis/subscriptions.rs`), once the service uses it.
