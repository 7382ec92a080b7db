----------------------------- MODULE TokenStore -----------------------------
(***************************************************************************)
(* The device tokens in Redis (redis_store.rs), the handlers that write    *)
(* them (registration, deregistration and the pruning after a push, all in *)
(* event_handler.rs) and the periodic cleanup task (cleanup_service.rs).   *)
(*                                                                         *)
(* Redis keeps, per app, three structures that are updated together in one *)
(* MULTI/EXEC after the owner of the token was read by an HGET outside it. *)
(* Each Redis round trip is one action.  A Worker is one process running   *)
(* the event loop: production runs one replica, and two overlap while a    *)
(* rolling update replaces the pod.                                        *)
(*                                                                         *)
(* The un-namespaced keys of the versions before apps were introduced are  *)
(* the namespace Legacy: registrations no longer write them, the cleanup   *)
(* task and remove_token_globally still act on them.                       *)
(***************************************************************************)
EXTENDS Integers

CONSTANTS
  Apps,       \* app namespaces
  Legacy,     \* the un-namespaced keys
  PubKeys,    \* users
  Tokens,     \* FCM device tokens
  NoPubKey,   \* a token absent from token_to_pubkey
  NoToken,    \* a job that is not about one token
  Workers,    \* processes running the event loop
  MaxAge,     \* token_max_age_days, in ticks of the clock
  MaxTime     \* bound on the clock

ASSUME TokenStoreAssumption ==
  /\ Legacy \notin Apps
  /\ NoPubKey \notin PubKeys
  /\ NoToken \notin Tokens
  /\ MaxAge \in Nat /\ MaxTime \in Nat

VARIABLES
  userTokens,     \* user_tokens sets: [namespace][pubkey]
  tokenToPubkey,  \* token_to_pubkey hashes: [namespace][token]
  staleTokens,    \* stale_tokens sorted sets: [namespace][token], Never if absent
  job,            \* what each worker is doing
  cleaner,        \* the cleanup task
  now

redisVars == <<userTokens, tokenToPubkey, staleTokens>>
vars == <<userTokens, tokenToPubkey, staleTokens, job, cleaner, now>>

Namespaces == Apps \cup {Legacy}
Owners     == PubKeys \cup {NoPubKey}
Never      == -1

(* owner is the reply of the HGET, at the time stamp taken before it, todo *)
(* the tokens of a push still to be sent to or to be pruned.  A push to    *)
(* every app of its user has the namespace it will prune, Legacy.          *)
TokenJobs == [op : {"register", "remove"}, ns : Apps, pk : PubKeys, token : Tokens,
              owner : Owners, at : Nat, todo : SUBSET Tokens]
PushJobs  == [op : {"send", "prune"}, ns : Namespaces, pk : PubKeys, token : {NoToken},
              owner : {NoPubKey}, at : {0}, todo : SUBSET Tokens]

Idle == [op |-> "idle", ns |-> Legacy, pk |-> NoPubKey, token |-> NoToken,
         owner |-> NoPubKey, at |-> 0, todo |-> {}]

Jobs == TokenJobs \cup PushJobs \cup {Idle}

Cleaners == [op : {"idle", "found", "mapped"}, cutoff : Int,
             stale : SUBSET Tokens, owners : [Tokens -> Owners]]

NobodyOwns == [t \in Tokens |-> NoPubKey]
CleanerIdle == [op |-> "idle", cutoff |-> 0, stale |-> {}, owners |-> NobodyOwns]

RedisTypeOK ==
  /\ userTokens \in [Namespaces -> [PubKeys -> SUBSET Tokens]]
  /\ tokenToPubkey \in [Namespaces -> [Tokens -> Owners]]
  /\ staleTokens \in [Namespaces -> [Tokens -> Nat \cup {Never}]]

TypeOK ==
  /\ RedisTypeOK
  /\ job \in [Workers -> Jobs]
  /\ cleaner \in Cleaners
  /\ now \in Nat

(* A deployment starts with empty app namespaces; a version without apps   *)
(* may have left its own consistent registrations behind.                  *)
InitRedis(left) ==
  /\ tokenToPubkey = [n \in Namespaces |-> IF n = Legacy THEN left ELSE NobodyOwns]
  /\ userTokens = [n \in Namespaces |-> [p \in PubKeys |->
       IF n = Legacy THEN {t \in Tokens : left[t] = p} ELSE {}]]
  /\ staleTokens = [n \in Namespaces |-> [t \in Tokens |->
       IF n = Legacy /\ left[t] # NoPubKey THEN 0 ELSE Never]]

Init ==
  /\ \E left \in [Tokens -> Owners] : InitRedis(left)
  /\ job = [w \in Workers |-> Idle]
  /\ cleaner = CleanerIdle
  /\ now = 0

-----------------------------------------------------------------------------
(* Mutation: the SREM from the previous owner is forgotten.                *)
AddTokenKeepingOwner(n, p, t, seen, at) ==
  /\ userTokens' = [userTokens EXCEPT ![n][p] = @ \cup {t}]
  /\ staleTokens' = [staleTokens EXCEPT ![n][t] = at]
  /\ tokenToPubkey' = [tokenToPubkey EXCEPT ![n][t] = p]

(* The transaction that ends add_or_update_token_with_app: SREM from the   *)
(* owner the HGET saw, SADD, ZADD, HSET.                                   *)
AddToken(n, p, t, seen, at) ==
  /\ userTokens' = [userTokens EXCEPT ![n] = [q \in PubKeys |->
       IF q = p THEN @[q] \cup {t} ELSE IF q = seen THEN @[q] \ {t} ELSE @[q]]]
  /\ staleTokens' = [staleTokens EXCEPT ![n][t] = at]
  /\ tokenToPubkey' = [tokenToPubkey EXCEPT ![n][t] = p]

(* SREM, ZREM and HDEL of one token, whoever the hash says its owner is.   *)
DropToken(n, p, t) ==
  /\ userTokens' = [userTokens EXCEPT ![n][p] = @ \ {t}]
  /\ staleTokens' = [staleTokens EXCEPT ![n][t] = Never]
  /\ tokenToPubkey' = [tokenToPubkey EXCEPT ![n][t] = NoPubKey]

(* The jobs of a worker: one token to write, or the tokens of a push.      *)
TokenJob(op, n, p, t, at, todo) ==
  [op |-> op, ns |-> n, pk |-> p, token |-> t, owner |-> tokenToPubkey[n][t],
   at |-> at, todo |-> todo]

PushJob(op, n, p, todo) ==
  [op |-> op, ns |-> n, pk |-> p, token |-> NoToken, owner |-> NoPubKey,
   at |-> 0, todo |-> todo]

(* After one token of a push is dealt with the worker goes on to the next. *)
Resume(n, p, todo) == IF todo = {} THEN Idle ELSE PushJob("prune", n, p, todo)

-----------------------------------------------------------------------------
(* Registration: the HGET, then the transaction.                           *)
BeginRegister(w, a, p, t) ==
  /\ job[w].op = "idle"
  /\ job' = [job EXCEPT ![w] = TokenJob("register", a, p, t, now, {})]
  /\ UNCHANGED <<redisVars, cleaner, now>>

CommitRegister(w) ==
  /\ job[w].op = "register"
  /\ AddToken(job[w].ns, job[w].pk, job[w].token, job[w].owner, job[w].at)
  /\ job' = [job EXCEPT ![w] = Idle]
  /\ UNCHANGED <<cleaner, now>>

(* Mutation: anyone may remove a token.                                    *)
BeginDeregisterUnasked(w, a, p, t) ==
  /\ job[w].op = "idle"
  /\ job' = [job EXCEPT ![w] = TokenJob("remove", a, p, t, 0, {})]
  /\ UNCHANGED <<redisVars, cleaner, now>>

(* Deregistration: remove_token_with_app gives up unless the HGET names    *)
(* the requesting pubkey, else the transaction follows.                    *)
BeginDeregister(w, a, p, t) ==
  /\ job[w].op = "idle"
  /\ tokenToPubkey[a][t] = p
  /\ job' = [job EXCEPT ![w] = TokenJob("remove", a, p, t, 0, {})]
  /\ UNCHANGED <<redisVars, cleaner, now>>

CommitRemove(w) ==
  /\ job[w].op = "remove"
  /\ DropToken(job[w].ns, job[w].pk, job[w].token)
  /\ job' = [job EXCEPT ![w] = Resume(job[w].ns, job[w].pk, job[w].todo)]
  /\ UNCHANGED <<cleaner, now>>

(* A push reads the tokens, of one app or of every app, ...                *)
FetchTokens(w, n, p) ==
  LET snapshot == IF n = Legacy THEN UNION {userTokens[a][p] : a \in Apps}
                                ELSE userTokens[n][p]
  IN /\ job[w].op = "idle"
     /\ snapshot # {}
     /\ job' = [job EXCEPT ![w] = PushJob("send", n, p, snapshot)]
     /\ UNCHANGED <<redisVars, cleaner, now>>

(* ... sends the batch to FCM, which reports some tokens as not registered *)
(* (none of those a missing FCM client or a DM filter kept back).          *)
FcmReplies(w, reported) ==
  /\ job[w].op = "send"
  /\ reported \subseteq job[w].todo
  /\ job' = [job EXCEPT ![w] = Resume(job[w].ns, job[w].pk, reported)]
  /\ UNCHANGED <<redisVars, cleaner, now>>

(* Mutation: every push prunes the way the push to one app does.           *)
BeginPruneAnywhere(w, t) ==
  /\ job[w].op = "prune"
  /\ t \in job[w].todo
  /\ job' = [job EXCEPT ![w] =
       TokenJob("remove", job[w].ns, job[w].pk, t, 0, job[w].todo \ {t})]
  /\ UNCHANGED <<redisVars, cleaner, now>>

(* ... and removes those: a push to one app with remove_token_with_app,    *)
BeginPrune(w, t) ==
  /\ job[w].op = "prune" /\ job[w].ns # Legacy
  /\ t \in job[w].todo
  /\ LET n == job[w].ns  p == job[w].pk  rest == job[w].todo \ {t}
     IN job' = [job EXCEPT ![w] =
          IF tokenToPubkey[n][t] = p THEN TokenJob("remove", n, p, t, 0, rest)
                                     ELSE Resume(n, p, rest)]
  /\ UNCHANGED <<redisVars, cleaner, now>>

(* a push to every app of the user with remove_token_globally.             *)
RemoveGlobally(w, t) ==
  /\ job[w].op = "prune" /\ job[w].ns = Legacy
  /\ t \in job[w].todo
  /\ DropToken(Legacy, job[w].pk, t)
  /\ job' = [job EXCEPT ![w] = Resume(job[w].ns, job[w].pk, job[w].todo \ {t})]
  /\ UNCHANGED <<cleaner, now>>

(* A Redis error while pruning is logged and the push goes on to the next. *)
PruneError(w) ==
  /\ \/ /\ job[w].op = "remove"
        /\ job' = [job EXCEPT ![w] = Resume(job[w].ns, job[w].pk, job[w].todo)]
     \/ \E t \in job[w].todo :
          /\ job[w].op = "prune"
          /\ job' = [job EXCEPT ![w] = Resume(job[w].ns, job[w].pk, job[w].todo \ {t})]
  /\ UNCHANGED <<redisVars, cleaner, now>>

(* A Redis error in a registration or deregistration, a cancellation, or   *)
(* the end of the process.                                                 *)
Abort(w) ==
  /\ job[w].op # "idle"
  /\ job' = [job EXCEPT ![w] = Idle]
  /\ UNCHANGED <<redisVars, cleaner, now>>

-----------------------------------------------------------------------------
(* cleanup_stale_tokens: list the tokens not seen since the cutoff, look   *)
(* up their owners, then remove both in one transaction.                   *)
CleanupFind ==
  LET cutoff == IF now >= MaxAge THEN now - MaxAge ELSE 0
      stale  == {t \in Tokens : staleTokens[Legacy][t] \in 0 .. cutoff}
  IN /\ cleaner.op = "idle"
     /\ cleaner' = IF stale = {} THEN CleanerIdle
                   ELSE [op |-> "found", cutoff |-> cutoff, stale |-> stale,
                         owners |-> NobodyOwns]
     /\ UNCHANGED <<redisVars, job, now>>

CleanupMap ==
  /\ cleaner.op = "found"
  /\ cleaner' =
       [op |-> "mapped", cutoff |-> cleaner.cutoff, stale |-> cleaner.stale,
        owners |-> [t \in Tokens |-> IF t \in cleaner.stale
                                     THEN tokenToPubkey[Legacy][t] ELSE NoPubKey]]
  /\ UNCHANGED <<redisVars, job, now>>

CleanupExecute ==
  /\ cleaner.op = "mapped"
  /\ staleTokens' = [staleTokens EXCEPT ![Legacy] = [t \in Tokens |->
       IF @[t] <= cleaner.cutoff THEN Never ELSE @[t]]]
  /\ tokenToPubkey' = [tokenToPubkey EXCEPT ![Legacy] = [t \in Tokens |->
       IF t \in cleaner.stale THEN NoPubKey ELSE @[t]]]
  /\ userTokens' = [userTokens EXCEPT ![Legacy] = [p \in PubKeys |->
       @[p] \ {t \in cleaner.stale : cleaner.owners[t] = p}]]
  /\ cleaner' = CleanerIdle
  /\ UNCHANGED <<job, now>>

(* A Redis error, or the cancellation of the task.                         *)
CleanupAbort ==
  /\ cleaner.op # "idle"
  /\ cleaner' = CleanerIdle
  /\ UNCHANGED <<redisVars, job, now>>

Tick ==
  /\ now < MaxTime
  /\ now' = now + 1
  /\ UNCHANGED <<redisVars, job, cleaner>>

Handle(w) ==
  \/ \E a \in Apps, p \in PubKeys, t \in Tokens :
       BeginRegister(w, a, p, t) \/ BeginDeregister(w, a, p, t)
  \/ CommitRegister(w)
  \/ CommitRemove(w)
  \/ \E n \in Namespaces, p \in PubKeys : FetchTokens(w, n, p)
  \/ \E reported \in SUBSET Tokens : FcmReplies(w, reported)
  \/ \E t \in Tokens : BeginPrune(w, t) \/ RemoveGlobally(w, t)
  \/ PruneError(w)
  \/ Abort(w)

Cleanup == CleanupFind \/ CleanupMap \/ CleanupExecute \/ CleanupAbort

Next == (\E w \in Workers : Handle(w)) \/ Cleanup \/ Tick

Spec == Init /\ [][Next]_vars

-----------------------------------------------------------------------------
(* In every app namespace the users' token sets and the sorted set agree   *)
(* with the owner hash: a push reaches a token through its owner only, and *)
(* no crash, error or interleaving leaves the three structures apart.      *)
OwnershipConsistent ==
  \A a \in Apps, t \in Tokens :
    /\ \A p \in PubKeys : t \in userTokens[a][p] <=> tokenToPubkey[a][t] = p
    /\ staleTokens[a][t] = Never <=> tokenToPubkey[a][t] = NoPubKey

(* The store implements the registry: every transaction on an app is a     *)
(* registration or an owner's removal, everything else leaves it alone.    *)
Registry == INSTANCE TokenRegistry WITH
  registry <- [a \in Apps |-> tokenToPubkey[a]],
  audience <- [a \in Apps |-> userTokens[a]]
RegistrySpec == Registry!Spec
=============================================================================
