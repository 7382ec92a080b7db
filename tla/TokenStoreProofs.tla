-------------------------- MODULE TokenStoreProofs --------------------------
(***************************************************************************)
(* TokenStore is type correct and an owner reaches his tokens for any      *)
(* number of replicas; with one replica its three Redis structures agree   *)
(* and it implements TokenRegistry.                                        *)
(***************************************************************************)
EXTENDS TokenStore, TLAPS

(* One process runs the event loop: the deployment's replicaCount of 1,    *)
(* outside of a rolling update.                                            *)
SingleReplica == \A v, w \in Workers : v = w

-----------------------------------------------------------------------------
(* The jobs the actions make are jobs.                                     *)
LEMMA PushJobType ==
  ASSUME NEW op \in {"send", "prune"}, NEW n \in Namespaces, NEW p \in PubKeys,
         NEW todo \in SUBSET Tokens
  PROVE  PushJob(op, n, p, todo) \in Jobs
BY DEF PushJob, Jobs, PushJobs

LEMMA TokenJobType ==
  ASSUME TypeOK, NEW op \in {"register", "remove"}, NEW a \in Apps,
         NEW p \in PubKeys, NEW t \in Tokens, NEW at \in Nat,
         NEW todo \in SUBSET Tokens
  PROVE  TokenJob(op, a, p, t, at, todo) \in Jobs
<1>1. tokenToPubkey[a][t] \in Owners
  BY DEF TypeOK, RedisTypeOK, Namespaces
<1> QED BY <1>1 DEF TokenJob, Jobs, TokenJobs

LEMMA ResumeType ==
  ASSUME NEW n \in Namespaces, NEW p \in PubKeys, NEW todo \in SUBSET Tokens
  PROVE  Resume(n, p, todo) \in Jobs
BY PushJobType DEF Resume, Jobs

(* What the fields of a job are while it is of one kind.                   *)
LEMMA JobFields ==
  ASSUME TypeOK, NEW w \in Workers
  PROVE  /\ job[w].op \in {"register", "remove"} =>
              /\ job[w].ns \in Apps /\ job[w].ns \in Namespaces
              /\ job[w].pk \in PubKeys /\ job[w].token \in Tokens
              /\ job[w].at \in Nat /\ job[w].todo \subseteq Tokens
         /\ job[w].op \in {"send", "prune"} =>
              /\ job[w].ns \in Namespaces /\ job[w].pk \in PubKeys
              /\ job[w].todo \subseteq Tokens
         /\ job[w].op \in {"register", "remove", "send", "prune", "idle"}
<1>1. job[w] \in Jobs
  BY DEF TypeOK
<1>2. CASE job[w] \in TokenJobs
  BY <1>2 DEF TokenJobs, Namespaces
<1>3. CASE job[w] \in PushJobs
  BY <1>3 DEF PushJobs
<1>4. CASE job[w] = Idle
  BY <1>4 DEF Idle
<1> QED BY <1>1, <1>2, <1>3, <1>4 DEF Jobs

-----------------------------------------------------------------------------
(* The two transactions keep the types of the three structures.            *)
LEMMA AddTokenType ==
  ASSUME TypeOK, NEW n \in Namespaces, NEW p \in PubKeys, NEW t \in Tokens,
         NEW seen \in Owners, NEW at \in Nat, AddToken(n, p, t, seen, at)
  PROVE  RedisTypeOK'
<1>1. userTokens' \in [Namespaces -> [PubKeys -> SUBSET Tokens]]
  BY DEF TypeOK, RedisTypeOK, AddToken
<1>2. tokenToPubkey' \in [Namespaces -> [Tokens -> Owners]]
  BY DEF TypeOK, RedisTypeOK, AddToken, Owners
<1>3. staleTokens' \in [Namespaces -> [Tokens -> Nat \cup {Never}]]
  BY DEF TypeOK, RedisTypeOK, AddToken
<1> QED BY <1>1, <1>2, <1>3 DEF RedisTypeOK

LEMMA DropTokenType ==
  ASSUME TypeOK, NEW n \in Namespaces, NEW p \in PubKeys, NEW t \in Tokens,
         DropToken(n, p, t)
  PROVE  RedisTypeOK'
<1>1. userTokens' \in [Namespaces -> [PubKeys -> SUBSET Tokens]]
  BY DEF TypeOK, RedisTypeOK, DropToken
<1>2. tokenToPubkey' \in [Namespaces -> [Tokens -> Owners]]
  BY DEF TypeOK, RedisTypeOK, DropToken, Owners
<1>3. staleTokens' \in [Namespaces -> [Tokens -> Nat \cup {Never}]]
  BY DEF TypeOK, RedisTypeOK, DropToken
<1> QED BY <1>1, <1>2, <1>3 DEF RedisTypeOK

LEMMA InitType == Init => TypeOK
<1> SUFFICES ASSUME Init PROVE TypeOK
  OBVIOUS
<1> PICK left \in [Tokens -> Owners] : InitRedis(left)
  BY DEF Init
<1>1. NobodyOwns \in [Tokens -> Owners]
  BY DEF NobodyOwns, Owners
<1>2. RedisTypeOK
  BY <1>1 DEF RedisTypeOK, InitRedis
<1>3. Idle \in Jobs /\ CleanerIdle \in Cleaners
  BY <1>1 DEF Jobs, CleanerIdle, Cleaners
<1> QED BY <1>2, <1>3 DEF TypeOK, Init

(* Every step keeps the types, whatever the number of workers.             *)
LEMMA NextType == TypeOK /\ [Next]_vars => TypeOK'
<1> SUFFICES ASSUME TypeOK, [Next]_vars PROVE TypeOK'
  OBVIOUS
<1>1. Idle \in Jobs /\ CleanerIdle \in Cleaners
  BY DEF Jobs, CleanerIdle, Cleaners, NobodyOwns, Owners
<1>2. ASSUME NEW w \in Workers, NEW j \in Jobs, job' = [job EXCEPT ![w] = j],
             UNCHANGED <<redisVars, cleaner, now>>
      PROVE  TypeOK'
  BY <1>2 DEF TypeOK, RedisTypeOK, redisVars
<1>3. ASSUME NEW w \in Workers, NEW j \in Jobs, job' = [job EXCEPT ![w] = j],
             RedisTypeOK', UNCHANGED <<cleaner, now>>
      PROVE  TypeOK'
  BY <1>3 DEF TypeOK, RedisTypeOK
<1>4. ASSUME NEW w \in Workers, Handle(w) PROVE TypeOK'
  <2>1. ASSUME NEW a \in Apps, NEW p \in PubKeys, NEW t \in Tokens,
               BeginRegister(w, a, p, t)
        PROVE  TypeOK'
    <3>1. TokenJob("register", a, p, t, now, {}) \in Jobs
      BY TokenJobType DEF TypeOK
    <3> QED BY <3>1, <2>1, <1>2 DEF BeginRegister
  <2>2. ASSUME NEW a \in Apps, NEW p \in PubKeys, NEW t \in Tokens,
               BeginDeregister(w, a, p, t)
        PROVE  TypeOK'
    <3>1. TokenJob("remove", a, p, t, 0, {}) \in Jobs
      BY TokenJobType
    <3> QED BY <3>1, <2>2, <1>2 DEF BeginDeregister
  <2>3. CASE CommitRegister(w)
    <3>1. job[w].owner \in Owners
      BY <2>3 DEF TypeOK, CommitRegister, Jobs, TokenJobs, PushJobs, Idle
    <3>2. RedisTypeOK'
      BY <2>3, <3>1, JobFields, AddTokenType DEF CommitRegister
    <3> QED BY <2>3, <3>2, <1>1, <1>3 DEF CommitRegister
  <2>4. CASE CommitRemove(w)
    <3>1. RedisTypeOK'
      BY <2>4, JobFields, DropTokenType DEF CommitRemove
    <3>2. Resume(job[w].ns, job[w].pk, job[w].todo) \in Jobs
      BY <2>4, JobFields, ResumeType DEF CommitRemove
    <3> QED BY <2>4, <3>1, <3>2, <1>3 DEF CommitRemove
  <2>5. ASSUME NEW n \in Namespaces, NEW p \in PubKeys, FetchTokens(w, n, p)
        PROVE  TypeOK'
    <3> DEFINE snapshot == IF n = Legacy THEN UNION {userTokens[a][p] : a \in Apps}
                                         ELSE userTokens[n][p]
    <3>1. \A m \in Namespaces : userTokens[m][p] \subseteq Tokens
      BY DEF TypeOK, RedisTypeOK
    <3>2. snapshot \subseteq Tokens
      BY <3>1 DEF Namespaces
    <3>3. PushJob("send", n, p, snapshot) \in Jobs
      BY <3>2, PushJobType
    <3> QED BY <2>5, <3>3, <1>2 DEF FetchTokens
  <2>6. ASSUME NEW reported \in SUBSET Tokens, FcmReplies(w, reported)
        PROVE  TypeOK'
    <3>1. Resume(job[w].ns, job[w].pk, reported) \in Jobs
      BY <2>6, JobFields, ResumeType DEF FcmReplies
    <3> QED BY <2>6, <3>1, <1>2 DEF FcmReplies
  <2>7. ASSUME NEW t \in Tokens, BeginPrune(w, t) PROVE TypeOK'
    <3> DEFINE n == job[w].ns
               p == job[w].pk
               rest == job[w].todo \ {t}
    <3>1. n \in Apps /\ n \in Namespaces /\ p \in PubKeys /\ rest \in SUBSET Tokens
      BY <2>7, JobFields DEF BeginPrune, Namespaces
    <3>2. TokenJob("remove", n, p, t, 0, rest) \in Jobs
      BY <3>1, TokenJobType
    <3>3. Resume(n, p, rest) \in Jobs
      BY <3>1, ResumeType
    <3> QED BY <2>7, <3>2, <3>3, <1>2 DEF BeginPrune
  <2>8. ASSUME NEW t \in Tokens, RemoveGlobally(w, t) PROVE TypeOK'
    <3>1. RedisTypeOK'
      BY <2>8, JobFields, DropTokenType DEF RemoveGlobally, Namespaces
    <3>2. Resume(job[w].ns, job[w].pk, job[w].todo \ {t}) \in Jobs
      <4>1. job[w].todo \ {t} \in SUBSET Tokens
        BY <2>8, JobFields DEF RemoveGlobally
      <4> QED BY <2>8, <4>1, JobFields, ResumeType DEF RemoveGlobally
    <3> QED BY <2>8, <3>1, <3>2, <1>3 DEF RemoveGlobally
  <2>9. CASE PruneError(w)
    <3>1. CASE job[w].op = "remove"
      <4>1. Resume(job[w].ns, job[w].pk, job[w].todo) \in Jobs
        BY <3>1, JobFields, ResumeType
      <4> QED BY <2>9, <3>1, <4>1, <1>2 DEF PruneError
    <3>2. CASE job[w].op = "prune"
      <4>1. PICK t \in job[w].todo :
              job' = [job EXCEPT ![w] = Resume(job[w].ns, job[w].pk, job[w].todo \ {t})]
        BY <2>9, <3>2 DEF PruneError
      <4>2. Resume(job[w].ns, job[w].pk, job[w].todo \ {t}) \in Jobs
        <5>1. job[w].todo \ {t} \in SUBSET Tokens
          BY <3>2, JobFields
        <5> QED BY <3>2, <5>1, JobFields, ResumeType
      <4> QED BY <2>9, <4>1, <4>2, <1>2 DEF PruneError
    <3> QED BY <2>9, <3>1, <3>2 DEF PruneError
  <2>10. CASE Abort(w)
    BY <2>10, <1>1, <1>2 DEF Abort
  <2> QED BY <1>4, <2>1, <2>2, <2>3, <2>4, <2>5, <2>6, <2>7, <2>8, <2>9, <2>10
          DEF Handle
<1>5. CASE CleanupFind
  <2> DEFINE cutoff == IF now >= MaxAge THEN now - MaxAge ELSE 0
             stale == {t \in Tokens : staleTokens[Legacy][t] \in 0 .. cutoff}
  <2>1. cutoff \in Int /\ stale \in SUBSET Tokens /\ NobodyOwns \in [Tokens -> Owners]
    BY TokenStoreAssumption DEF TypeOK, NobodyOwns, Owners
  <2>2. cleaner' \in {CleanerIdle, [op |-> "found", cutoff |-> cutoff, stale |-> stale,
                                   owners |-> NobodyOwns]}
    BY <1>5 DEF CleanupFind
  <2>3. cleaner' \in Cleaners
    <3> HIDE DEF cutoff, stale
    <3> QED BY <1>1, <2>1, <2>2 DEF Cleaners
  <2> QED BY <2>3, <1>5 DEF CleanupFind, TypeOK, RedisTypeOK, redisVars
<1>6. CASE CleanupMap
  <2>1. [t \in Tokens |-> IF t \in cleaner.stale THEN tokenToPubkey[Legacy][t]
                                                ELSE NoPubKey] \in [Tokens -> Owners]
    BY DEF TypeOK, RedisTypeOK, Namespaces, Owners
  <2>2. cleaner' \in Cleaners
    BY <1>6, <2>1 DEF CleanupMap, Cleaners, TypeOK
  <2> QED BY <2>2, <1>6 DEF CleanupMap, TypeOK, RedisTypeOK, redisVars
<1>7. CASE CleanupExecute
  <2>1. RedisTypeOK'
    BY <1>7 DEF CleanupExecute, TypeOK, RedisTypeOK, Owners
  <2> QED BY <2>1, <1>1, <1>7 DEF CleanupExecute, TypeOK
<1>8. CASE CleanupAbort
  BY <1>8, <1>1 DEF CleanupAbort, TypeOK, RedisTypeOK, redisVars
<1>9. CASE Tick
  BY <1>9 DEF Tick, TypeOK, RedisTypeOK, redisVars
<1>10. CASE UNCHANGED vars
  BY <1>10 DEF vars, TypeOK, RedisTypeOK
<1> QED BY <1>4, <1>5, <1>6, <1>7, <1>8, <1>9, <1>10 DEF Next, Cleanup

(* The tokens, the owner hashes and the sorted sets of redis_store.rs, and *)
(* the jobs of any number of replicas, keep their types.                   *)
THEOREM TypeCorrect == Spec => []TypeOK
BY InitType, NextType, PTL DEF Spec

-----------------------------------------------------------------------------
(* What a worker learned from its HGET still holds when its transaction    *)
(* runs, as no other worker writes in between; ...                         *)
ReplyIsCurrent ==
  \A w \in Workers :
    LET j == job[w] IN
    /\ j.op = "register" => j.owner = tokenToPubkey[j.ns][j.token]
    /\ j.op = "remove" => tokenToPubkey[j.ns][j.token] = j.pk

(* ... with one replica this makes an inductive invariant.                 *)
IInv == TypeOK /\ OwnershipConsistent /\ ReplyIsCurrent

(* Nothing outside a job of the worker matters to its reply being current. *)
LEMMA NewJobCurrent ==
  ASSUME SingleReplica, TypeOK, NEW w \in Workers, NEW j,
         job' = [job EXCEPT ![w] = j],
         j.op = "register" => j.owner = tokenToPubkey'[j.ns][j.token],
         j.op = "remove" => tokenToPubkey'[j.ns][j.token] = j.pk
  PROVE  ReplyIsCurrent'
<1> SUFFICES ASSUME NEW v \in Workers
             PROVE  /\ job'[v].op = "register" =>
                         job'[v].owner = tokenToPubkey'[job'[v].ns][job'[v].token]
                    /\ job'[v].op = "remove" =>
                         tokenToPubkey'[job'[v].ns][job'[v].token] = job'[v].pk
  BY DEF ReplyIsCurrent
<1>1. v = w
  BY DEF SingleReplica
<1>2. job'[v] = j
  BY <1>1 DEF TypeOK
<1> QED BY <1>2

(* Jobs that write no token need no current reply.                         *)
LEMMA ResumeOp ==
  ASSUME NEW n, NEW p, NEW todo
  PROVE  Resume(n, p, todo).op \notin {"register", "remove"}
BY DEF Resume, PushJob, Idle

(* A registration whose reply is current keeps the structures consistent.  *)
LEMMA AddTokenConsistent ==
  ASSUME TypeOK, OwnershipConsistent, NEW n \in Apps, NEW p \in PubKeys,
         NEW t \in Tokens, NEW at \in Nat, AddToken(n, p, t, tokenToPubkey[n][t], at)
  PROVE  OwnershipConsistent'
<1> SUFFICES ASSUME NEW a \in Apps, NEW u \in Tokens
             PROVE  /\ \A q \in PubKeys : u \in userTokens'[a][q] <=> tokenToPubkey'[a][u] = q
                    /\ staleTokens'[a][u] = Never <=> tokenToPubkey'[a][u] = NoPubKey
  BY DEF OwnershipConsistent
<1>1. a \in Namespaces /\ n \in Namespaces
  BY DEF Namespaces
<1>2. /\ \A q \in PubKeys : u \in userTokens[a][q] <=> tokenToPubkey[a][u] = q
      /\ staleTokens[a][u] = Never <=> tokenToPubkey[a][u] = NoPubKey
  BY DEF OwnershipConsistent
<1>3. tokenToPubkey'[a][u] = IF a = n /\ u = t THEN p ELSE tokenToPubkey[a][u]
  BY <1>1 DEF AddToken, TypeOK, RedisTypeOK
<1>4. staleTokens'[a][u] = IF a = n /\ u = t THEN at ELSE staleTokens[a][u]
  BY <1>1 DEF AddToken, TypeOK, RedisTypeOK
<1>5. ASSUME NEW q \in PubKeys
      PROVE  userTokens'[a][q] = IF a # n THEN userTokens[a][q]
               ELSE IF q = p THEN userTokens[a][q] \cup {t}
               ELSE IF q = tokenToPubkey[n][t] THEN userTokens[a][q] \ {t}
               ELSE userTokens[a][q]
  BY <1>1 DEF AddToken, TypeOK, RedisTypeOK
<1>6. at # Never /\ p # NoPubKey
  BY TokenStoreAssumption DEF Never
<1>7. ASSUME NEW q \in PubKeys
      PROVE  u \in userTokens'[a][q] <=> tokenToPubkey'[a][u] = q
  <2>1. u \in userTokens[a][q] <=> tokenToPubkey[a][u] = q
    BY <1>2
  <2>2. CASE a = n /\ u = t
    <3>1. tokenToPubkey'[a][u] = p
      BY <1>3, <2>2
    <3>2. u \in userTokens'[a][q] <=> q = p
      BY <1>5, <2>1, <2>2
    <3> QED BY <3>1, <3>2
  <2>3. CASE ~(a = n /\ u = t)
    <3>1. tokenToPubkey'[a][u] = tokenToPubkey[a][u]
      BY <1>3, <2>3
    <3>2. u \in userTokens'[a][q] <=> u \in userTokens[a][q]
      BY <1>5, <2>3
    <3> QED BY <2>1, <3>1, <3>2
  <2> QED BY <2>2, <2>3
<1> QED BY <1>2, <1>3, <1>4, <1>6, <1>7

(* So does a removal on behalf of the owner.                               *)
LEMMA DropTokenConsistent ==
  ASSUME TypeOK, OwnershipConsistent, NEW n \in Apps, NEW p \in PubKeys,
         NEW t \in Tokens, tokenToPubkey[n][t] = p, DropToken(n, p, t)
  PROVE  OwnershipConsistent'
<1> SUFFICES ASSUME NEW a \in Apps, NEW u \in Tokens
             PROVE  /\ \A q \in PubKeys : u \in userTokens'[a][q] <=> tokenToPubkey'[a][u] = q
                    /\ staleTokens'[a][u] = Never <=> tokenToPubkey'[a][u] = NoPubKey
  BY DEF OwnershipConsistent
<1>1. a \in Namespaces /\ n \in Namespaces
  BY DEF Namespaces
<1>2. /\ \A q \in PubKeys : u \in userTokens[a][q] <=> tokenToPubkey[a][u] = q
      /\ staleTokens[a][u] = Never <=> tokenToPubkey[a][u] = NoPubKey
  BY DEF OwnershipConsistent
<1>3. tokenToPubkey'[a][u] = IF a = n /\ u = t THEN NoPubKey ELSE tokenToPubkey[a][u]
  BY <1>1 DEF DropToken, TypeOK, RedisTypeOK
<1>4. staleTokens'[a][u] = IF a = n /\ u = t THEN Never ELSE staleTokens[a][u]
  BY <1>1 DEF DropToken, TypeOK, RedisTypeOK
<1>5. ASSUME NEW q \in PubKeys
      PROVE  userTokens'[a][q] = IF a = n /\ q = p THEN userTokens[a][q] \ {t}
                                                   ELSE userTokens[a][q]
  BY <1>1 DEF DropToken, TypeOK, RedisTypeOK
<1>6. ASSUME NEW q \in PubKeys
      PROVE  u \in userTokens'[a][q] <=> tokenToPubkey'[a][u] = q
  <2>1. u \in userTokens[a][q] <=> tokenToPubkey[a][u] = q
    BY <1>2
  <2>2. CASE a = n /\ u = t
    <3>1. tokenToPubkey'[a][u] # q
      BY <1>3, <2>2, TokenStoreAssumption
    <3>2. u \notin userTokens'[a][q]
      BY <1>5, <2>1, <2>2
    <3> QED BY <3>1, <3>2
  <2>3. CASE ~(a = n /\ u = t)
    <3>1. tokenToPubkey'[a][u] = tokenToPubkey[a][u]
      BY <1>3, <2>3
    <3>2. u \in userTokens'[a][q] <=> u \in userTokens[a][q]
      BY <1>5, <2>3
    <3> QED BY <2>1, <3>1, <3>2
  <2> QED BY <2>2, <2>3
<1> QED BY <1>2, <1>3, <1>4, <1>6

(* The steps that write the legacy keys, or nothing, leave the apps alone. *)
AppsUntouched ==
  \A a \in Apps : /\ userTokens'[a] = userTokens[a]
                  /\ tokenToPubkey'[a] = tokenToPubkey[a]
                  /\ staleTokens'[a] = staleTokens[a]

LEMMA UntouchedConsistent ==
  ASSUME OwnershipConsistent, AppsUntouched PROVE OwnershipConsistent'
BY DEF OwnershipConsistent, AppsUntouched

LEMMA LegacyDropUntouched ==
  ASSUME TypeOK, NEW p, NEW t, DropToken(Legacy, p, t) PROVE AppsUntouched
BY TokenStoreAssumption DEF DropToken, AppsUntouched, TypeOK, RedisTypeOK, Namespaces

LEMMA CleanupUntouched ==
  ASSUME TypeOK, CleanupExecute PROVE AppsUntouched
BY TokenStoreAssumption DEF CleanupExecute, AppsUntouched, TypeOK, RedisTypeOK, Namespaces

(* Only the two transactions on a namespace of an app write to an app.     *)
LEMMA AppWriters ==
  ASSUME TypeOK, [Next]_vars
  PROVE  AppsUntouched \/ \E w \in Workers : CommitRegister(w) \/ CommitRemove(w)
<1>1. UNCHANGED redisVars => AppsUntouched
  BY DEF redisVars, AppsUntouched
<1>2. ASSUME NEW w \in Workers, Handle(w)
      PROVE  AppsUntouched \/ CommitRegister(w) \/ CommitRemove(w)
  <2>1. ASSUME NEW t \in Tokens, RemoveGlobally(w, t) PROVE AppsUntouched
    BY <2>1, LegacyDropUntouched DEF RemoveGlobally
  <2>2. CASE \E a \in Apps, p \in PubKeys, t \in Tokens :
               BeginRegister(w, a, p, t) \/ BeginDeregister(w, a, p, t)
    BY <2>2, <1>1 DEF BeginRegister, BeginDeregister
  <2>3. CASE \E n \in Namespaces, p \in PubKeys : FetchTokens(w, n, p)
    BY <2>3, <1>1 DEF FetchTokens
  <2>4. CASE \E reported \in SUBSET Tokens : FcmReplies(w, reported)
    BY <2>4, <1>1 DEF FcmReplies
  <2>5. CASE \E t \in Tokens : BeginPrune(w, t)
    BY <2>5, <1>1 DEF BeginPrune
  <2>6. CASE PruneError(w) \/ Abort(w)
    BY <2>6, <1>1 DEF PruneError, Abort
  <2> QED BY <1>2, <2>1, <2>2, <2>3, <2>4, <2>5, <2>6 DEF Handle
<1>3. CASE Cleanup
  BY <1>3, <1>1, CleanupUntouched DEF Cleanup, CleanupFind, CleanupMap, CleanupAbort
<1>4. CASE Tick \/ UNCHANGED vars
  BY <1>4, <1>1 DEF Tick, vars, redisVars
<1> QED BY <1>2, <1>3, <1>4 DEF Next

LEMMA InitOwnership == Init => OwnershipConsistent /\ ReplyIsCurrent
<1> SUFFICES ASSUME Init PROVE OwnershipConsistent /\ ReplyIsCurrent
  OBVIOUS
<1> PICK left \in [Tokens -> Owners] : InitRedis(left)
  BY DEF Init
<1>1. OwnershipConsistent
  BY TokenStoreAssumption DEF InitRedis, OwnershipConsistent, Namespaces, NobodyOwns
<1>2. ReplyIsCurrent
  BY DEF Init, ReplyIsCurrent, Idle
<1> QED BY <1>1, <1>2

LEMMA NextOwnership ==
  SingleReplica /\ IInv /\ [Next]_vars => OwnershipConsistent' /\ ReplyIsCurrent'
<1> SUFFICES ASSUME SingleReplica, IInv, [Next]_vars
             PROVE  OwnershipConsistent' /\ ReplyIsCurrent'
  OBVIOUS
<1> USE DEF IInv
<1>1. ASSUME NEW w \in Workers, NEW j, job' = [job EXCEPT ![w] = j],
             j.op \notin {"register", "remove"}, OwnershipConsistent'
      PROVE  OwnershipConsistent' /\ ReplyIsCurrent'
  BY <1>1, NewJobCurrent
<1>2. UNCHANGED redisVars => OwnershipConsistent'
  BY DEF redisVars, OwnershipConsistent
<1>3. Idle.op = "idle"
  BY DEF Idle
<1>4. ASSUME NEW w \in Workers, Handle(w)
      PROVE  OwnershipConsistent' /\ ReplyIsCurrent'
  <2>1. ASSUME NEW a \in Apps, NEW p \in PubKeys, NEW t \in Tokens,
               BeginRegister(w, a, p, t)
        PROVE  OwnershipConsistent' /\ ReplyIsCurrent'
    <3> DEFINE j == TokenJob("register", a, p, t, now, {})
    <3>1. j.op = "register" /\ j.owner = tokenToPubkey[j.ns][j.token]
      BY DEF TokenJob
    <3>2. UNCHANGED redisVars /\ job' = [job EXCEPT ![w] = j]
      BY <2>1 DEF BeginRegister
    <3> HIDE DEF j
    <3> QED BY <3>1, <3>2, <1>2, NewJobCurrent DEF redisVars
  <2>2. ASSUME NEW a \in Apps, NEW p \in PubKeys, NEW t \in Tokens,
               BeginDeregister(w, a, p, t)
        PROVE  OwnershipConsistent' /\ ReplyIsCurrent'
    <3> DEFINE j == TokenJob("remove", a, p, t, 0, {})
    <3>1. j.op = "remove" /\ tokenToPubkey[j.ns][j.token] = j.pk
      BY <2>2 DEF TokenJob, BeginDeregister
    <3>2. UNCHANGED redisVars /\ job' = [job EXCEPT ![w] = j]
      BY <2>2 DEF BeginDeregister
    <3> HIDE DEF j
    <3> QED BY <3>1, <3>2, <1>2, NewJobCurrent DEF redisVars
  <2>3. CASE CommitRegister(w)
    <3>1. OwnershipConsistent'
      BY <2>3, JobFields, AddTokenConsistent DEF CommitRegister, ReplyIsCurrent
    <3> QED BY <2>3, <3>1, <1>1, <1>3 DEF CommitRegister
  <2>4. CASE CommitRemove(w)
    <3>1. OwnershipConsistent'
      BY <2>4, JobFields, DropTokenConsistent DEF CommitRemove, ReplyIsCurrent
    <3> QED BY <2>4, <3>1, <1>1, ResumeOp DEF CommitRemove
  <2>5. ASSUME NEW n \in Namespaces, NEW p \in PubKeys, FetchTokens(w, n, p)
        PROVE  OwnershipConsistent' /\ ReplyIsCurrent'
    BY <2>5, <1>1, <1>2 DEF FetchTokens, PushJob
  <2>6. ASSUME NEW reported \in SUBSET Tokens, FcmReplies(w, reported)
        PROVE  OwnershipConsistent' /\ ReplyIsCurrent'
    BY <2>6, <1>1, <1>2, ResumeOp DEF FcmReplies
  <2>7. ASSUME NEW t \in Tokens, BeginPrune(w, t)
        PROVE  OwnershipConsistent' /\ ReplyIsCurrent'
    <3> DEFINE n == job[w].ns
               p == job[w].pk
               rest == job[w].todo \ {t}
    <3>1. UNCHANGED redisVars /\ OwnershipConsistent'
      BY <2>7, <1>2 DEF BeginPrune
    <3>2. CASE tokenToPubkey[n][t] = p
      <4> DEFINE j == TokenJob("remove", n, p, t, 0, rest)
      <4>1. j.op = "remove" /\ tokenToPubkey[j.ns][j.token] = j.pk
        BY <3>2 DEF TokenJob
      <4>2. job' = [job EXCEPT ![w] = j]
        BY <2>7, <3>2 DEF BeginPrune
      <4> HIDE DEF j
      <4> QED BY <4>1, <4>2, <3>1, NewJobCurrent DEF redisVars
    <3>3. CASE tokenToPubkey[n][t] # p
      <4>1. job' = [job EXCEPT ![w] = Resume(n, p, rest)]
        BY <2>7, <3>3 DEF BeginPrune
      <4> QED BY <4>1, <3>1, <1>1, ResumeOp
    <3> QED BY <3>2, <3>3
  <2>8. ASSUME NEW t \in Tokens, RemoveGlobally(w, t)
        PROVE  OwnershipConsistent' /\ ReplyIsCurrent'
    <3>1. OwnershipConsistent'
      BY <2>8, LegacyDropUntouched, UntouchedConsistent DEF RemoveGlobally
    <3> QED BY <2>8, <3>1, <1>1, ResumeOp DEF RemoveGlobally
  <2>9. CASE PruneError(w)
    <3>1. PICK todo : job' = [job EXCEPT ![w] = Resume(job[w].ns, job[w].pk, todo)]
      BY <2>9 DEF PruneError
    <3> QED BY <2>9, <3>1, <1>1, <1>2, ResumeOp DEF PruneError
  <2>10. CASE Abort(w)
    BY <2>10, <1>1, <1>2, <1>3 DEF Abort
  <2> QED BY <1>4, <2>1, <2>2, <2>3, <2>4, <2>5, <2>6, <2>7, <2>8, <2>9, <2>10
          DEF Handle
<1>5. ASSUME UNCHANGED job, AppsUntouched
      PROVE  OwnershipConsistent' /\ ReplyIsCurrent'
  <2>1. ASSUME NEW w \in Workers, job[w].op \in {"register", "remove"}
        PROVE  tokenToPubkey'[job[w].ns] = tokenToPubkey[job[w].ns]
    BY <1>5, <2>1, JobFields DEF AppsUntouched
  <2> QED BY <1>5, <2>1, UntouchedConsistent DEF ReplyIsCurrent
<1>6. CASE Cleanup
  <2>1. UNCHANGED job
    BY <1>6 DEF Cleanup, CleanupFind, CleanupMap, CleanupExecute, CleanupAbort
  <2>2. AppsUntouched
    BY <1>6, CleanupUntouched DEF Cleanup, CleanupFind, CleanupMap, CleanupAbort,
                                  redisVars, AppsUntouched
  <2> QED BY <2>1, <2>2, <1>5
<1>7. CASE Tick \/ UNCHANGED vars
  BY <1>7, <1>5 DEF Tick, vars, redisVars, AppsUntouched
<1> QED BY <1>4, <1>6, <1>7 DEF Next

LEMMA InductiveInvariant == ASSUME SingleReplica PROVE Spec => []IInv
<1>1. Init => IInv
  BY InitType, InitOwnership DEF IInv
<1>2. IInv /\ [Next]_vars => IInv'
  BY SingleReplica, NextType, NextOwnership DEF IInv
<1> QED BY <1>1, <1>2, PTL DEF Spec

(* With one replica a token is in the set of its owner only, and in the    *)
(* sorted set exactly while it has one, after every Redis round trip.      *)
THEOREM Ownership == ASSUME SingleReplica PROVE Spec => []OwnershipConsistent
BY InductiveInvariant, PTL DEF IInv

-----------------------------------------------------------------------------
(* What is left of the agreement when two replicas write at once: a token  *)
(* is in the sorted set exactly while it has an owner, and a push to its   *)
(* owner reaches it.                                                       *)
OwnersReached ==
  \A a \in Apps, t \in Tokens :
    /\ staleTokens[a][t] = Never <=> tokenToPubkey[a][t] = NoPubKey
    /\ tokenToPubkey[a][t] \in PubKeys => t \in userTokens[a][tokenToPubkey[a][t]]

(* It survives a registration whatever owner the HGET saw, ...             *)
LEMMA AddTokenReached ==
  ASSUME TypeOK, OwnersReached, NEW n \in Apps, NEW p \in PubKeys, NEW t \in Tokens,
         NEW seen, NEW at \in Nat, AddToken(n, p, t, seen, at)
  PROVE  OwnersReached'
<1> SUFFICES ASSUME NEW a \in Apps, NEW u \in Tokens
             PROVE  /\ staleTokens'[a][u] = Never <=> tokenToPubkey'[a][u] = NoPubKey
                    /\ tokenToPubkey'[a][u] \in PubKeys =>
                         u \in userTokens'[a][tokenToPubkey'[a][u]]
  BY DEF OwnersReached
<1>1. a \in Namespaces /\ n \in Namespaces
  BY DEF Namespaces
<1>2. /\ staleTokens[a][u] = Never <=> tokenToPubkey[a][u] = NoPubKey
      /\ tokenToPubkey[a][u] \in PubKeys => u \in userTokens[a][tokenToPubkey[a][u]]
  BY DEF OwnersReached
<1>3. tokenToPubkey'[a][u] = IF a = n /\ u = t THEN p ELSE tokenToPubkey[a][u]
  BY <1>1 DEF AddToken, TypeOK, RedisTypeOK
<1>4. staleTokens'[a][u] = IF a = n /\ u = t THEN at ELSE staleTokens[a][u]
  BY <1>1 DEF AddToken, TypeOK, RedisTypeOK
<1>5. ASSUME NEW q \in PubKeys
      PROVE  userTokens'[a][q] = IF a # n THEN userTokens[a][q]
               ELSE IF q = p THEN userTokens[a][q] \cup {t}
               ELSE IF q = seen THEN userTokens[a][q] \ {t}
               ELSE userTokens[a][q]
  BY <1>1 DEF AddToken, TypeOK, RedisTypeOK
<1>6. at # Never /\ p # NoPubKey
  BY TokenStoreAssumption DEF Never
<1>7. CASE a = n /\ u = t
  BY <1>3, <1>4, <1>5, <1>6, <1>7
<1>8. CASE ~(a = n /\ u = t)
  <2>1. tokenToPubkey'[a][u] = tokenToPubkey[a][u] /\ staleTokens'[a][u] = staleTokens[a][u]
    BY <1>3, <1>4, <1>8
  <2>2. ASSUME NEW q \in PubKeys, u \in userTokens[a][q]
        PROVE  u \in userTokens'[a][q]
    BY <1>5, <1>8, <2>2
  <2> QED BY <1>2, <2>1, <2>2
<1> QED BY <1>7, <1>8

(* ... and a removal whoever asked for it.                                 *)
LEMMA DropTokenReached ==
  ASSUME TypeOK, OwnersReached, NEW n \in Apps, NEW p \in PubKeys, NEW t \in Tokens,
         DropToken(n, p, t)
  PROVE  OwnersReached'
<1> SUFFICES ASSUME NEW a \in Apps, NEW u \in Tokens
             PROVE  /\ staleTokens'[a][u] = Never <=> tokenToPubkey'[a][u] = NoPubKey
                    /\ tokenToPubkey'[a][u] \in PubKeys =>
                         u \in userTokens'[a][tokenToPubkey'[a][u]]
  BY DEF OwnersReached
<1>1. a \in Namespaces /\ n \in Namespaces
  BY DEF Namespaces
<1>2. /\ staleTokens[a][u] = Never <=> tokenToPubkey[a][u] = NoPubKey
      /\ tokenToPubkey[a][u] \in PubKeys => u \in userTokens[a][tokenToPubkey[a][u]]
  BY DEF OwnersReached
<1>3. tokenToPubkey'[a][u] = IF a = n /\ u = t THEN NoPubKey ELSE tokenToPubkey[a][u]
  BY <1>1 DEF DropToken, TypeOK, RedisTypeOK
<1>4. staleTokens'[a][u] = IF a = n /\ u = t THEN Never ELSE staleTokens[a][u]
  BY <1>1 DEF DropToken, TypeOK, RedisTypeOK
<1>5. ASSUME NEW q \in PubKeys
      PROVE  userTokens'[a][q] = IF a = n /\ q = p THEN userTokens[a][q] \ {t}
                                                   ELSE userTokens[a][q]
  BY <1>1 DEF DropToken, TypeOK, RedisTypeOK
<1>6. CASE a = n /\ u = t
  BY <1>3, <1>4, <1>6, TokenStoreAssumption
<1>7. CASE ~(a = n /\ u = t)
  <2>1. tokenToPubkey'[a][u] = tokenToPubkey[a][u] /\ staleTokens'[a][u] = staleTokens[a][u]
    BY <1>3, <1>4, <1>7
  <2>2. ASSUME NEW q \in PubKeys, u \in userTokens[a][q]
        PROVE  u \in userTokens'[a][q]
    BY <1>5, <1>7, <2>2
  <2> QED BY <1>2, <2>1, <2>2
<1> QED BY <1>6, <1>7

LEMMA InitReached == Init => OwnersReached
<1> SUFFICES ASSUME Init PROVE OwnersReached
  OBVIOUS
<1> PICK left \in [Tokens -> Owners] : InitRedis(left)
  BY DEF Init
<1> QED BY TokenStoreAssumption DEF InitRedis, OwnersReached, Namespaces, NobodyOwns

LEMMA NextReached == TypeOK /\ OwnersReached /\ [Next]_vars => OwnersReached'
<1> SUFFICES ASSUME TypeOK, OwnersReached, [Next]_vars PROVE OwnersReached'
  OBVIOUS
<1>1. CASE AppsUntouched
  BY <1>1 DEF AppsUntouched, OwnersReached
<1>2. ASSUME NEW w \in Workers, CommitRegister(w) PROVE OwnersReached'
  BY <1>2, JobFields, AddTokenReached DEF CommitRegister
<1>3. ASSUME NEW w \in Workers, CommitRemove(w) PROVE OwnersReached'
  BY <1>3, JobFields, DropTokenReached DEF CommitRemove
<1> QED BY <1>1, <1>2, <1>3, AppWriters

(* However many replicas read and write the tokens of an app at once, and  *)
(* wherever one of them crashes, no token that has an owner is out of the  *)
(* owner's reach or of the expiry's: the race between the HGET and the     *)
(* transaction of add_or_update_token_with_app only leaves a token in the  *)
(* set of somebody who no longer owns it.                                  *)
THEOREM ReachedByOwner == Spec => []OwnersReached
<1>1. TypeOK /\ OwnersReached /\ [Next]_vars => OwnersReached' /\ TypeOK'
  BY NextReached, NextType
<1> QED BY <1>1, InitReached, InitType, PTL DEF Spec

-----------------------------------------------------------------------------
(* TokenStore implements TokenRegistry.                                    *)
registryBar == [a \in Apps |-> tokenToPubkey[a]]
audienceBar == [a \in Apps |-> userTokens[a]]

(* The audience of the registry is what the consistent sets hold.          *)
AudienceOwned == audienceBar = Registry!Owned(registryBar)

LEMMA AudienceIsOwned == TypeOK /\ OwnershipConsistent => AudienceOwned
<1> SUFFICES ASSUME TypeOK, OwnershipConsistent PROVE AudienceOwned
  OBVIOUS
<1>1. ASSUME NEW a \in Apps
      PROVE  userTokens[a] = [p \in PubKeys |-> {t \in Tokens : tokenToPubkey[a][t] = p}]
  <2>1. userTokens[a] \in [PubKeys -> SUBSET Tokens]
    BY DEF TypeOK, RedisTypeOK, Namespaces
  <2>2. ASSUME NEW p \in PubKeys
        PROVE  userTokens[a][p] = {t \in Tokens : tokenToPubkey[a][t] = p}
    BY <2>1 DEF OwnershipConsistent
  <2> QED BY <2>1, <2>2
<1> QED BY <1>1 DEF AudienceOwned, audienceBar, registryBar, Registry!Owned

LEMMA RefinesInit == Init => Registry!Init
<1> SUFFICES ASSUME Init PROVE Registry!Init
  OBVIOUS
<1>1. TypeOK /\ OwnershipConsistent
  BY InitType, InitOwnership
<1>2. registryBar = [a \in Apps |-> [t \in Tokens |-> NoPubKey]]
  BY TokenStoreAssumption DEF Init, InitRedis, registryBar, Namespaces, NobodyOwns
<1> QED BY <1>1, <1>2, AudienceIsOwned DEF AudienceOwned, Registry!Init, registryBar, audienceBar

LEMMA RefinesNext ==
  SingleReplica /\ IInv /\ AudienceOwned' /\ [Next]_vars => [Registry!Next]_(Registry!registryVars)
<1> SUFFICES ASSUME SingleReplica, IInv, AudienceOwned', [Next]_vars
             PROVE  [Registry!Next]_(Registry!registryVars)
  OBVIOUS
<1> USE DEF IInv
<1>1. audienceBar' = Registry!Owned(registryBar)'
  BY DEF AudienceOwned
<1>2. ASSUME AppsUntouched PROVE UNCHANGED Registry!registryVars
  BY <1>2 DEF AppsUntouched, Registry!registryVars
<1>4. ASSUME NEW w \in Workers, CommitRegister(w) PROVE Registry!Next
  <2>1. PICK a \in Apps, p \in PubKeys, t \in Tokens :
          a = job[w].ns /\ p = job[w].pk /\ t = job[w].token
    BY <1>4, JobFields DEF CommitRegister
  <2>2. registryBar' = [registryBar EXCEPT ![a][t] = p]
    BY <1>4, <2>1 DEF CommitRegister, AddToken, registryBar, TypeOK, RedisTypeOK, Namespaces
  <2>3. Registry!Register(a, p, t)
    BY <1>1, <2>2 DEF Registry!Register, registryBar, audienceBar
  <2> QED BY <2>1, <2>3 DEF Registry!Next
<1>5. ASSUME NEW w \in Workers, CommitRemove(w) PROVE Registry!Next
  <2>1. PICK a \in Apps, p \in PubKeys, t \in Tokens :
          a = job[w].ns /\ p = job[w].pk /\ t = job[w].token
    BY <1>5, JobFields DEF CommitRemove
  <2>2. registryBar' = [registryBar EXCEPT ![a][t] = NoPubKey]
    BY <1>5, <2>1 DEF CommitRemove, DropToken, registryBar, TypeOK, RedisTypeOK, Namespaces
  <2>3. registryBar[a][t] = p
    BY <1>5, <2>1 DEF CommitRemove, ReplyIsCurrent, registryBar
  <2>4. Registry!Remove(a, p, t)
    BY <1>1, <2>2, <2>3 DEF Registry!Remove, registryBar, audienceBar
  <2> QED BY <2>1, <2>4 DEF Registry!Next
<1> QED BY <1>2, <1>4, <1>5, AppWriters

(* With one replica every registration, deregistration and pruning, with   *)
(* its read and its transaction, is one step of the registry: the last     *)
(* pubkey to register a token owns it, and only its owner can remove it.   *)
THEOREM Refinement == ASSUME SingleReplica PROVE Spec => RegistrySpec
<1>1. IInv /\ AudienceOwned' /\ [Next]_vars => [Registry!Next]_(Registry!registryVars)
  BY SingleReplica, RefinesNext
<1>2. IInv => AudienceOwned
  BY AudienceIsOwned DEF IInv
<1> QED BY <1>1, <1>2, RefinesInit, InductiveInvariant, PTL
        DEF Spec, RegistrySpec, Registry!Spec
=============================================================================
