-------------------------- MODULE SubscriptionProofs --------------------------
(* Theorems about SubscriptionState: its types, the mirror of the two      *)
(* indexes, the ledger of relay subscriptions, the bound on the reference  *)
(* counts, and what a recovery loads, for any clients.                     *)
EXTENDS SubscriptionState, FiniteSetTheorems, TLAPS

LEMMA EntryTypes ==
  ASSUME NEW k \in Holders, NEW f \in Filters
  PROVE  /\ HashOf[f] \in Hashes
         /\ Canonical[f] \in Filters
         /\ <<AppOf(k), f>> \in Data
         /\ \A op \in {"sadd", "set", "srem", "del", "forget"}, evict \in BOOLEAN :
              Write(op, k, f, evict) \in Tasks
  BY SubscriptionStateAssumption DEF Data, Write, Tasks

(* What Untrack leaves behind has the types of the memory.                 *)
LEMMA UntrackTypes ==
  ASSUME TypeOK, NEW k \in Holders, NEW gone \in SUBSET Hashes, Untrack(k, gone)
  PROVE  /\ refCount' \in [Hashes -> Nat]
         /\ userFilters' \in [Holders -> SUBSET Hashes]
         /\ filterUsers' \in [Hashes -> SUBSET Holders]
         /\ recounted' \subseteq Hashes
         /\ userSubs' \subseteq Hashes
         /\ openSubs' \in [Hashes -> Int]
<1>1. refCount' \in [Hashes -> Nat]
  BY DEF TypeOK, Untrack
<1>2. /\ userFilters' \in [Holders -> SUBSET Hashes]
      /\ filterUsers' \in [Hashes -> SUBSET Holders]
      /\ recounted' \subseteq Hashes
      /\ userSubs' \subseteq Hashes
  BY DEF TypeOK, Untrack
<1>3. openSubs' \in [Hashes -> Int]
  BY DEF TypeOK, Untrack
<1> QED BY <1>1, <1>2, <1>3

LEMMA TrackTypes ==
  ASSUME TypeOK, NEW k \in Holders, NEW h \in Hashes, Track(k, h),
         Subscribe(h) \/ UNCHANGED relay
  PROVE  /\ refCount' \in [Hashes -> Nat]
         /\ userFilters' \in [Holders -> SUBSET Hashes]
         /\ filterUsers' \in [Hashes -> SUBSET Holders]
         /\ recounted' \subseteq Hashes
         /\ userSubs' \subseteq Hashes
         /\ openSubs' \in [Hashes -> Int]
  BY DEF TypeOK, Track, Subscribe, relay

LEMMA TypeInit == Init => TypeOK
  BY DEF Init, TypeOK

LEMMA TypeStep == TypeOK /\ [Next]_vars => TypeOK'
<1> SUFFICES ASSUME TypeOK, [Next]_vars PROVE TypeOK'
  OBVIOUS
<1> USE DEF memory, manager, relay, redis
<1>1. ASSUME NEW k \in Holders, NEW f \in Filters, Upsert(k, f) PROVE TypeOK'
  <2>1. HashOf[f] \in Hashes /\ Write("sadd", k, Canonical[f], FALSE) \in Tasks
    BY EntryTypes
  <2>2. Track(k, HashOf[f]) /\ (Subscribe(HashOf[f]) \/ UNCHANGED relay)
    BY <1>1 DEF Upsert
  <2>3. /\ refCount' \in [Hashes -> Nat]
        /\ userFilters' \in [Holders -> SUBSET Hashes]
        /\ filterUsers' \in [Hashes -> SUBSET Holders]
        /\ recounted' \subseteq Hashes
        /\ userSubs' \subseteq Hashes
        /\ openSubs' \in [Hashes -> Int]
    BY <2>1, <2>2, TrackTypes
  <2> QED BY <1>1, <2>1, <2>3 DEF Upsert, TypeOK
<1>2. ASSUME NEW k \in Holders, NEW f \in Filters, UpsertRefused(k, f) PROVE TypeOK'
  BY <1>2, EntryTypes DEF UpsertRefused, TypeOK
<1>3. ASSUME NEW k \in Holders, NEW f \in Filters, Delete(k, f) PROVE TypeOK'
  <2>1. {HashOf[f]} \subseteq Hashes /\ Write("srem", k, f, FALSE) \in Tasks
    BY EntryTypes
  <2> QED BY <1>3, <2>1, UntrackTypes DEF Delete, TypeOK
<1>4. ASSUME NEW k \in Holders, NEW f \in Filters, Evict(k, f) PROVE TypeOK'
  BY <1>4, EntryTypes DEF Evict, TypeOK
<1>5. ASSUME NEW k \in Holders, NEW f \in Filters, RecoverOne(k, f) PROVE TypeOK'
  <2>1. HashOf[f] \in Hashes
    BY EntryTypes
  <2>2. Track(k, HashOf[f]) /\ (Subscribe(HashOf[f]) \/ UNCHANGED relay)
    BY <1>5 DEF RecoverOne
  <2>3. /\ refCount' \in [Hashes -> Nat]
        /\ userFilters' \in [Holders -> SUBSET Hashes]
        /\ filterUsers' \in [Hashes -> SUBSET Holders]
        /\ recounted' \subseteq Hashes
        /\ userSubs' \subseteq Hashes
        /\ openSubs' \in [Hashes -> Int]
    BY <2>1, <2>2, TrackTypes
  <2> QED BY <1>5, <2>3 DEF RecoverOne, TypeOK
<1>6. CASE AddMember
  <2>1. task \in Tasks /\ task.k \in Holders /\ task.f \in Filters
    BY <1>6 DEF AddMember, TypeOK, Tasks
  <2> QED BY <1>6, <2>1, EntryTypes DEF AddMember, TypeOK
<1>7. CASE SetData
  <2>1. task \in Tasks /\ task.k \in Holders /\ task.f \in Filters
    BY <1>7 DEF SetData, TypeOK, Tasks
  <2> QED BY <1>7, <2>1, EntryTypes DEF SetData, TypeOK
<1>8. CASE RemoveMember
  <2>1. /\ task \in Tasks
        /\ task.k \in Holders /\ task.f \in Filters /\ task.evict \in BOOLEAN
    BY <1>8 DEF RemoveMember, TypeOK, Tasks
  <2>2. task' \in Tasks \cup {NoTask}
    BY <1>8, <2>1, EntryTypes DEF RemoveMember, AfterRemoval
  <2> QED BY <1>8, <2>1, <2>2 DEF RemoveMember, TypeOK
<1>9. CASE RemoveData
  <2>1. /\ task \in Tasks
        /\ task.k \in Holders /\ task.f \in Filters /\ task.evict \in BOOLEAN
    BY <1>9 DEF RemoveData, TypeOK, Tasks
  <2>2. task' \in Tasks \cup {NoTask}
    BY <1>9, <2>1, EntryTypes DEF RemoveData, AfterRemoval
  <2> QED BY <1>9, <2>1, <2>2 DEF RemoveData, TypeOK
<1>10. CASE RedisError
  <2>1. /\ task \in Tasks
        /\ task.k \in Holders /\ task.f \in Filters /\ task.evict \in BOOLEAN
    BY <1>10 DEF RedisError, TypeOK, Tasks
  <2>2. task' \in Tasks \cup {NoTask}
    BY <1>10, <2>1, EntryTypes DEF RedisError, AfterRemoval
  <2> QED BY <1>10, <2>2 DEF RedisError, TypeOK
<1>11. CASE Forget
  <2>1. task.k \in Holders /\ task.f \in Filters
    BY <1>11 DEF Forget, TypeOK, Tasks
  <2>2. {HashOf[task.f]} \subseteq Hashes
    BY <2>1, EntryTypes
  <2> QED BY <1>11, <2>1, <2>2, UntrackTypes DEF Forget, TypeOK
<1>12. ASSUME NEW k \in Holders, Register(k) \/ LoseTokens(k) PROVE TypeOK'
  BY <1>12 DEF Register, LoseTokens, TypeOK
<1>13. ASSUME NEW k \in Holders, Deregister(k) PROVE TypeOK'
  <2>1. userFilters[k] \in SUBSET Hashes
    BY DEF TypeOK
  <2> QED BY <1>13, <2>1, UntrackTypes DEF Deregister, TypeOK
<1>14. CASE Start
  BY <1>14 DEF Start, Readable, TypeOK
<1>15. CASE RecoveryDone
  BY <1>15 DEF RecoveryDone, TypeOK
<1>16. CASE Crash
  BY <1>16 DEF Crash, EmptyMemory, TypeOK
<1>17. CASE UNCHANGED vars
  BY <1>17 DEF vars, TypeOK
<1> QED
  BY <1>1, <1>2, <1>3, <1>4, <1>5, <1>6, <1>7, <1>8, <1>9, <1>10, <1>11, <1>12,
     <1>13, <1>14, <1>15, <1>16, <1>17 DEF Next

(* The state of SubscriptionState is always of its types.                  *)
THEOREM TypeCorrect == Spec => []TypeOK
  BY TypeInit, TypeStep, PTL DEF Spec

-----------------------------------------------------------------------------
(* What the operators that write the memory do to the mirror and the       *)
(* ledger.                                                                 *)
LEMMA UntrackInvariant ==
  ASSUME TypeOK, IndexesMirror, RelayLedger,
         NEW k \in Holders, NEW gone \in SUBSET Hashes, Untrack(k, gone)
  PROVE  IndexesMirror' /\ RelayLedger'
<1>1. IndexesMirror'
  BY DEF TypeOK, IndexesMirror, Untrack
<1>2. RelayLedger'
  <2> SUFFICES ASSUME NEW h \in Hashes
               PROVE  /\ openSubs'[h] = IF h \in userSubs' THEN 1 ELSE 0
                      /\ h \in userSubs' => refCount'[h] > 0
    BY DEF RelayLedger
  <2>1. /\ openSubs[h] = IF h \in userSubs THEN 1 ELSE 0
        /\ h \in userSubs => refCount[h] > 0
        /\ refCount[h] \in Nat
    BY DEF RelayLedger, TypeOK
  <2>2. CASE h \in LastReference(gone)
    <3>1. h \notin userSubs'
      BY <2>2 DEF Untrack
    <3>2. openSubs'[h] = IF h \in userSubs THEN openSubs[h] - 1 ELSE openSubs[h]
      BY <2>2 DEF Untrack
    <3> QED BY <2>1, <3>1, <3>2
  <2>3. CASE h \notin LastReference(gone)
    <3>1. (h \in userSubs' <=> h \in userSubs) /\ openSubs'[h] = openSubs[h]
      BY <2>3 DEF Untrack
    <3>2. refCount[h] > 0 => refCount'[h] > 0
      BY <2>1, <2>3 DEF Untrack, LastReference
    <3> QED BY <2>1, <3>1, <3>2
  <2> QED BY <2>2, <2>3
<1> QED BY <1>1, <1>2

LEMMA TrackInvariant ==
  ASSUME TypeOK, IndexesMirror, RelayLedger,
         NEW k \in Holders, NEW h \in Hashes, Track(k, h),
         (IsNew(h) /\ Subscribe(h)) \/ UNCHANGED relay
  PROVE  IndexesMirror' /\ RelayLedger'
<1>1. IndexesMirror'
  BY DEF TypeOK, IndexesMirror, Track
<1>2. CASE IsNew(h) /\ Subscribe(h)
  <2>1. h \notin userSubs /\ openSubs[h] = 0 /\ refCount'[h] = 1
    BY <1>2 DEF IsNew, RelayLedger, TypeOK, Track
  <2>2. \A g \in Hashes : g # h => openSubs'[g] = openSubs[g] /\ refCount'[g] = refCount[g]
    BY <1>2 DEF Subscribe, Track, TypeOK
  <2>3. openSubs'[h] = 1 /\ userSubs' = userSubs \cup {h}
    BY <1>2, <2>1 DEF Subscribe, TypeOK
  <2> QED BY <1>1, <2>1, <2>2, <2>3 DEF RelayLedger
<1>3. CASE UNCHANGED relay
  <2>1. \A g \in Hashes : refCount[g] > 0 => refCount'[g] > 0
    BY DEF Track, TypeOK
  <2> QED BY <1>1, <1>3, <2>1 DEF relay, RelayLedger
<1> QED BY <1>2, <1>3

LEMMA LedgerStep ==
  TypeOK /\ IndexesMirror /\ RelayLedger /\ [Next]_vars => IndexesMirror' /\ RelayLedger'
<1> SUFFICES ASSUME TypeOK, IndexesMirror, RelayLedger, [Next]_vars
             PROVE  IndexesMirror' /\ RelayLedger'
  OBVIOUS
<1>1. ASSUME NEW k \in Holders, NEW f \in Filters, Upsert(k, f)
      PROVE  IndexesMirror' /\ RelayLedger'
  <2>1. HashOf[f] \in Hashes
    BY EntryTypes
  <2>2. /\ Track(k, HashOf[f])
        /\ (IsNew(HashOf[f]) /\ Subscribe(HashOf[f])) \/ UNCHANGED relay
    BY <1>1 DEF Upsert
  <2> QED BY <2>1, <2>2, TrackInvariant
<1>2. ASSUME NEW k \in Holders, NEW f \in Filters, UpsertRefused(k, f)
      PROVE  IndexesMirror' /\ RelayLedger'
  <2>1. HashOf[f] \in Hashes
    BY EntryTypes
  <2> QED BY <1>2, <2>1 DEF UpsertRefused, relay, TypeOK, IndexesMirror, RelayLedger
<1>3. ASSUME NEW k \in Holders, NEW f \in Filters, Delete(k, f)
      PROVE  IndexesMirror' /\ RelayLedger'
  <2>1. {HashOf[f]} \subseteq Hashes
    BY EntryTypes
  <2> QED BY <1>3, <2>1, UntrackInvariant DEF Delete
<1>4. ASSUME NEW k \in Holders, NEW f \in Filters, RecoverOne(k, f)
      PROVE  IndexesMirror' /\ RelayLedger'
  <2>1. HashOf[f] \in Hashes
    BY EntryTypes
  <2>2. /\ Track(k, HashOf[f])
        /\ (IsNew(HashOf[f]) /\ Subscribe(HashOf[f])) \/ UNCHANGED relay
    BY <1>4 DEF RecoverOne
  <2> QED BY <2>1, <2>2, TrackInvariant
<1>5. ASSUME Forget PROVE IndexesMirror' /\ RelayLedger'
  <2>1. task.k \in Holders /\ task.f \in Filters
    BY <1>5 DEF Forget, TypeOK, Tasks
  <2>2. {HashOf[task.f]} \subseteq Hashes
    BY <2>1, EntryTypes
  <2> QED BY <1>5, <2>1, <2>2, UntrackInvariant DEF Forget
<1>6. ASSUME NEW k \in Holders, Deregister(k) PROVE IndexesMirror' /\ RelayLedger'
  <2>1. userFilters[k] \in SUBSET Hashes
    BY DEF TypeOK
  <2> QED BY <1>6, <2>1, UntrackInvariant DEF Deregister
<1>7. ASSUME Crash PROVE IndexesMirror' /\ RelayLedger'
  BY <1>7 DEF Crash, EmptyMemory, IndexesMirror, RelayLedger
<1>8. ASSUME UNCHANGED memory PROVE IndexesMirror' /\ RelayLedger'
  BY <1>8 DEF memory, manager, relay, IndexesMirror, RelayLedger
<1>9. \/ \E k \in Holders, f \in Filters :
           Upsert(k, f) \/ UpsertRefused(k, f) \/ Delete(k, f) \/ RecoverOne(k, f)
      \/ Forget \/ Crash \/ \E k \in Holders : Deregister(k)
      \/ UNCHANGED memory
  BY DEF Next, vars, memory, manager, relay, Evict, AddMember, SetData, RemoveMember,
         RemoveData, RedisError, Register, LoseTokens, Start, RecoveryDone
<1> QED BY <1>1, <1>2, <1>3, <1>4, <1>5, <1>6, <1>7, <1>8, <1>9

LEMMA LedgerInit == Init => IndexesMirror /\ RelayLedger
  BY DEF Init, IndexesMirror, RelayLedger

(* The two indexes of the manager always mirror each other.                *)
THEOREM Mirror == Spec => []IndexesMirror
<1>1. Spec => [](TypeOK /\ IndexesMirror /\ RelayLedger)
  BY TypeInit, TypeStep, LedgerInit, LedgerStep, PTL DEF Spec
<1> QED BY <1>1, PTL

(* Whatever clients, the relay and restarts do, user_subscriptions and the *)
(* relay agree and no relay subscription outlives its last reference.      *)
THEOREM Ledger == Spec => []RelayLedger
<1>1. Spec => [](TypeOK /\ IndexesMirror /\ RelayLedger)
  BY TypeInit, TypeStep, LedgerInit, LedgerStep, PTL DEF Spec
<1> QED BY <1>1, PTL

-----------------------------------------------------------------------------
(* The leak.  Until a user is counted a second time for a hash, it has no  *)
(* more references than users.  Upserts, rollbacks, recovery and removals  *)
(* all keep it so; a count that returns to zero starts afresh.             *)
CountedOnce == \A h \in Hashes \ recounted : refCount[h] <= Cardinality(filterUsers[h])

LEMMA FiniteUsers ==
  ASSUME TypeOK, NEW h \in Hashes
  PROVE  IsFiniteSet(filterUsers[h]) /\ Cardinality(filterUsers[h]) \in Nat
<1>1. filterUsers[h] \in SUBSET Holders
  BY DEF TypeOK
<1>2. IsFiniteSet(filterUsers[h])
  BY <1>1, SubscriptionStateAssumption, FS_Subset
<1> QED BY <1>2, FS_CardinalityType

(* A new holder adds one to both sides of CountedOnce, a holder who is     *)
(* counted again takes his filter out of its range, ...                    *)
LEMMA TrackCounts ==
  ASSUME TypeOK, CountedOnce, NEW k \in Holders, NEW h \in Hashes, Track(k, h)
  PROVE  CountedOnce'
<1> SUFFICES ASSUME NEW g \in Hashes \ recounted'
             PROVE  refCount'[g] <= Cardinality(filterUsers'[g])
  BY DEF CountedOnce
<1>0. g \notin recounted /\ (g = h => k \notin filterUsers[h])
  BY DEF Track
<1>1. /\ refCount[g] \in Nat /\ refCount[g] <= Cardinality(filterUsers[g])
      /\ IsFiniteSet(filterUsers[g]) /\ Cardinality(filterUsers[g]) \in Nat
  BY <1>0, FiniteUsers DEF CountedOnce, TypeOK
<1>2. CASE g = h
  <2>1. refCount'[g] = refCount[g] + 1 /\ filterUsers'[g] = filterUsers[g] \cup {k}
    BY <1>2 DEF Track, TypeOK
  <2>2. Cardinality(filterUsers[g] \cup {k}) = Cardinality(filterUsers[g]) + 1
    BY <1>0, <1>1, <1>2, FS_AddElement
  <2> QED BY <1>1, <2>1, <2>2
<1>3. CASE g # h
  <2>1. refCount'[g] = refCount[g] /\ filterUsers'[g] = filterUsers[g]
    BY <1>3 DEF Track, TypeOK
  <2> QED BY <1>1, <2>1
<1> QED BY <1>2, <1>3

(* ... and a removal takes at most one from the right and, unless it is 0, *)
(* one from the left; with the last one the filter is back in its range.   *)
LEMMA UntrackCounts ==
  ASSUME TypeOK, CountedOnce,
         NEW k \in Holders, NEW gone \in SUBSET Hashes, Untrack(k, gone)
  PROVE  CountedOnce'
<1> SUFFICES ASSUME NEW g \in Hashes \ recounted'
             PROVE  refCount'[g] <= Cardinality(filterUsers'[g])
  BY DEF CountedOnce
<1>1. /\ refCount[g] \in Nat
      /\ IsFiniteSet(filterUsers[g]) /\ Cardinality(filterUsers[g]) \in Nat
  BY FiniteUsers DEF TypeOK
<1>2. CASE g \in gone /\ g \in recounted
  <2>1. refCount[g] = 1 /\ refCount'[g] = 0 /\ filterUsers'[g] = filterUsers[g] \ {k}
    BY <1>2 DEF Untrack, LastReference
  <2>2. Cardinality(filterUsers[g] \ {k}) \in Nat
    BY <1>1, FS_RemoveElement, FS_CardinalityType
  <2> QED BY <2>1, <2>2
<1>3. CASE g \in gone /\ g \notin recounted
  <2>1. /\ refCount'[g] = IF refCount[g] > 0 THEN refCount[g] - 1 ELSE 0
        /\ filterUsers'[g] = filterUsers[g] \ {k}
    BY <1>1, <1>3 DEF Untrack
  <2> DEFINE before == Cardinality(filterUsers[g])
             after  == Cardinality(filterUsers[g] \ {k})
  <2>2. IsFiniteSet(filterUsers[g] \ {k}) /\ (after = before \/ after = before - 1)
    BY <1>1, FS_RemoveElement
  <2>3. before \in Nat /\ after \in Nat /\ refCount[g] <= before
    BY <1>1, <1>3, <2>2, FS_CardinalityType DEF CountedOnce
  <2>4. refCount'[g] = IF refCount[g] > 0 THEN refCount[g] - 1 ELSE 0
    BY <2>1
  <2> HIDE DEF before, after
  <2>5. refCount'[g] <= after
    BY <1>1, <2>2, <2>3, <2>4
  <2> QED BY <2>1, <2>5 DEF after
<1>4. CASE g \notin gone
  <2>1. /\ refCount'[g] = refCount[g] /\ filterUsers'[g] = filterUsers[g]
        /\ g \notin recounted
    BY <1>4 DEF Untrack, LastReference
  <2> QED BY <2>1 DEF CountedOnce
<1> QED BY <1>2, <1>3, <1>4

LEMMA CountInit == Init => CountedOnce
  BY FS_EmptySet DEF Init, CountedOnce

LEMMA CountStep == TypeOK /\ CountedOnce /\ [Next]_vars => CountedOnce'
<1> SUFFICES ASSUME TypeOK, CountedOnce, [Next]_vars PROVE CountedOnce'
  OBVIOUS
<1>1. ASSUME NEW k \in Holders, NEW f \in Filters, Upsert(k, f) \/ RecoverOne(k, f)
      PROVE  CountedOnce'
  BY <1>1, EntryTypes, TrackCounts DEF Upsert, RecoverOne
<1>2. ASSUME NEW k \in Holders, NEW f \in Filters, UpsertRefused(k, f) PROVE CountedOnce'
  <2> DEFINE h == HashOf[f]
  <2>1. /\ h \in Hashes /\ refCount[h] = 0
        /\ UNCHANGED <<refCount, recounted>>
        /\ filterUsers' = [filterUsers EXCEPT ![h] = @ \ {k}]
    BY <1>2, EntryTypes DEF UpsertRefused, IsNew
  <2>2. refCount[h] <= Cardinality(filterUsers'[h])
    <3>1. filterUsers'[h] = filterUsers[h] \ {k}
      BY <2>1 DEF TypeOK
    <3>2. Cardinality(filterUsers[h] \ {k}) \in Nat
      BY <2>1, FiniteUsers, FS_RemoveElement, FS_CardinalityType
    <3> QED BY <2>1, <3>1, <3>2
  <2>3. \A g \in Hashes : g # h => filterUsers'[g] = filterUsers[g]
    BY <2>1 DEF TypeOK
  <2> QED BY <2>1, <2>2, <2>3 DEF CountedOnce
<1>3. ASSUME NEW k \in Holders, NEW f \in Filters, Delete(k, f) PROVE CountedOnce'
  <2>1. {HashOf[f]} \in SUBSET Hashes
    BY EntryTypes
  <2> QED BY <1>3, <2>1, UntrackCounts DEF Delete
<1>4. ASSUME Forget PROVE CountedOnce'
  <2>1. task.k \in Holders /\ task.f \in Filters
    BY <1>4 DEF Forget, TypeOK, Tasks
  <2>2. {HashOf[task.f]} \in SUBSET Hashes
    BY <2>1, EntryTypes
  <2> QED BY <1>4, <2>1, <2>2, UntrackCounts DEF Forget
<1>5. ASSUME NEW k \in Holders, Deregister(k) PROVE CountedOnce'
  <2>1. userFilters[k] \in SUBSET Hashes
    BY DEF TypeOK
  <2> QED BY <1>5, <2>1, UntrackCounts DEF Deregister
<1>6. ASSUME Crash PROVE CountedOnce'
  BY <1>6, FS_EmptySet DEF Crash, EmptyMemory, CountedOnce
<1>7. ASSUME UNCHANGED memory PROVE CountedOnce'
  BY <1>7 DEF memory, manager, CountedOnce
<1>8. \/ \E k \in Holders, f \in Filters :
           Upsert(k, f) \/ UpsertRefused(k, f) \/ Delete(k, f) \/ RecoverOne(k, f)
      \/ Forget \/ Crash \/ \E k \in Holders : Deregister(k)
      \/ UNCHANGED memory
  BY DEF Next, vars, memory, manager, relay, Evict, AddMember, SetData, RemoveMember,
         RemoveData, RedisError, Register, LoseTokens, Start, RecoveryDone
<1> QED BY <1>1, <1>2, <1>3, <1>4, <1>5, <1>6, <1>7, <1>8

LEMMA CountedOnceSuffices == TypeOK /\ RelayLedger /\ CountedOnce => OnlyRefreshLeaks
<1> SUFFICES ASSUME TypeOK, RelayLedger, CountedOnce,
                    NEW h \in Hashes \ recounted, filterUsers[h] = {}
             PROVE  refCount[h] = 0 /\ h \notin userSubs
  BY DEF OnlyRefreshLeaks
<1>1. refCount[h] \in Nat /\ refCount[h] <= 0
  BY FS_EmptySet DEF TypeOK, CountedOnce
<1> QED BY <1>1 DEF RelayLedger

(* A filter that outlives its users at the relay has counted one of them   *)
(* twice: refusals, failed writes, deletions of what is not held,          *)
(* evictions and restarts leave nothing behind, whatever clients do.       *)
THEOREM OnlyRefresh == Spec => []OnlyRefreshLeaks
<1>1. Spec => [](TypeOK /\ IndexesMirror /\ RelayLedger /\ CountedOnce)
  BY TypeInit, TypeStep, LedgerInit, LedgerStep, CountInit, CountStep, PTL DEF Spec
<1> QED BY <1>1, CountedOnceSuffices, PTL

-----------------------------------------------------------------------------
(* A filter in use.  A reference is counted for each user, and more if he  *)
(* repeats himself, so that the last one goes with the last user, as long  *)
(* as each removal takes the reference of a user who has one.              *)
NobodyUncounted == \A h \in Hashes : Cardinality(filterUsers[h]) <= refCount[h]

OnlyHeldRemoved ==
  /\ \A k \in Holders, f \in Filters : Delete(k, f) => k \in filterUsers[HashOf[f]]
  /\ Forget => task.k \in filterUsers[HashOf[task.f]]

RemoveOnlyHeld == [][OnlyHeldRemoved]_vars

LEMMA TrackKeepsCounted ==
  ASSUME TypeOK, NobodyUncounted, NEW k \in Holders, NEW h \in Hashes, Track(k, h)
  PROVE  NobodyUncounted'
<1> SUFFICES ASSUME NEW g \in Hashes PROVE Cardinality(filterUsers'[g]) <= refCount'[g]
  BY DEF NobodyUncounted
<1>1. /\ refCount[g] \in Nat /\ Cardinality(filterUsers[g]) <= refCount[g]
      /\ IsFiniteSet(filterUsers[g]) /\ Cardinality(filterUsers[g]) \in Nat
  BY FiniteUsers DEF NobodyUncounted, TypeOK
<1>2. CASE g = h
  <2> DEFINE before == Cardinality(filterUsers[g])
             after  == Cardinality(filterUsers[g] \cup {k})
  <2>1. refCount'[g] = refCount[g] + 1 /\ filterUsers'[g] = filterUsers[g] \cup {k}
    BY <1>2 DEF Track, TypeOK
  <2>2. after = before \/ after = before + 1
    BY <1>1, FS_AddElement
  <2>3. before \in Nat /\ before <= refCount[g]
    BY <1>1
  <2> HIDE DEF before, after
  <2>4. after <= refCount[g] + 1
    BY <1>1, <2>2, <2>3
  <2> QED BY <2>1, <2>4 DEF after
<1>3. CASE g # h
  <2>1. refCount'[g] = refCount[g] /\ filterUsers'[g] = filterUsers[g]
    BY <1>3 DEF Track, TypeOK
  <2> QED BY <1>1, <2>1
<1> QED BY <1>2, <1>3

(* What a removal of held filters does: one user and one reference less,   *)
(* and no one left where the relay subscription is given up.               *)
LEMMA UntrackHeld ==
  ASSUME TypeOK, NobodyUncounted, NEW k \in Holders, NEW gone \in SUBSET Hashes,
         \A h \in gone : k \in filterUsers[h], Untrack(k, gone)
  PROVE  /\ NobodyUncounted'
         /\ \A h \in userSubs \ userSubs' : filterUsers'[h] = {}
<1>1. ASSUME NEW h \in gone
      PROVE  /\ refCount[h] \in Nat /\ Cardinality(filterUsers[h]) <= refCount[h]
             /\ IsFiniteSet(filterUsers[h]) /\ Cardinality(filterUsers[h]) \in Nat
             /\ IsFiniteSet(filterUsers[h] \ {k})
             /\ Cardinality(filterUsers[h] \ {k}) = Cardinality(filterUsers[h]) - 1
             /\ Cardinality(filterUsers[h] \ {k}) \in Nat
  <2>1. /\ refCount[h] \in Nat /\ Cardinality(filterUsers[h]) <= refCount[h]
        /\ IsFiniteSet(filterUsers[h]) /\ Cardinality(filterUsers[h]) \in Nat
    BY FiniteUsers DEF NobodyUncounted, TypeOK
  <2>2. /\ IsFiniteSet(filterUsers[h] \ {k})
        /\ Cardinality(filterUsers[h] \ {k}) = Cardinality(filterUsers[h]) - 1
    BY <2>1, FS_RemoveElement
  <2> QED BY <2>1, <2>2, FS_CardinalityType
<1>2. NobodyUncounted'
  <2> SUFFICES ASSUME NEW g \in Hashes PROVE Cardinality(filterUsers'[g]) <= refCount'[g]
    BY DEF NobodyUncounted
  <2>1. CASE g \in gone
    <3>1. /\ refCount'[g] = IF refCount[g] > 0 THEN refCount[g] - 1 ELSE refCount[g]
          /\ filterUsers'[g] = filterUsers[g] \ {k}
      BY <2>1 DEF Untrack
    <3> QED BY <1>1, <2>1, <3>1
  <2>2. CASE g \notin gone
    <3>1. refCount'[g] = refCount[g] /\ filterUsers'[g] = filterUsers[g]
      BY <2>2 DEF Untrack
    <3> QED BY <3>1 DEF NobodyUncounted
  <2> QED BY <2>1, <2>2
<1>3. ASSUME NEW h \in userSubs \ userSubs' PROVE filterUsers'[h] = {}
  <2>1. h \in gone /\ h \in Hashes /\ refCount[h] = 1
    BY <1>3 DEF Untrack, LastReference
  <2>2. Cardinality(filterUsers[h] \ {k}) = 0
    BY <1>1, <2>1
  <2>3. filterUsers[h] \ {k} = {}
    BY <1>1, <2>1, <2>2, FS_EmptySet
  <2> QED BY <2>1, <2>3 DEF Untrack
<1> QED BY <1>2, <1>3

StaysOpen == \A h \in userSubs \ userSubs' : phase' = "down" \/ filterUsers'[h] = {}

LEMMA HeldStep ==
  ASSUME TypeOK, IndexesMirror, NobodyUncounted, [Next]_vars, [OnlyHeldRemoved]_vars
  PROVE  NobodyUncounted' /\ StaysOpen
<1>1. ASSUME NEW k \in Holders, NEW f \in Filters, Upsert(k, f) \/ RecoverOne(k, f)
      PROVE  NobodyUncounted' /\ StaysOpen
  <2>1. HashOf[f] \in Hashes /\ Track(k, HashOf[f])
    BY <1>1, EntryTypes DEF Upsert, RecoverOne
  <2>2. userSubs \subseteq userSubs'
    BY <1>1 DEF Upsert, RecoverOne, Subscribe, relay
  <2> QED BY <2>1, <2>2, TrackKeepsCounted DEF StaysOpen
<1>2. ASSUME NEW k \in Holders, NEW f \in Filters, UpsertRefused(k, f)
      PROVE  NobodyUncounted' /\ StaysOpen
  <2>1. refCount[HashOf[f]] = 0 /\ HashOf[f] \in Hashes
    BY <1>2, EntryTypes DEF UpsertRefused, IsNew
  <2>2. filterUsers[HashOf[f]] = {}
    <3>1. Cardinality(filterUsers[HashOf[f]]) = 0
      BY <2>1, FiniteUsers DEF NobodyUncounted
    <3> QED BY <2>1, <3>1, FiniteUsers, FS_EmptySet
  <2>3. filterUsers' = filterUsers
    BY <1>2, <2>1, <2>2 DEF UpsertRefused, TypeOK
  <2> QED BY <1>2, <2>3 DEF UpsertRefused, relay, NobodyUncounted, StaysOpen
<1>3. ASSUME NEW k \in Holders, NEW f \in Filters, Delete(k, f), k \in filterUsers[HashOf[f]]
      PROVE  NobodyUncounted' /\ StaysOpen
  <2>1. {HashOf[f]} \in SUBSET Hashes /\ \A h \in {HashOf[f]} : k \in filterUsers[h]
    BY <1>3, EntryTypes
  <2> QED BY <1>3, <2>1, UntrackHeld DEF Delete, StaysOpen
<1>4. ASSUME Forget, task.k \in filterUsers[HashOf[task.f]]
      PROVE  NobodyUncounted' /\ StaysOpen
  <2>1. task.k \in Holders /\ task.f \in Filters
    BY <1>4 DEF Forget, TypeOK, Tasks
  <2>2. {HashOf[task.f]} \in SUBSET Hashes /\ \A h \in {HashOf[task.f]} : task.k \in filterUsers[h]
    BY <1>4, <2>1, EntryTypes
  <2> QED BY <1>4, <2>1, <2>2, UntrackHeld DEF Forget, StaysOpen
<1>5. ASSUME NEW k \in Holders, Deregister(k) PROVE NobodyUncounted' /\ StaysOpen
  <2>1. userFilters[k] \in SUBSET Hashes /\ \A h \in userFilters[k] : k \in filterUsers[h]
    BY DEF TypeOK, IndexesMirror
  <2> QED BY <1>5, <2>1, UntrackHeld DEF Deregister, StaysOpen
<1>6. ASSUME Crash PROVE NobodyUncounted' /\ StaysOpen
  BY <1>6, FS_EmptySet DEF Crash, EmptyMemory, NobodyUncounted, StaysOpen
<1>7. ASSUME UNCHANGED memory PROVE NobodyUncounted' /\ StaysOpen
  BY <1>7 DEF memory, manager, relay, NobodyUncounted, StaysOpen
<1>8. CASE UNCHANGED vars
  BY <1>7, <1>8 DEF vars, memory, manager, relay
<1>9. CASE Next /\ OnlyHeldRemoved
  <2>1. \/ \E k \in Holders, f \in Filters :
              Upsert(k, f) \/ UpsertRefused(k, f) \/ Delete(k, f) \/ RecoverOne(k, f)
        \/ Forget \/ Crash \/ \E k \in Holders : Deregister(k)
        \/ UNCHANGED memory
    BY <1>9 DEF Next, memory, manager, relay, Evict, AddMember, SetData, RemoveMember,
           RemoveData, RedisError, Register, LoseTokens, Start, RecoveryDone
  <2> QED BY <1>1, <1>2, <1>3, <1>4, <1>5, <1>6, <1>7, <1>9, <2>1 DEF OnlyHeldRemoved
<1> QED BY <1>8, <1>9

(* A relay subscription is given up only when no one else needs its filter *)
(* if no removal concerns a holder who has the filter no more: clients may *)
(* repeat themselves, filters may share a hash, and the relay, Redis and   *)
(* the process may fail.  In the code the lazy cleanup after a             *)
(* deregistration is what breaks it.                                       *)
THEOREM UsedWhileHeld == Spec /\ RemoveOnlyHeld => UsedFilterStaysOpen
<1>1. Init => NobodyUncounted
  BY FS_EmptySet DEF Init, NobodyUncounted
<1>2. TypeOK /\ IndexesMirror /\ NobodyUncounted /\ [Next]_vars /\ [OnlyHeldRemoved]_vars
      => NobodyUncounted'
  BY HeldStep
<1>3. TypeOK /\ IndexesMirror /\ NobodyUncounted /\ [Next]_vars /\ [OnlyHeldRemoved]_vars
      => [\A h \in userSubs \ userSubs' : phase' = "down" \/ filterUsers'[h] = {}]_vars
  BY HeldStep DEF StaysOpen
<1> QED BY <1>1, <1>2, <1>3, TypeCorrect, Mirror, PTL
        DEF Spec, RemoveOnlyHeld, UsedFilterStaysOpen

-----------------------------------------------------------------------------
(* The recovery.  What it has loaded is what it read, less what is to do.  *)
Loaded == Readable \ todo

FiltersOf(entries, k) == {HashOf[e[2]] : e \in {x \in entries : x[1] = k}}
WithHash(entries, h) == {e \in entries : HashOf[e[2]] = h}

RecoveryInv ==
  /\ phase # "running" => task = NoTask
  /\ phase = "down" =>
       /\ \A k \in Holders : userFilters[k] = {}
       /\ \A h \in Hashes : refCount[h] = 0
       /\ userSubs = {}
  /\ phase = "recovering" =>
       /\ todo \subseteq Readable
       /\ \A k \in Holders : userFilters[k] = FiltersOf(Loaded, k)
       /\ \A h \in Hashes : refCount[h] = Cardinality(WithHash(Loaded, h))
       /\ userSubs \subseteq {HashOf[e[2]] : e \in Readable}

LEMMA FiniteEntries ==
  ASSUME NEW E \in SUBSET Entries, NEW h PROVE IsFiniteSet(WithHash(E, h))
<1>1. IsFiniteSet(Entries)
  BY SubscriptionStateAssumption, FS_Product DEF Entries
<1>2. WithHash(E, h) \in SUBSET Entries
  BY DEF WithHash
<1> QED BY <1>1, <1>2, FS_Subset

(* One more entry is one more filter of its holder, and one more reference. *)
LEMMA LoadOne ==
  ASSUME TypeOK, NEW k \in Holders, NEW f \in Filters, Track(k, HashOf[f]),
         NEW E \in SUBSET Entries, <<k, f>> \notin E,
         \A j \in Holders : userFilters[j] = FiltersOf(E, j),
         \A h \in Hashes : refCount[h] = Cardinality(WithHash(E, h))
  PROVE  /\ \A j \in Holders : userFilters'[j] = FiltersOf(E \cup {<<k, f>>}, j)
         /\ \A h \in Hashes : refCount'[h] = Cardinality(WithHash(E \cup {<<k, f>>}, h))
<1>1. HashOf[f] \in Hashes
  BY EntryTypes
<1>2. ASSUME NEW j \in Holders PROVE userFilters'[j] = FiltersOf(E \cup {<<k, f>>}, j)
  <2>1. userFilters'[j] = IF j = k THEN userFilters[j] \cup {HashOf[f]} ELSE userFilters[j]
    BY DEF Track, TypeOK
  <2>2. FiltersOf(E \cup {<<k, f>>}, j) =
          IF j = k THEN FiltersOf(E, j) \cup {HashOf[f]} ELSE FiltersOf(E, j)
    BY DEF FiltersOf
  <2> QED BY <2>1, <2>2
<1>3. ASSUME NEW h \in Hashes PROVE refCount'[h] = Cardinality(WithHash(E \cup {<<k, f>>}, h))
  <2>1. refCount'[h] = IF h = HashOf[f] THEN refCount[h] + 1 ELSE refCount[h]
    BY <1>1 DEF Track, TypeOK
  <2>2. CASE h = HashOf[f]
    <3>1. /\ WithHash(E \cup {<<k, f>>}, h) = WithHash(E, h) \cup {<<k, f>>}
          /\ <<k, f>> \notin WithHash(E, h)
      BY <2>2 DEF WithHash
    <3>2. IsFiniteSet(WithHash(E, h))
      BY FiniteEntries
    <3>3. Cardinality(WithHash(E, h) \cup {<<k, f>>}) = Cardinality(WithHash(E, h)) + 1
      BY <3>1, <3>2, FS_AddElement
    <3> QED BY <2>1, <2>2, <3>1, <3>3
  <2>3. CASE h # HashOf[f]
    <3>1. WithHash(E \cup {<<k, f>>}, h) = WithHash(E, h)
      BY <2>3 DEF WithHash
    <3> QED BY <2>1, <2>3, <3>1
  <2> QED BY <2>2, <2>3
<1> QED BY <1>2, <1>3

LEMMA RecoveryInit == Init => RecoveryInv
  BY DEF Init, RecoveryInv

LEMMA RecoveryStep == TypeOK /\ RecoveryInv /\ [Next]_vars => RecoveryInv'
<1> SUFFICES ASSUME TypeOK, RecoveryInv, [Next]_vars PROVE RecoveryInv'
  OBVIOUS
<1>1. ASSUME NEW k \in Holders, NEW f \in Filters, RecoverOne(k, f) PROVE RecoveryInv'
  <2>1. /\ phase = "recovering" /\ phase' = "recovering" /\ task' = task
        /\ <<k, f>> \in todo /\ todo' = todo \ {<<k, f>>} /\ Track(k, HashOf[f])
        /\ userSubs' \subseteq userSubs \cup {HashOf[f]} /\ Readable' = Readable
    BY <1>1 DEF RecoverOne, Subscribe, relay, redis, Readable
  <2>2. <<k, f>> \in Readable /\ Loaded' = Loaded \cup {<<k, f>>} /\ <<k, f>> \notin Loaded
    BY <2>1 DEF RecoveryInv, Loaded
  <2>3. Loaded \in SUBSET Entries
    BY DEF Loaded, Readable
  <2>4. /\ \A j \in Holders : userFilters'[j] = FiltersOf(Loaded', j)
        /\ \A h \in Hashes : refCount'[h] = Cardinality(WithHash(Loaded', h))
    BY <2>1, <2>2, <2>3, LoadOne DEF RecoveryInv
  <2>5. userSubs' \subseteq {HashOf[e[2]] : e \in Readable}
    <3>1. <<k, f>>[2] = f
      OBVIOUS
    <3> QED BY <2>1, <2>2, <3>1 DEF RecoveryInv
  <2>6. todo' \subseteq Readable'
    BY <2>1 DEF RecoveryInv
  <2> QED BY <2>1, <2>2, <2>4, <2>5, <2>6 DEF RecoveryInv, FiltersOf, WithHash
<1>2. ASSUME Start PROVE RecoveryInv'
  <2>1. /\ phase' = "recovering" /\ todo' = Readable /\ Readable' = Readable /\ task' = task
        /\ phase = "down" /\ UNCHANGED <<refCount, userFilters, userSubs>>
    BY <1>2 DEF Start, redis, memory, manager, relay, Readable
  <2>2. Loaded' = {} /\ Cardinality({}) = 0
    BY <2>1, FS_EmptySet DEF Loaded
  <2>3. \A j, h : FiltersOf(Loaded', j) = {} /\ WithHash(Loaded', h) = {}
    BY <2>2 DEF FiltersOf, WithHash
  <2> QED BY <2>1, <2>2, <2>3 DEF RecoveryInv, FiltersOf, WithHash
<1>3. ASSUME Crash PROVE RecoveryInv'
  BY <1>3 DEF Crash, EmptyMemory, RecoveryInv
<1>4. ASSUME RecoveryDone PROVE RecoveryInv'
  BY <1>4 DEF RecoveryDone, RecoveryInv
<1>5. ASSUME UNCHANGED vars PROVE RecoveryInv'
  BY <1>5 DEF vars, RecoveryInv, Loaded, Readable, FiltersOf, WithHash
<1>6. ASSUME phase = "running", phase' = "running" PROVE RecoveryInv'
  BY <1>6 DEF RecoveryInv
<1>7. ASSUME \/ \E k \in Holders, f \in Filters :
                  Upsert(k, f) \/ UpsertRefused(k, f) \/ Delete(k, f) \/ Evict(k, f)
             \/ \E k \in Holders : Register(k) \/ LoseTokens(k) \/ Deregister(k)
      PROVE  RecoveryInv'
  BY <1>6, <1>7 DEF Upsert, UpsertRefused, Delete, Evict, Register, LoseTokens, Deregister, Idle
<1>8. ASSUME AddMember \/ SetData \/ RemoveMember \/ RemoveData \/ RedisError \/ Forget
      PROVE  RecoveryInv'
  <2>1. phase' = phase /\ task # NoTask /\ phase \in {"down", "recovering", "running"}
    BY <1>8 DEF AddMember, SetData, RemoveMember, RemoveData, RedisError, Forget, TypeOK
  <2> QED BY <1>6, <2>1 DEF RecoveryInv
<1> QED BY <1>1, <1>2, <1>3, <1>4, <1>5, <1>7, <1>8 DEF Next

(* Whatever the clients did before the restart, the recovery counts every  *)
(* readable subscription of Redis once and opens no filter nobody holds.   *)
THEOREM Recovery == Spec => RecoveryExact
<1>1. TypeOK /\ RecoveryInv /\ [Next]_vars =>
        [RecoveryDone =>
           /\ \A k \in Holders : userFilters[k] = {HashOf[e[2]] : e \in {x \in Readable : x[1] = k}}
           /\ \A h \in Hashes : refCount[h] = Cardinality({e \in Readable : HashOf[e[2]] = h})
           /\ userSubs \subseteq {HashOf[e[2]] : e \in Readable}]_vars
  <2> SUFFICES ASSUME TypeOK, RecoveryInv, RecoveryDone
               PROVE  /\ \A k \in Holders : userFilters[k] = FiltersOf(Readable, k)
                      /\ \A h \in Hashes : refCount[h] = Cardinality(WithHash(Readable, h))
                      /\ userSubs \subseteq {HashOf[e[2]] : e \in Readable}
    BY DEF FiltersOf, WithHash
  <2>1. phase = "recovering" /\ Loaded = Readable
    BY DEF RecoveryDone, Loaded
  <2> QED BY <2>1 DEF RecoveryInv
<1> QED BY TypeInit, TypeStep, RecoveryInit, RecoveryStep, <1>1, PTL DEF Spec, RecoveryExact
=============================================================================
