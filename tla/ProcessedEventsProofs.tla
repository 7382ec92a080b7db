------------------------ MODULE ProcessedEventsProofs ------------------------
(* Theorems about ProcessedEvents: whatever the horizon, the time to live  *)
(* and the number of workers, a marked event passes a later check only     *)
(* when its mark may have expired and its date is still within the horizon.*)
EXTENDS ProcessedEvents, TLAPS

LEMMA TypeInit == Init => TypeOK
  BY DEF Init, TypeOK, Jobs

LEMMA TypeStep == TypeOK /\ [Next]_vars => TypeOK'
<1> SUFFICES ASSUME TypeOK, [Next]_vars PROVE TypeOK'
  OBVIOUS
<1> USE ProcessedEventsAssumption
<1>1. ASSUME NEW e \in Events, NEW at \in 0 .. MaxTime, Publish(e, at) PROVE TypeOK'
  BY <1>1 DEF Publish, TypeOK
<1>2. ASSUME NEW w \in Workers, NEW e \in Events, Receive(w, e) PROVE TypeOK'
  BY <1>2 DEF Receive, Does, TypeOK, Jobs
<1>3. ASSUME NEW w \in Workers, Check(w) \/ Handle(w) \/ Mark(w) \/ GiveUp(w) PROVE TypeOK'
  <2>1. work[w].event \in Events
    BY <1>3 DEF Check, Handle, Mark, GiveUp, TypeOK, Jobs, Idle
  <2>2. CASE Check(w)
    BY <2>1, <2>2 DEF Check, Does, Rests, TypeOK, Jobs
  <2>3. CASE Handle(w)
    BY <2>1, <2>3 DEF Handle, Does, TypeOK, Jobs
  <2>4. CASE Mark(w)
    BY <2>1, <2>4 DEF Mark, Processed, Rests, TypeOK, Jobs
  <2>5. CASE GiveUp(w)
    BY <2>5 DEF GiveUp, Rests, TypeOK, Jobs
  <2> QED BY <1>3, <2>2, <2>3, <2>4, <2>5
<1>4. CASE Tick
  BY <1>4 DEF Tick, TypeOK
<1>5. CASE UNCHANGED vars
  BY <1>5 DEF vars, TypeOK
<1> QED BY <1>1, <1>2, <1>3, <1>4, <1>5 DEF Next

(* The state of ProcessedEvents is always of its types.                    *)
THEOREM TypeCorrect == Spec => []TypeOK
  BY TypeInit, TypeStep, PTL DEF Spec

-----------------------------------------------------------------------------
(* A mark lasts: the event is in a set that lives for the time to live, or *)
(* that time is over; ...                                                  *)
MarkLasts ==
  \A e \in Events : markedAt[e] # Never =>
    /\ markedAt[e] <= now
    /\ \/ now >= markedAt[e] + Ttl
       \/ e \in members /\ expiresAt >= markedAt[e] + Ttl

(* ... the query about an event ends soon after the horizon let it in.     *)
CheckedInTime ==
  \A w \in Workers :
    /\ work[w].op # "idle" => createdAt[work[w].event] # Unpublished
    /\ work[w].op = "checking" =>
         now <= work[w].since + Delay /\ work[w].since <= createdAt[work[w].event] + Horizon

LEMMA ReplayInit == Init => MarkLasts /\ CheckedInTime
  BY DEF Init, MarkLasts, CheckedInTime, Idle

LEMMA MarkLastsStep == TypeOK /\ MarkLasts /\ [Next]_vars => MarkLasts'
<1> SUFFICES ASSUME TypeOK, MarkLasts, [Next]_vars PROVE MarkLasts'
  OBVIOUS
<1> USE ProcessedEventsAssumption
<1>1. ASSUME NEW w \in Workers, Mark(w) PROVE MarkLasts'
  <2> DEFINE m == work[w].event
  <2>1. /\ m \in Events
        /\ members' = Processed \cup {m} /\ expiresAt' = now + Ttl /\ now' = now
        /\ markedAt' = [markedAt EXCEPT ![m] = now]
    BY <1>1 DEF Mark, TypeOK, Jobs, Idle
  <2> HIDE DEF m
  <2> SUFFICES ASSUME NEW e \in Events, markedAt'[e] # Never
               PROVE  /\ markedAt'[e] <= now
                      /\ \/ now >= markedAt'[e] + Ttl
                         \/ e \in members' /\ expiresAt' >= markedAt'[e] + Ttl
    BY <2>1 DEF MarkLasts
  <2>2. now \in Nat /\ expiresAt \in Nat
    BY DEF TypeOK
  <2>3. CASE e = m
    BY <2>1, <2>2, <2>3 DEF TypeOK
  <2>4. CASE e # m
    <3>1. markedAt'[e] = markedAt[e] /\ markedAt[e] # Never
      BY <2>1, <2>4 DEF TypeOK
    <3>2. markedAt[e] \in Nat /\ markedAt[e] <= now
      BY <3>1 DEF TypeOK, MarkLasts
    <3>3. now >= markedAt[e] + Ttl \/ e \in Processed
      BY <2>2, <3>1, <3>2 DEF MarkLasts, Processed
    <3> QED BY <2>1, <2>2, <3>1, <3>2, <3>3
  <2> QED BY <2>3, <2>4
<1>2. ASSUME UNCHANGED <<members, expiresAt, markedAt>>, now' \in {now, now + 1}
      PROVE  MarkLasts'
  BY <1>2 DEF MarkLasts, TypeOK
<1>3. CASE \E e \in Events, at \in 0 .. MaxTime : Publish(e, at)
  BY <1>2, <1>3 DEF Publish
<1>4. CASE \E w \in Workers : (\E e \in Events : Receive(w, e)) \/ Check(w) \/ Handle(w) \/ GiveUp(w)
  BY <1>2, <1>4 DEF Receive, Check, Handle, GiveUp
<1>5. CASE Tick
  BY <1>2, <1>5 DEF Tick
<1>6. CASE UNCHANGED vars
  BY <1>2, <1>6 DEF vars
<1> QED BY <1>1, <1>3, <1>4, <1>5, <1>6 DEF Next

LEMMA CheckedInTimeStep == TypeOK /\ CheckedInTime /\ [Next]_vars => CheckedInTime'
<1> SUFFICES ASSUME TypeOK, CheckedInTime, [Next]_vars PROVE CheckedInTime'
  OBVIOUS
<1> USE ProcessedEventsAssumption
<1>1. ASSUME NEW e \in Events, NEW at \in 0 .. MaxTime, Publish(e, at) PROVE CheckedInTime'
  <2>1. /\ \A d \in Events : d # e => createdAt'[d] = createdAt[d]
        /\ createdAt[e] = Unpublished /\ UNCHANGED <<now, work>>
    BY <1>1 DEF Publish, TypeOK
  <2>2. \A w \in Workers : work[w].op # "idle" => work[w].event \in Events \ {e}
    BY <2>1 DEF TypeOK, Jobs, Idle, CheckedInTime
  <2> QED BY <2>1, <2>2 DEF CheckedInTime
<1>2. ASSUME NEW w \in Workers, NEW e \in Events, Receive(w, e) PROVE CheckedInTime'
  <2>1. /\ work' = [work EXCEPT ![w] = [op |-> "checking", event |-> e, since |-> now]]
        /\ createdAt[e] # Unpublished /\ ~(createdAt[e] < now - Horizon)
        /\ UNCHANGED <<now, createdAt>>
    BY <1>2 DEF Receive, Does, TooOld
  <2>2. createdAt[e] \in Nat /\ now \in Nat /\ now <= createdAt[e] + Horizon
    BY <2>1 DEF TypeOK
  <2> QED BY <2>1, <2>2 DEF CheckedInTime, TypeOK
<1>3. ASSUME NEW w \in Workers, Check(w) \/ Handle(w) \/ Mark(w) \/ GiveUp(w)
      PROVE  CheckedInTime'
  <2>1. /\ work[w].op # "idle" /\ UNCHANGED <<now, createdAt>>
        /\ \/ work' = [work EXCEPT ![w] = Idle]
           \/ \E op \in {"routing", "marking"} :
                work' = [work EXCEPT ![w] =
                           [op |-> op, event |-> work[w].event, since |-> now]]
    BY <1>3 DEF Check, Handle, Mark, GiveUp, Does, Rests
  <2> QED BY <2>1 DEF CheckedInTime, TypeOK, Idle
<1>4. CASE Tick
  <2>1. /\ now' = now + 1 /\ now \in Nat /\ UNCHANGED <<createdAt, work>>
        /\ \A w \in Workers : work[w].op = "checking" => now < work[w].since + Delay
    BY <1>4 DEF Tick, TypeOK
  <2>2. \A w \in Workers : work[w].op = "checking" =>
          work[w].since \in Nat /\ now + 1 <= work[w].since + Delay
    BY <2>1 DEF TypeOK, Jobs, Idle
  <2> QED BY <2>1, <2>2 DEF CheckedInTime
<1>5. CASE UNCHANGED vars
  BY <1>5 DEF vars, CheckedInTime
<1> QED BY <1>1, <1>2, <1>3, <1>4, <1>5 DEF Next

(* A check that lets a marked event pass found the set without it.         *)
LEMMA PassedLate ==
  ASSUME TypeOK, MarkLasts, CheckedInTime, [Next]_vars, NEW w \in Workers,
         NEW e \in Events, work[w].event = e,
         work[w].op = "checking", work'[w].op = "routing", markedAt[e] # Never
  PROVE  now >= markedAt[e] + Ttl /\ createdAt[e] + Horizon + Delay >= now
<1> USE ProcessedEventsAssumption
<1>1. e \notin Processed
  <2>1. work' # work /\ work[w].op = "checking"
    OBVIOUS
  <2>2. \E v \in Workers : \/ \E d \in Events : Receive(v, d)
                          \/ Check(v) \/ Handle(v) \/ Mark(v) \/ GiveUp(v)
    BY <2>1 DEF Next, vars, Publish, Tick
  <2>3. PICK v \in Workers : \/ \E d \in Events : Receive(v, d)
                           \/ Check(v) \/ Handle(v) \/ Mark(v) \/ GiveUp(v)
    BY <2>2
  <2>4. v = w
    BY <2>3 DEF Receive, Check, Handle, Mark, GiveUp, Does, Rests, TypeOK
  <2>5. Check(w)
    BY <2>3, <2>4 DEF Receive, Handle, Mark, GiveUp, Rests, TypeOK, Idle
  <2> QED BY <2>5 DEF Check, Rests, TypeOK, Idle
<1>2. /\ now \in Nat /\ expiresAt \in Nat /\ markedAt[e] \in Nat
      /\ createdAt[e] \in Nat /\ work[w].since \in Nat
  BY DEF TypeOK, CheckedInTime, Jobs, Idle
<1>3. now >= markedAt[e] + Ttl
  BY <1>1, <1>2 DEF MarkLasts, Processed
<1>4. now <= work[w].since + Delay /\ work[w].since <= createdAt[e] + Horizon
  BY DEF CheckedInTime
<1> QED BY <1>2, <1>3, <1>4

(* For any horizon, any time to live and any number of workers: an event   *)
(* is let in again only a time to live after its last mark, and only while *)
(* the horizon, but for the query's delay, still admits its date.          *)
THEOREM RepeatedOnlyLate == Spec => RepeatedOnlyIfDatedLate
<1>1. TypeOK /\ MarkLasts /\ CheckedInTime /\ [Next]_vars =>
        [\A w \in Workers : LET e == work[w].event IN
           work[w].op = "checking" /\ work'[w].op = "routing" /\ markedAt[e] # Never =>
             /\ now >= markedAt[e] + Ttl
             /\ createdAt[e] + Horizon + Delay >= now]_vars
  <2> SUFFICES ASSUME TypeOK, MarkLasts, CheckedInTime, [Next]_vars, NEW w \in Workers,
                      work[w].op = "checking", work'[w].op = "routing",
                      markedAt[work[w].event] # Never
               PROVE  /\ now >= markedAt[work[w].event] + Ttl
                      /\ createdAt[work[w].event] + Horizon + Delay >= now
    OBVIOUS
  <2>1. work[w].event \in Events
    BY DEF TypeOK, Jobs, Idle
  <2> QED BY <2>1, PassedLate
<1> QED BY TypeInit, TypeStep, ReplayInit, MarkLastsStep, CheckedInTimeStep, <1>1, PTL
        DEF Spec, RepeatedOnlyIfDatedLate
=============================================================================
