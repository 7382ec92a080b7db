--------------------------- MODULE ProcessedEvents ---------------------------
(***************************************************************************)
(* The protection against handling an event twice: the replay horizon of   *)
(* event_handler.rs and the processed_nostr_events set of redis_store.rs,  *)
(* whose one time to live every mark renews.  An event may be delivered    *)
(* any number of times: by the historical query of a restart, by the live  *)
(* subscription, to both replicas of a rolling update.                     *)
(***************************************************************************)
EXTENDS Integers

CONSTANTS
  Events,
  NoEvent,
  Workers,   \* processes running the event loop
  Horizon,   \* REPLAY_HORIZON_DAYS
  Ttl,       \* processed_event_ttl_secs
  Delay,     \* how long the query of the processed set may take
  MaxTime    \* bound on the clock

ASSUME ProcessedEventsAssumption ==
  /\ NoEvent \notin Events
  /\ Horizon \in Nat /\ Ttl \in Nat /\ Delay \in Nat /\ MaxTime \in Nat

VARIABLES
  now,
  createdAt,  \* of each event, Unpublished before it exists
  members,    \* the processed set, as last written
  expiresAt,  \* when Redis drops the set
  work,       \* what each worker does, with which event, since when
  markedAt    \* history: when each event was last marked, Never before

vars == <<now, createdAt, members, expiresAt, work, markedAt>>

Unpublished == -1
Never == -1
Idle == [op |-> "idle", event |-> NoEvent, since |-> 0]
Jobs == [op : {"checking", "routing", "marking"}, event : Events, since : Nat] \cup {Idle}

TypeOK ==
  /\ now \in Nat
  /\ createdAt \in [Events -> Nat \cup {Unpublished}]
  /\ members \subseteq Events
  /\ expiresAt \in Nat
  /\ work \in [Workers -> Jobs]
  /\ markedAt \in [Events -> Nat \cup {Never}]

Init ==
  /\ now = 0
  /\ createdAt = [e \in Events |-> Unpublished]
  /\ members = {} /\ expiresAt = 0
  /\ work = [w \in Workers |-> Idle]
  /\ markedAt = [e \in Events |-> Never]

-----------------------------------------------------------------------------
(* A client dates its event as it likes, any time ahead included           *)
(* (replay_horizon_test.rs:51).                                            *)
Publish(e, at) ==
  /\ createdAt[e] = Unpublished
  /\ createdAt' = [createdAt EXCEPT ![e] = at]
  /\ UNCHANGED <<now, members, expiresAt, work, markedAt>>

(* Mutation: no horizon.                                                   *)
NeverTooOld(e) == createdAt[e] < 0

(* is_event_too_old keeps an event that is exactly at the horizon.         *)
TooOld(e) == createdAt[e] < now - Horizon

Does(w, op, e) == work' = [work EXCEPT ![w] = [op |-> op, event |-> e, since |-> now]]
(* Mutation: a worker that rests keeps its event.                          *)
RestsHolding(w) == work' = [work EXCEPT ![w] = [@ EXCEPT !.op = "idle"]]
Rests(w) == work' = [work EXCEPT ![w] = Idle]

Receive(w, e) ==
  /\ work[w].op = "idle"
  /\ createdAt[e] # Unpublished
  /\ ~TooOld(e)
  /\ Does(w, "checking", e)
  /\ UNCHANGED <<now, createdAt, members, expiresAt, markedAt>>

(* SISMEMBER, on a set that has not expired.                               *)
Processed == IF now < expiresAt THEN members ELSE {}

Check(w) ==
  /\ work[w].op = "checking"
  /\ IF work[w].event \in Processed THEN Rests(w) ELSE Does(w, "routing", work[w].event)
  /\ UNCHANGED <<now, createdAt, members, expiresAt, markedAt>>

Handle(w) ==
  /\ work[w].op = "routing"
  /\ Does(w, "marking", work[w].event)
  /\ UNCHANGED <<now, createdAt, members, expiresAt, markedAt>>

(* SADD and EXPIRE in one transaction.                                     *)
Mark(w) ==
  /\ work[w].op = "marking"
  /\ members' = Processed \cup {work[w].event}
  /\ expiresAt' = now + Ttl
  /\ markedAt' = [markedAt EXCEPT ![work[w].event] = now]
  /\ Rests(w)
  /\ UNCHANGED <<now, createdAt>>

(* A Redis error, a handler that fails, a cancellation or a crash.         *)
GiveUp(w) ==
  /\ work[w].op # "idle"
  /\ Rests(w)
  /\ UNCHANGED <<now, createdAt, members, expiresAt, markedAt>>

Tick ==
  /\ now < MaxTime
  /\ \A w \in Workers : work[w].op = "checking" => now < work[w].since + Delay
  /\ now' = now + 1
  /\ UNCHANGED <<createdAt, members, expiresAt, work, markedAt>>

Next ==
  \/ \E e \in Events, at \in 0 .. MaxTime : Publish(e, at)
  \/ \E w \in Workers : \/ \E e \in Events : Receive(w, e)
                        \/ Check(w) \/ Handle(w) \/ Mark(w) \/ GiveUp(w)
  \/ Tick

Spec == Init /\ [][Next]_vars

-----------------------------------------------------------------------------
(* nip-xx-push-notifications.md:143, as far as the code keeps it: an event *)
(* that was marked, by any worker, passes a later check only once the set  *)
(* may have expired, and only if it is dated so late that the horizon      *)
(* still lets it in.  With equal Horizon and Ttl, as configured, it is     *)
(* dated no earlier than the query's delay before its last mark.           *)
RepeatedOnlyIfDatedLate ==
  [][\A w \in Workers : LET e == work[w].event IN
       work[w].op = "checking" /\ work'[w].op = "routing" /\ markedAt[e] # Never =>
         /\ now >= markedAt[e] + Ttl
         /\ createdAt[e] + Horizon + Delay >= now]_vars
=============================================================================
