------------------------- MODULE EventPipelineProofs -------------------------
(* Theorems about EventPipeline, for channels of any capacity and any      *)
(* events: its types, that the token never gets an event marked that its   *)
(* handler did not finish, what the look-back catches, and how far every   *)
(* task is from its end after the token.                                   *)
EXTENDS EventPipeline, FiniteSetTheorems, TLAPS

(* The handler at work has an event in hand.                               *)
CurrentKnown ==
  handler \in {"checking", "routing", "routed", "marking"} => current \in Events

(* An event on its way to the processed set is complete, except while the  *)
(* token has already been cancelled and the mark will not begin.           *)
MarkPending ==
  /\ handler = "marking" => current \in complete
  /\ handler = "routed" /\ ~cancelled => current \in complete

LEMMA EmptyChannel ==
  <<>> \in Seq(Events) /\ Len(<<>>) = 0 /\ 0 <= ChanCap /\ 0 <= QueueCap
<1>1. <<>> \in Seq(Events) /\ Len(<<>>) = 0
  OBVIOUS
<1> QED BY <1>1, EventPipelineAssumption

LEMMA TypeInit == Init => TypeOK
  BY EmptyChannel DEF Init, TypeOK

LEMMA TypeStep == TypeOK /\ CurrentKnown /\ [Next]_vars => TypeOK'
<1> SUFFICES ASSUME TypeOK, CurrentKnown, [Next]_vars PROVE TypeOK'
  OBVIOUS
<1> USE EventPipelineAssumption DEF relayVars, receiverVars, listenerVars, handlerVars, lifeVars
<1>1. ASSUME NEW e \in Events, Publish(e) PROVE TypeOK'
  BY <1>1 DEF Publish, TypeOK
<1>2. ASSUME NEW e \in Events, Deliver(e) PROVE TypeOK'
  <2>1. CASE listener # "live"
    BY <1>2, <2>1 DEF Deliver, Notify, TypeOK
  <2>2. CASE listener = "live" /\ Len(queue) < QueueCap
    <3>1. queue' = Append(queue, e) /\ lagged' = lagged
      BY <1>2, <2>2 DEF Deliver, Notify
    <3>2. queue' \in Seq(Events) /\ Len(queue') <= QueueCap
      BY <2>2, <3>1 DEF TypeOK
    <3> QED BY <1>2, <3>1, <3>2 DEF Deliver, TypeOK
  <2>3. CASE listener = "live" /\ ~(Len(queue) < QueueCap)
    <3>1. queue' = Append(Tail(queue), e) /\ lagged' = TRUE
      BY <1>2, <2>3 DEF Deliver, Notify
    <3>2. queue \in Seq(Events) /\ Len(queue) = QueueCap /\ queue # <<>>
      BY <2>3 DEF TypeOK
    <3>3. Tail(queue) \in Seq(Events) /\ Len(Tail(queue)) = QueueCap - 1
      BY <3>2
    <3>4. queue' \in Seq(Events) /\ Len(queue') <= QueueCap
      BY <3>1, <3>3
    <3> QED BY <1>2, <3>1, <3>4 DEF Deliver, TypeOK
  <2> QED BY <2>1, <2>2, <2>3
<1>3. CASE Listen
  <2>1. CASE ListenerFails \/ FetchNothing \/ Attach \/ Lag \/ StopListening
    BY <2>1 DEF ListenerFails, FetchNothing, Attach, Lag, StopListening, Goto, TypeOK
  <2>7. CASE Recover \/ SubscribeLive
    <3>1. open' \subseteq Events
      BY <2>7 DEF Recover, SubscribeLive, TypeOK, Events
    <3>2. subscribed' \in BOOLEAN
      BY <2>7 DEF Recover, SubscribeLive, TypeOK
    <3> QED BY <2>7, <3>1, <3>2 DEF Recover, SubscribeLive, Goto, TypeOK
  <2>2. CASE Fetch
    BY <2>2 DEF Fetch, Goto, TypeOK
  <2>3. ASSUME NEW e \in Control, SendHistorical(e) PROVE TypeOK'
    <3>1. chan' \in Seq(Events) /\ Len(chan') <= ChanCap
      BY <2>3 DEF SendHistorical, TypeOK, Events
    <3> QED BY <2>3, <3>1 DEF SendHistorical, TypeOK
  <2>4. CASE EndReplay
    BY <2>4 DEF EndReplay, Goto, TypeOK
  <2>5. CASE Take
    <3>1. /\ queue' \in Seq(Events) /\ Len(queue') <= QueueCap
          /\ hand' \in Events /\ heard' \subseteq Events
      BY <2>5 DEF Take, TypeOK
    <3> QED BY <2>5, <3>1 DEF Take, TypeOK
  <2>6. CASE SendLive
    <3>1. chan' \in Seq(Events) /\ Len(chan') <= ChanCap
      BY <2>6 DEF SendLive, TypeOK
    <3> QED BY <2>6, <3>1 DEF SendLive, TypeOK
  <2> QED BY <1>3, <2>1, <2>2, <2>3, <2>4, <2>5, <2>6, <2>7 DEF Listen
<1>4. CASE Work
  <2>1. CASE Receive
    <3>1. chan' \in Seq(Events) /\ Len(chan') <= ChanCap /\ Head(chan) \in Events
      BY <2>1 DEF Receive, TypeOK
    <3> QED BY <2>1, <3>1 DEF Receive, HandlerAt, TypeOK
  <2>2. CASE Check \/ Discard \/ BeginMark \/ MarkFails \/ StopHandling
    BY <2>2 DEF Check, Discard, BeginMark, MarkFails, StopHandling, AfterEvent, HandlerAt, TypeOK
  <2>3. CASE Route \/ RouteCutShort \/ RouteFails \/ Mark
    <3>1. current \in Events
      BY <2>3 DEF Route, RouteCutShort, RouteFails, Mark, CurrentKnown
    <3>2. open' \subseteq Events
      BY <2>3 DEF Route, RouteCutShort, RouteFails, Mark, Resubscribe, TypeOK, Events
    <3> QED BY <2>3, <3>1, <3>2
            DEF Route, RouteCutShort, RouteFails, Mark, AfterEvent, HandlerAt, TypeOK
  <2> QED BY <1>4, <2>1, <2>2, <2>3 DEF Work
<1>5. ASSUME NEW task \in OtherTasks, OtherStops(task) PROVE TypeOK'
  BY <1>5 DEF OtherStops, TypeOK
<1>6. CASE Cancel
  BY <1>6 DEF Cancel, TypeOK
<1>7. CASE Exit \/ Crash
  <2>1. Ends
    BY <1>7 DEF Exit, Crash
  <2>2. /\ queue' \in Seq(Events) /\ Len(queue') <= QueueCap
        /\ chan' \in Seq(Events) /\ Len(chan') <= ChanCap
    BY <2>1, EmptyChannel DEF Ends
  <2> QED BY <2>1, <2>2 DEF Ends, TypeOK
<1>8. CASE Boot
  BY <1>8 DEF Boot, TypeOK
<1>9. CASE UNCHANGED vars
  BY <1>9 DEF vars, TypeOK
<1> QED BY <1>1, <1>2, <1>3, <1>4, <1>5, <1>6, <1>7, <1>8, <1>9 DEF Next

(* No step outside the handler touches what it works on, except Cancel and *)
(* the end and the start of the process.                                   *)
LEMMA OutsideHandler ==
  ASSUME (\E e \in Events : Publish(e) \/ Deliver(e)) \/ Listen
         \/ (\E task \in OtherTasks : OtherStops(task)) \/ UNCHANGED vars
  PROVE  UNCHANGED <<handler, current, processed, complete, cancelled>>
<1>1. ASSUME NEW e \in Events, Publish(e) \/ Deliver(e)
      PROVE  UNCHANGED <<handler, current, processed, complete, cancelled>>
  BY <1>1 DEF Publish, Deliver, handlerVars, lifeVars
<1>2. CASE Listen
  BY <1>2 DEF Listen, ListenerFails, Recover, Fetch, FetchNothing, SendHistorical, EndReplay,
              SubscribeLive, Attach, Take, SendLive, Lag, StopListening, handlerVars, lifeVars
<1>3. ASSUME NEW task \in OtherTasks, OtherStops(task)
      PROVE  UNCHANGED <<handler, current, processed, complete, cancelled>>
  BY <1>3 DEF OtherStops, handlerVars
<1>4. CASE UNCHANGED vars
  BY <1>4 DEF vars
<1> QED BY <1>1, <1>2, <1>3, <1>4

LEMMA KnownStep == TypeOK /\ CurrentKnown /\ [Next]_vars => CurrentKnown'
<1> SUFFICES ASSUME TypeOK, CurrentKnown, [Next]_vars PROVE CurrentKnown'
  OBVIOUS
<1>1. CASE Receive
  <2>1. Head(chan) \in Events
    BY <1>1 DEF Receive, TypeOK
  <2> QED BY <1>1, <2>1 DEF Receive, HandlerAt, CurrentKnown
<1>2. CASE Check \/ Discard \/ Route \/ RouteCutShort \/ RouteFails \/ BeginMark \/ Mark
           \/ MarkFails \/ StopHandling
  BY <1>2 DEF Check, Discard, Route, RouteCutShort, RouteFails, BeginMark, Mark, MarkFails,
              StopHandling, AfterEvent, HandlerAt, CurrentKnown
<1>3. CASE Cancel
  BY <1>3 DEF Cancel, handlerVars, CurrentKnown
<1>4. CASE Exit \/ Crash \/ Boot
  BY <1>4 DEF Exit, Crash, Boot, Ends, CurrentKnown
<1>5. CASE UNCHANGED <<handler, current, processed, complete, cancelled>>
  BY <1>5 DEF CurrentKnown
<1> QED BY <1>1, <1>2, <1>3, <1>4, <1>5, OutsideHandler DEF Next, Work

LEMMA MarkStep ==
  MarkPending /\ MarkedIsComplete /\ [Next]_vars => MarkPending' /\ MarkedIsComplete'
<1> SUFFICES ASSUME MarkPending, MarkedIsComplete, [Next]_vars
             PROVE  MarkPending' /\ MarkedIsComplete'
  OBVIOUS
<1> USE DEF MarkPending, MarkedIsComplete
<1>1. CASE Receive \/ Check \/ Discard \/ RouteFails \/ MarkFails \/ StopHandling
  BY <1>1 DEF Receive, Check, Discard, RouteFails, MarkFails, StopHandling, AfterEvent,
              HandlerAt, lifeVars
<1>2. CASE Route
  BY <1>2 DEF Route, HandlerAt
<1>3. CASE RouteCutShort
  BY <1>3 DEF RouteCutShort, HandlerAt, lifeVars
<1>4. CASE BeginMark
  BY <1>4 DEF BeginMark, HandlerAt, lifeVars
<1>5. CASE Mark
  BY <1>5 DEF Mark, AfterEvent, HandlerAt
<1>6. CASE Cancel
  BY <1>6 DEF Cancel, handlerVars
<1>7. CASE Exit \/ Crash
  BY <1>7 DEF Exit, Crash, Ends
<1>8. CASE Boot
  BY <1>8 DEF Boot
<1>9. CASE UNCHANGED <<handler, current, processed, complete, cancelled>>
  BY <1>9
<1> QED BY <1>1, <1>2, <1>3, <1>4, <1>5, <1>6, <1>7, <1>8, <1>9, OutsideHandler DEF Next, Work

LEMMA MarkInit == Init => CurrentKnown /\ MarkPending /\ MarkedIsComplete
  BY DEF Init, CurrentKnown, MarkPending, MarkedIsComplete

(* The state of EventPipeline is always of its types, and its channels     *)
(* within their capacities.                                                *)
THEOREM TypeCorrect == Spec => []TypeOK
<1>1. Spec => [](TypeOK /\ CurrentKnown)
  BY TypeInit, TypeStep, MarkInit, KnownStep, PTL DEF Spec
<1> QED BY <1>1, PTL

(* An event is in the processed set only if some handler finished it: a    *)
(* cancellation at any moment leaves an unfinished event to the next start.*)
THEOREM MarkedComplete == Spec => []MarkedIsComplete
<1>1. Spec => [](MarkPending /\ MarkedIsComplete)
  BY MarkInit, MarkStep, PTL DEF Spec
<1> QED BY <1>1, PTL

-----------------------------------------------------------------------------
(* What the live subscription looks back for.  The subscriptions of users, *)
(* then the live one, are opened before process_live_events gets its       *)
(* receiver.                                                               *)
Early == listener \in {"off", "recovering", "fetching", "replaying", "subscribing", "attaching"}

(* The relay sends no direct message before the receiver is there.         *)
NoneSentEarly == [][Early => \A e \in Direct : ~Deliver(e)]_vars

(* Then the client has had none by then.                                   *)
NoneSeenEarly == Early => seen \cap Direct = {}

LEMMA InSeqAppend ==
  ASSUME NEW q \in Seq(Events), NEW e \in Events
  PROVE  InSeq(Append(q, e)) = InSeq(q) \cup {e}
<1>1. /\ Len(q) \in Nat /\ DOMAIN q = 1..Len(q)
      /\ DOMAIN Append(q, e) = 1..(Len(q) + 1) /\ Append(q, e)[Len(q) + 1] = e
      /\ \A i \in 1..Len(q) : Append(q, e)[i] = q[i]
  OBVIOUS
<1>2. \A i \in 1..(Len(q) + 1) : i \in 1..Len(q) \/ i = Len(q) + 1
  BY <1>1
<1>3. 1..Len(q) \subseteq 1..(Len(q) + 1) /\ Len(q) + 1 \in 1..(Len(q) + 1)
  BY <1>1
<1> QED BY <1>1, <1>2, <1>3, Zenon DEF InSeq

LEMMA InSeqTail ==
  ASSUME NEW q \in Seq(Events), q # <<>>
  PROVE  InSeq(q) = {Head(q)} \cup InSeq(Tail(q))
<1>1. /\ Len(q) \in Nat \ {0} /\ DOMAIN q = 1..Len(q) /\ DOMAIN Tail(q) = 1..(Len(q) - 1)
      /\ Head(q) = q[1] /\ \A i \in 1..(Len(q) - 1) : Tail(q)[i] = q[i + 1]
  OBVIOUS
<1>2. ASSUME NEW i \in 1..Len(q) PROVE q[i] \in {Head(q)} \cup InSeq(Tail(q))
  <2>1. CASE i = 1
    BY <1>1, <2>1
  <2>2. CASE i # 1
    <3>1. PICK j \in 1..(Len(q) - 1) : j + 1 = i
      BY <1>1, <2>2
    <3> QED BY <1>1, <3>1 DEF InSeq
  <2> QED BY <2>1, <2>2
<1>3. ASSUME NEW j \in 1..(Len(q) - 1) PROVE Tail(q)[j] \in InSeq(q)
  <2>1. j + 1 \in 1..Len(q) /\ Tail(q)[j] = q[j + 1]
    BY <1>1
  <2> QED BY <1>1, <2>1 DEF InSeq
<1>4. Head(q) \in InSeq(q)
  <2>1. 1 \in 1..Len(q)
    BY <1>1
  <2> QED BY <1>1, <2>1 DEF InSeq
<1>5. \A x \in InSeq(q) : x \in {Head(q)} \cup InSeq(Tail(q))
  BY <1>1, <1>2 DEF InSeq
<1>6. \A x \in InSeq(Tail(q)) : x \in InSeq(q)
  BY <1>1, <1>3 DEF InSeq
<1> QED BY <1>4, <1>5, <1>6

LEMMA SeenStep ==
  ASSUME TypeOK, NoneSeenEarly, [Next]_vars, Early => \A e \in Direct : ~Deliver(e)
  PROVE  NoneSeenEarly'
<1> USE EventPipelineAssumption
    DEF NoneSeenEarly, Early, relayVars, receiverVars, listenerVars, handlerVars, lifeVars
<1>1. ASSUME NEW e \in Events, Publish(e) PROVE NoneSeenEarly'
  BY <1>1 DEF Publish
<1>2. ASSUME NEW e \in Events, Deliver(e) PROVE NoneSeenEarly'
  BY <1>2 DEF Deliver, Events
<1>3. CASE Listen
  <2>1. CASE ListenerFails \/ FetchNothing \/ EndReplay \/ Take \/ SendLive \/ Lag \/ StopListening
    BY <2>1 DEF ListenerFails, FetchNothing, EndReplay, Take, SendLive, Lag, StopListening, Goto
  <2>2. CASE Recover
    BY <2>2 DEF Recover, Goto
  <2>3. CASE Fetch
    BY <2>3 DEF Fetch, Goto
  <2>4. ASSUME NEW e \in Control, SendHistorical(e) PROVE NoneSeenEarly'
    BY <2>4 DEF SendHistorical
  <2>5. CASE SubscribeLive \/ Attach
    BY <2>5 DEF SubscribeLive, Attach, Goto
  <2> QED BY <1>3, <2>1, <2>2, <2>3, <2>4, <2>5 DEF Listen
<1>4. CASE Work
  BY <1>4 DEF Work, Receive, Check, Discard, Route, RouteCutShort, RouteFails, BeginMark, Mark,
              MarkFails, StopHandling, AfterEvent, HandlerAt
<1>5. ASSUME NEW task \in OtherTasks, OtherStops(task) PROVE NoneSeenEarly'
  BY <1>5 DEF OtherStops
<1>6. CASE Cancel
  BY <1>6 DEF Cancel
<1>7. CASE Exit \/ Crash
  BY <1>7 DEF Exit, Crash, Ends
<1>8. CASE Boot
  BY <1>8 DEF Boot
<1>9. CASE UNCHANGED vars
  BY <1>9 DEF vars
<1> QED BY <1>1, <1>2, <1>3, <1>4, <1>5, <1>6, <1>7, <1>8, <1>9 DEF Next

LEMMA CaughtStep ==
  ASSUME TypeOK, NoneSeenEarly, LookbackCaught, [Next]_vars
  PROVE  LookbackCaught'
<1> USE DEF LookbackCaught, relayVars, receiverVars, listenerVars, handlerVars, lifeVars
<1>1. ASSUME NEW e \in Events, Publish(e) PROVE LookbackCaught'
  BY <1>1 DEF Publish
<1>2. ASSUME NEW e \in Events, Deliver(e) PROVE LookbackCaught'
  <2>1. CASE listener = "live" /\ Len(queue) < QueueCap
    <3>1. queue' = Append(queue, e) /\ UNCHANGED <<listener, lagged, heard>>
          /\ seen' = seen \cup {e}
      BY <1>2, <2>1 DEF Deliver, Notify
    <3>2. InSeq(queue') = InSeq(queue) \cup {e}
      BY <3>1, InSeqAppend DEF TypeOK
    <3> QED BY <3>1, <3>2
  <2>2. CASE listener = "live" /\ ~(Len(queue) < QueueCap)
    BY <1>2, <2>2 DEF Deliver, Notify
  <2>3. CASE listener # "live"
    BY <1>2, <2>3 DEF Deliver
  <2> QED BY <2>1, <2>2, <2>3
<1>3. CASE Listen
  <2>1. CASE ListenerFails \/ Recover \/ Fetch \/ FetchNothing \/ EndReplay \/ SubscribeLive
             \/ Lag \/ StopListening
    BY <2>1 DEF ListenerFails, Recover, Fetch, FetchNothing, EndReplay, SubscribeLive, Lag,
                StopListening, Goto
  <2>2. ASSUME NEW e \in Control, SendHistorical(e) PROVE LookbackCaught'
    BY <2>2 DEF SendHistorical
  <2>3. CASE Attach
    BY <2>3 DEF Attach, Goto, NoneSeenEarly, Early
  <2>4. CASE Take
    <3>1. /\ InSeq(queue) = {Head(queue)} \cup InSeq(queue')
          /\ heard' = heard \cup {Head(queue)}
      BY <2>4, InSeqTail DEF Take, TypeOK
    <3> QED BY <2>4, <3>1 DEF Take
  <2>5. CASE SendLive
    BY <2>5 DEF SendLive
  <2> QED BY <1>3, <2>1, <2>2, <2>3, <2>4, <2>5 DEF Listen
<1>4. CASE Work
  BY <1>4 DEF Work, Receive, Check, Discard, Route, RouteCutShort, RouteFails, BeginMark, Mark,
              MarkFails, StopHandling, AfterEvent, HandlerAt
<1>5. ASSUME NEW task \in OtherTasks, OtherStops(task) PROVE LookbackCaught'
  BY <1>5 DEF OtherStops
<1>6. CASE Cancel
  BY <1>6 DEF Cancel
<1>7. CASE Exit \/ Crash
  BY <1>7 DEF Exit, Crash, Ends
<1>8. CASE Boot
  BY <1>8 DEF Boot
<1>9. CASE UNCHANGED vars
  BY <1>9 DEF vars
<1> QED BY <1>1, <1>2, <1>3, <1>4, <1>5, <1>6, <1>7, <1>8, <1>9 DEF Next

(* Once process_live_events has its receiver, no direct message is lost    *)
(* but to an overflow: the ones LookbackCaught misses are those the relay  *)
(* sent before, on a recovered subscription or in answer to the live one.  *)
THEOREM CaughtOnceReceiving == Spec /\ NoneSentEarly => []LookbackCaught
<1>1. Init => NoneSeenEarly /\ LookbackCaught
  BY DEF Init, NoneSeenEarly, Early, LookbackCaught
<1>2. /\ TypeOK /\ NoneSeenEarly /\ LookbackCaught /\ [Next]_vars
      /\ [Early => \A e \in Direct : ~Deliver(e)]_vars
      => NoneSeenEarly' /\ LookbackCaught'
  <2> SUFFICES ASSUME TypeOK, NoneSeenEarly, LookbackCaught, [Next]_vars,
                      [Early => \A e \in Direct : ~Deliver(e)]_vars
               PROVE  NoneSeenEarly' /\ LookbackCaught'
    OBVIOUS
  <2>1. CASE UNCHANGED vars
    BY <2>1 DEF vars, NoneSeenEarly, Early, LookbackCaught
  <2>2. CASE Early => \A e \in Direct : ~Deliver(e)
    BY <2>2, SeenStep, CaughtStep
  <2> QED BY <2>1, <2>2
<1> QED BY <1>1, <1>2, TypeCorrect, PTL DEF Spec, NoneSentEarly
-----------------------------------------------------------------------------
(* The shutdown.                                                           *)
LEMMA LeftAt ==
  /\ ListenerLeft["recovering"] = 6 /\ ListenerLeft["fetching"] = 5
  /\ ListenerLeft["replaying"] = 4 /\ ListenerLeft["subscribing"] = 3
  /\ ListenerLeft["attaching"] = 2 /\ ListenerLeft["live"] = 1
  /\ ListenerLeft["stopped"] = 0 /\ ListenerLeft["off"] = 0
  /\ HandlerLeft["routing"] = 2 /\ HandlerLeft["checking"] = 2
  /\ HandlerLeft["routed"] = 1 /\ HandlerLeft["marking"] = 1 /\ HandlerLeft["idle"] = 1
  /\ HandlerLeft["stopped"] = 0 /\ HandlerLeft["off"] = 0
BY DEF ListenerLeft, HandlerLeft

LEMMA LeftIsNatural ==
  ASSUME NEW l \in {"off", "recovering", "fetching", "replaying", "subscribing",
                    "attaching", "live", "stopped"},
         NEW h \in {"off", "idle", "checking", "routing", "routed", "marking", "stopped"},
         NEW o \in SUBSET OtherTasks
  PROVE  /\ ListenerLeft[l] \in Nat /\ HandlerLeft[h] \in Nat
         /\ IsFiniteSet(o) /\ Cardinality(o) \in Nat
<1>1. IsFiniteSet(OtherTasks)
  <2>1. IsFiniteSet({"cleanup"}) /\ OtherTasks = {"cleanup"} \cup {"server"}
    BY FS_Singleton DEF OtherTasks
  <2> QED BY <2>1, FS_AddElement
<1>2. IsFiniteSet(o) /\ Cardinality(o) \in Nat
  BY <1>1, FS_Subset, FS_CardinalityType
<1>3. ListenerLeft[l] \in Nat /\ HandlerLeft[h] \in Nat
  BY LeftAt
<1> QED BY <1>2, <1>3

(* The token has the listener wait for nothing but what fails in time.     *)
LEMMA ListenerAdvances ==
  ASSUME TypeOK, cancelled, Listen
  PROVE  /\ ListenerLeft[listener'] < ListenerLeft[listener]
         /\ UNCHANGED <<handler, others>>
<1>1. ~Fetch /\ ~Take /\ ~SendLive /\ \A e \in Control : ~SendHistorical(e)
  BY DEF Fetch, Take, SendLive, SendHistorical
<1>2. \/ listener \in {"recovering", "subscribing"} /\ listener' = "stopped"
      \/ listener = "recovering" /\ listener' = "fetching"
      \/ listener \in {"fetching", "replaying"} /\ listener' = "subscribing"
      \/ listener = "subscribing" /\ listener' = "attaching"
      \/ listener = "attaching" /\ listener' = "live"
      \/ listener = "live" /\ listener' = "stopped"
  BY <1>1 DEF Listen, Goto, ListenerFails, Recover, FetchNothing, EndReplay, SubscribeLive,
              Attach, Lag, StopListening
<1>3. UNCHANGED <<handler, others>>
  BY <1>1 DEF Listen, ListenerFails, Recover, FetchNothing, EndReplay, SubscribeLive,
              Attach, Lag, StopListening, handlerVars, lifeVars
<1>4. ListenerLeft[listener'] < ListenerLeft[listener]
  BY <1>2, LeftAt
<1> QED BY <1>3, <1>4

(* The handler finishes the event in hand, or drops it, and takes no other.*)
LEMMA HandlerAdvances ==
  ASSUME TypeOK, cancelled, Work
  PROVE  /\ HandlerLeft[handler'] < HandlerLeft[handler]
         /\ UNCHANGED <<listener, others>>
<1>1. ~Receive /\ ~Check
  BY DEF Receive, Check
<1>2. \/ handler = "checking" /\ handler' = "idle"
      \/ handler \in {"idle", "checking", "routing", "routed", "marking"} /\ handler' = "stopped"
      \/ handler = "routing" /\ handler' = "routed"
  BY <1>1 DEF Work, HandlerAt, AfterEvent, Discard, StopHandling, Route, RouteCutShort,
              RouteFails, BeginMark, Mark, MarkFails
<1>3. UNCHANGED <<listener, others>>
  BY <1>1 DEF Work, HandlerAt, AfterEvent, Discard, StopHandling, Route, RouteCutShort,
              RouteFails, BeginMark, Mark, MarkFails, listenerVars, lifeVars
<1>4. HandlerLeft[handler'] < HandlerLeft[handler]
  BY <1>2, LeftAt
<1> QED BY <1>3, <1>4

LEMMA OthersAdvance ==
  ASSUME TypeOK, NEW task \in OtherTasks, OtherStops(task)
  PROVE  /\ Cardinality(others') < Cardinality(others)
         /\ UNCHANGED <<listener, handler>>
<1>1. IsFiniteSet(others)
  BY LeftIsNatural DEF TypeOK
<1>2. others' = others \ {task} /\ task \in others
  BY DEF OtherStops
<1>3. Cardinality(others') = Cardinality(others) - 1
  BY <1>1, <1>2, FS_RemoveElement
<1>4. Cardinality(others) \in Nat
  BY <1>1, FS_CardinalityType
<1> QED BY <1>3, <1>4 DEF OtherStops, listenerVars, handlerVars

(* Only a running process is told to end.                                  *)
CancelledRuns == cancelled => listener # "off"

LEMMA CancelledStep == TypeOK /\ CancelledRuns /\ [Next]_vars => CancelledRuns'
<1> SUFFICES ASSUME TypeOK, CancelledRuns, [Next]_vars PROVE CancelledRuns'
  OBVIOUS
<1> USE DEF CancelledRuns
<1>1. CASE Listen
  BY <1>1 DEF Listen, Goto, ListenerFails, Recover, Fetch, FetchNothing, SendHistorical,
              EndReplay, SubscribeLive, Attach, Take, SendLive, Lag, StopListening, lifeVars
<1>2. CASE Work
  BY <1>2 DEF Work, HandlerAt, Receive, Check, Discard, Route, RouteCutShort, RouteFails,
              BeginMark, Mark, MarkFails, StopHandling, AfterEvent, listenerVars, lifeVars
<1>3. CASE (\E e \in Events : Publish(e) \/ Deliver(e)) \/ \E task \in OtherTasks : OtherStops(task)
  BY <1>3 DEF Publish, Deliver, OtherStops, listenerVars, lifeVars
<1>4. CASE Cancel \/ Exit \/ Crash \/ Boot
  BY <1>4 DEF Cancel, Exit, Crash, Ends, Boot, listenerVars
<1>5. CASE UNCHANGED vars
  BY <1>5 DEF vars
<1> QED BY <1>1, <1>2, <1>3, <1>4, <1>5 DEF Next

(* A step that is not of a task leaves the tasks alone.                    *)
LEMMA ShutdownStep ==
  ASSUME TypeOK, TypeOK', CancelledRuns, [Next]_vars, cancelled, cancelled'
  PROVE  StepsLeft' < StepsLeft \/ UNCHANGED <<listenerVars, handlerVars, chan, others>>
<1>1. /\ ListenerLeft[listener] \in Nat /\ HandlerLeft[handler] \in Nat
      /\ Cardinality(others) \in Nat
  BY LeftIsNatural DEF TypeOK
<1>2. /\ ListenerLeft[listener'] \in Nat /\ HandlerLeft[handler'] \in Nat
      /\ Cardinality(others') \in Nat
  BY LeftIsNatural DEF TypeOK
<1>3. StepsLeft' = ListenerLeft[listener'] + HandlerLeft[handler'] + Cardinality(others')
  BY DEF StepsLeft, ListenerLeft, HandlerLeft
<1>4. CASE Listen
  BY <1>1, <1>2, <1>3, <1>4, ListenerAdvances DEF StepsLeft
<1>5. CASE Work
  BY <1>1, <1>2, <1>3, <1>5, HandlerAdvances DEF StepsLeft
<1>6. ASSUME NEW task \in OtherTasks, OtherStops(task) PROVE StepsLeft' < StepsLeft
  BY <1>1, <1>2, <1>3, <1>6, OthersAdvance DEF StepsLeft
<1>7. CASE (\E e \in Events : Publish(e) \/ Deliver(e)) \/ UNCHANGED vars
  BY <1>7 DEF Publish, Deliver, vars, listenerVars, handlerVars, lifeVars
<1>8. ~Cancel /\ ~Exit /\ ~Crash /\ ~Boot
  BY DEF Cancel, Exit, Crash, Ends, Boot, CancelledRuns
<1> QED BY <1>4, <1>5, <1>6, <1>7, <1>8 DEF Next

(* Once the token is cancelled the tasks of the process take ten steps at  *)
(* the most, whatever the capacities and however many events wait in the   *)
(* replay, at the receiver and in the channel: none of these is drained.   *)
THEOREM ShutdownIsShort == Spec => ShutdownAdvances
<1>1. Spec => [](TypeOK /\ CancelledRuns)
  <2>1. Init => CancelledRuns
    BY DEF Init, CancelledRuns
  <2> QED BY <2>1, TypeCorrect, CancelledStep, PTL DEF Spec
<1>2. TypeOK /\ TypeOK' /\ CancelledRuns /\ [Next]_vars =>
        [cancelled /\ cancelled' =>
          StepsLeft' < StepsLeft \/ UNCHANGED <<listenerVars, handlerVars, chan, others>>]_vars
  BY ShutdownStep
<1> QED BY <1>1, <1>2, PTL DEF Spec, ShutdownAdvances
=============================================================================
