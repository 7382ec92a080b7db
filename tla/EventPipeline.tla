---------------------------- MODULE EventPipeline ----------------------------
(***************************************************************************)
(* The life of one process and the way of an event through it: the relay   *)
(* client notifies the listener (nostr_listener.rs), the listener sends    *)
(* into a bounded channel, the event handler (event_handler.rs run) takes  *)
(* one event at a time, checks it against the processed set in Redis,      *)
(* routes it to its handler and marks it.  main.rs starts the tasks with a *)
(* cancellation token and waits for all of them.                           *)
(*                                                                         *)
(* What the handlers do with an event is in the other modules; here one    *)
(* either runs to its end, fails, or is cut short by the token.            *)
(***************************************************************************)
EXTENDS Integers, Sequences, FiniteSets

CONSTANTS
  Control,    \* events of the control kinds
  Direct,     \* direct messages
  Stored,     \* events user subscriptions may match, of the two kinds above or others
  NoEvent,
  ChanCap,    \* capacity of the mpsc channel (1000)
  QueueCap    \* capacity of the client's broadcast channel

Events == Control \cup Direct \cup Stored

ASSUME EventPipelineAssumption ==
  /\ NoEvent \notin Events
  /\ Control \cap Direct = {}
  /\ ChanCap \in Nat \ {0} /\ QueueCap \in Nat \ {0}

VARIABLES
  published,  \* events the relay has
  cancelled,  \* the cancellation token
  others,     \* the cleanup and HTTP server tasks that run
  listener,   \* where the listener is, off if there is no process
  replay,     \* fetched historical events not sent yet
  open,       \* events the subscriptions open at the relay match
  subscribed, \* the live subscription is one of them
  seen,       \* events the client has had: it notifies of none twice
  queue,      \* notifications the listener's receiver has not taken
  lagged,     \* the receiver lost a notification to an overflow
  hand,       \* the live event the listener is sending
  heard,      \* events the listener had in hand
  chan,       \* the channel to the event handler
  handler,    \* where the event handler is
  current,    \* the event it works on
  processed,  \* the processed_nostr_events set
  complete    \* events some handler ran to its end for

relayVars    == <<published, open, subscribed, seen>>
receiverVars == <<queue, lagged>>
listenerVars == <<listener, replay, hand, heard>>
handlerVars  == <<handler, current, processed, complete>>
lifeVars     == <<cancelled, others>>
vars == <<published, open, subscribed, seen, queue, lagged, listener, replay, hand, heard,
          chan, handler, current, processed, complete, cancelled, others>>

OtherTasks == {"cleanup", "server"}
InSeq(s) == {s[i] : i \in DOMAIN s}

TypeOK ==
  /\ published \subseteq Events /\ open \subseteq Events /\ subscribed \in BOOLEAN
  /\ seen \subseteq published
  /\ queue \in Seq(Events) /\ Len(queue) <= QueueCap
  /\ lagged \in BOOLEAN
  /\ listener \in {"off", "recovering", "fetching", "replaying", "subscribing",
                   "attaching", "live", "stopped"}
  /\ replay \subseteq Control
  /\ hand \in Events \cup {NoEvent}
  /\ heard \subseteq Events
  /\ chan \in Seq(Events) /\ Len(chan) <= ChanCap
  /\ handler \in {"off", "idle", "checking", "routing", "routed", "marking", "stopped"}
  /\ current \in Events \cup {NoEvent}
  /\ processed \subseteq Events /\ complete \subseteq Events
  /\ cancelled \in BOOLEAN
  /\ others \subseteq OtherTasks

Init ==
  /\ published = {} /\ open = {} /\ subscribed = FALSE /\ seen = {}
  /\ queue = <<>> /\ lagged = FALSE
  /\ listener = "off" /\ replay = {} /\ hand = NoEvent /\ heard = {}
  /\ chan = <<>>
  /\ handler = "off" /\ current = NoEvent /\ processed = {} /\ complete = {}
  /\ cancelled = FALSE /\ others = {}

-----------------------------------------------------------------------------
(* The relay and the client library.                                       *)
Publish(e) ==
  /\ e \notin published
  /\ published' = published \cup {e}
  /\ UNCHANGED <<open, subscribed, seen, receiverVars, listenerVars, chan, handlerVars, lifeVars>>

(* The client notifies its receivers the first time it gets an event.  The *)
(* listener has no receiver before process_live_events; a receiver that is *)
(* too slow loses the oldest notification.                                 *)
Notify(e) ==
  IF listener # "live" THEN UNCHANGED receiverVars
  ELSE IF Len(queue) < QueueCap
       THEN queue' = Append(queue, e) /\ UNCHANGED lagged
       ELSE queue' = Append(Tail(queue), e) /\ lagged' = TRUE

Deliver(e) ==
  /\ e \in (published \cap open) \ seen
  /\ seen' = seen \cup {e}
  /\ Notify(e)
  /\ UNCHANGED <<published, open, subscribed, listenerVars, chan, handlerVars, lifeVars>>

-----------------------------------------------------------------------------
(* The listener, in the order of NostrListener::run; any error ends it.    *)
Goto(next) == listener' = next /\ UNCHANGED <<hand, heard>>

ListenerFails ==
  /\ listener \in {"recovering", "subscribing"}
  /\ Goto("stopped")
  /\ UNCHANGED <<relayVars, receiverVars, replay, chan, handlerVars, lifeVars>>

(* recover_existing_subscriptions opens what Redis has and the relay does  *)
(* not refuse, subscriptions for direct messages included.                 *)
Recover ==
  /\ listener = "recovering"
  /\ open' \in SUBSET Stored
  /\ Goto("fetching")
  /\ UNCHANGED <<published, subscribed, seen, receiverVars, replay, chan, handlerVars, lifeVars>>

(* process_historical_events: a failed query is only logged, a cancelled   *)
(* one returns and leaves the listener to find out again.                  *)
Fetch ==
  /\ listener = "fetching" /\ ~cancelled
  /\ replay' = published \cap Control
  /\ seen' = seen \cup replay'
  /\ Goto("replaying")
  /\ UNCHANGED <<published, open, subscribed, receiverVars, chan, handlerVars, lifeVars>>

FetchNothing ==
  /\ listener = "fetching"
  /\ Goto("subscribing")
  /\ UNCHANGED <<relayVars, receiverVars, replay, chan, handlerVars, lifeVars>>

SendHistorical(e) ==
  /\ listener = "replaying" /\ ~cancelled
  /\ e \in replay /\ Len(chan) < ChanCap
  /\ chan' = Append(chan, e)
  /\ replay' = replay \ {e}
  /\ UNCHANGED <<relayVars, receiverVars, listener, hand, heard, handlerVars, lifeVars>>

EndReplay ==
  /\ listener = "replaying"
  /\ cancelled \/ replay = {}
  /\ Goto("subscribing")
  /\ replay' = {}
  /\ UNCHANGED <<relayVars, receiverVars, chan, handlerVars, lifeVars>>

SubscribeLive ==
  /\ listener = "subscribing"
  /\ subscribed' = ~cancelled
  /\ open' = IF cancelled THEN open ELSE open \cup Control \cup Direct
  /\ Goto("attaching")
  /\ UNCHANGED <<published, seen, receiverVars, replay, chan, handlerVars, lifeVars>>

(* process_live_events begins with client.notifications().                 *)
Attach ==
  /\ listener = "attaching"
  /\ Goto("live")
  /\ UNCHANGED <<relayVars, receiverVars, replay, chan, handlerVars, lifeVars>>

Take ==
  /\ listener = "live" /\ ~cancelled /\ ~lagged
  /\ hand = NoEvent /\ queue # <<>>
  /\ hand' = Head(queue)
  /\ heard' = heard \cup {hand'}
  /\ queue' = Tail(queue)
  /\ UNCHANGED <<relayVars, lagged, listener, replay, chan, handlerVars, lifeVars>>

(* Mutation: an unbounded send.                                            *)
SendLiveUnbounded ==
  /\ listener = "live" /\ ~cancelled /\ hand # NoEvent
  /\ chan' = Append(chan, hand)
  /\ hand' = NoEvent
  /\ UNCHANGED <<relayVars, receiverVars, listener, replay, heard, handlerVars, lifeVars>>

SendLive ==
  /\ listener = "live" /\ ~cancelled
  /\ hand # NoEvent /\ Len(chan) < ChanCap
  /\ chan' = Append(chan, hand)
  /\ hand' = NoEvent
  /\ UNCHANGED <<relayVars, receiverVars, listener, replay, heard, handlerVars, lifeVars>>

(* The receive of a receiver that lagged is an error, which ends the loop; *)
(* the token ends it while it waits for an event or for the channel.       *)
Lag ==
  /\ listener = "live" /\ lagged /\ hand = NoEvent
  /\ Goto("stopped")
  /\ UNCHANGED <<relayVars, receiverVars, replay, chan, handlerVars, lifeVars>>

(* Mutation: the token does not interrupt the send.                        *)
StopListeningBetweenSends ==
  /\ listener = "live" /\ cancelled /\ hand = NoEvent
  /\ Goto("stopped")
  /\ UNCHANGED <<relayVars, receiverVars, replay, chan, handlerVars, lifeVars>>

StopListening ==
  /\ listener = "live" /\ cancelled
  /\ Goto("stopped")
  /\ UNCHANGED <<relayVars, receiverVars, replay, chan, handlerVars, lifeVars>>

Listen ==
  \/ ListenerFails \/ Recover \/ Fetch \/ FetchNothing \/ EndReplay
  \/ \E e \in Control : SendHistorical(e)
  \/ SubscribeLive \/ Attach \/ Take \/ SendLive \/ Lag \/ StopListening

-----------------------------------------------------------------------------
(* The event handler.  Each select! prefers the token.                     *)
HandlerAt(where, e) ==
  /\ handler' = where
  /\ current' = e
  /\ UNCHANGED <<published, subscribed, seen, receiverVars, listenerVars, lifeVars>>

(* All handlers but that of direct messages may open and close user        *)
(* subscriptions, those of replayed events before the live subscription.   *)
Resubscribe ==
  LET live == IF subscribed THEN Control \cup Direct ELSE {}
  IN open' \in IF current \in Direct THEN {open} ELSE {live \cup s : s \in SUBSET Stored}

(* Mutation: the select! that takes an event does not look at the token.   *)
ReceiveUnbiased ==
  /\ handler = "idle"
  /\ chan # <<>>
  /\ chan' = Tail(chan)
  /\ HandlerAt("checking", Head(chan))
  /\ UNCHANGED <<open, processed, complete>>

Receive ==
  /\ handler = "idle" /\ ~cancelled
  /\ chan # <<>>
  /\ chan' = Tail(chan)
  /\ HandlerAt("checking", Head(chan))
  /\ UNCHANGED <<open, processed, complete>>

Check ==
  /\ handler = "checking" /\ ~cancelled
  /\ IF current \in processed THEN HandlerAt("idle", NoEvent) ELSE HandlerAt("routing", current)
  /\ UNCHANGED <<open, chan, processed, complete>>

(* The event is older than the replay horizon or Redis does not answer.    *)
Discard ==
  /\ handler = "checking"
  /\ HandlerAt("idle", NoEvent)
  /\ UNCHANGED <<open, chan, processed, complete>>

Route ==
  /\ handler = "routing"
  /\ complete' = complete \cup {current}
  /\ HandlerAt("routed", current)
  /\ Resubscribe
  /\ UNCHANGED <<chan, processed>>

(* send_notifications_to_recipients ends with Ok when it is cut short.     *)
RouteCutShort ==
  /\ handler = "routing" /\ cancelled
  /\ HandlerAt("routed", current)
  /\ Resubscribe
  /\ UNCHANGED <<chan, processed, complete>>

AfterEvent == HandlerAt(IF cancelled THEN "stopped" ELSE "idle", NoEvent)

RouteFails ==
  /\ handler = "routing"
  /\ AfterEvent
  /\ Resubscribe
  /\ UNCHANGED <<chan, processed, complete>>

(* Mutation: the token is not looked at again before the mark.             *)
BeginMarkRegardless ==
  /\ handler = "routed"
  /\ HandlerAt("marking", current)
  /\ UNCHANGED <<open, chan, processed, complete>>

BeginMark ==
  /\ handler = "routed"
  /\ IF cancelled THEN HandlerAt("stopped", NoEvent) ELSE HandlerAt("marking", current)
  /\ UNCHANGED <<open, chan, processed, complete>>

(* A mark the token overtakes may have reached Redis.                      *)
Mark ==
  /\ handler = "marking"
  /\ processed' = processed \cup {current}
  /\ AfterEvent
  /\ UNCHANGED <<open, chan, complete>>

(* Mutation: a Redis error ends the event handler.                         *)
MarkFailsForGood ==
  /\ handler = "marking"
  /\ HandlerAt("stopped", NoEvent)
  /\ UNCHANGED <<open, chan, processed, complete>>

MarkFails ==
  /\ handler = "marking"
  /\ AfterEvent
  /\ UNCHANGED <<open, chan, processed, complete>>

StopHandling ==
  /\ handler \in {"idle", "checking"} /\ cancelled
  /\ HandlerAt("stopped", NoEvent)
  /\ UNCHANGED <<open, chan, processed, complete>>

Work == \/ Receive \/ Check \/ Discard \/ Route \/ RouteCutShort \/ RouteFails
        \/ BeginMark \/ Mark \/ MarkFails \/ StopHandling

-----------------------------------------------------------------------------
(* main.rs: Ctrl+C or a failure of the HTTP server cancels the token.      *)
Cancel ==
  /\ listener # "off" /\ ~cancelled
  /\ cancelled' = TRUE
  /\ UNCHANGED <<relayVars, receiverVars, listenerVars, chan, handlerVars, others>>

(* The cleanup task may also be disabled.                                  *)
OtherStops(task) ==
  /\ task \in others
  /\ cancelled \/ task = "cleanup"
  /\ others' = others \ {task}
  /\ UNCHANGED <<relayVars, receiverVars, listenerVars, chan, handlerVars, cancelled>>

Ends ==
  /\ listener' = "off" /\ handler' = "off" /\ others' = {}
  /\ open' = {} /\ subscribed' = FALSE /\ seen' = {} /\ queue' = <<>> /\ lagged' = FALSE
  /\ replay' = {} /\ hand' = NoEvent /\ heard' = {} /\ chan' = <<>> /\ current' = NoEvent
  /\ cancelled' = FALSE
  /\ UNCHANGED <<published, processed, complete>>

(* tracker.wait: every task has finished.                                  *)
Exit ==
  /\ cancelled
  /\ listener = "stopped" /\ handler = "stopped" /\ others = {}
  /\ Ends

Crash == listener # "off" /\ Ends

Boot ==
  /\ listener = "off"
  /\ listener' = "recovering" /\ handler' = "idle" /\ others' = OtherTasks
  /\ UNCHANGED <<relayVars, receiverVars, replay, hand, heard, chan, current,
                 processed, complete, cancelled>>

Next ==
  \/ \E e \in Events : Publish(e) \/ Deliver(e)
  \/ Listen \/ Work
  \/ \E task \in OtherTasks : OtherStops(task)
  \/ Cancel \/ Exit \/ Crash \/ Boot

Spec == Init /\ [][Next]_vars

(* Each task is scheduled, and every call it waits for returns or fails.   *)
Fairness ==
  /\ WF_vars(Listen) /\ WF_vars(Work)
  /\ \A task \in OtherTasks : WF_vars(cancelled /\ OtherStops(task))
  /\ WF_vars(Exit)

FairSpec == Spec /\ Fairness

-----------------------------------------------------------------------------
(* An event is marked as processed only if some handler ran to its end for *)
(* it, never when the token cut its handler short or the handler failed:   *)
(* such an event is handled again after the restart.                       *)
MarkedIsComplete == processed \subseteq complete

(* Whatever the tasks are doing when the token is cancelled, a full        *)
(* channel included, all of them stop and the process exits.               *)
ShutdownCompletes == cancelled ~> listener = "off"

(* How many steps are at most left of a task once the token is cancelled.  *)
ListenerLeft == [recovering |-> 6, fetching |-> 5, replaying |-> 4, subscribing |-> 3,
                 attaching |-> 2, live |-> 1, stopped |-> 0, off |-> 0]
HandlerLeft == [routing |-> 2, checking |-> 2, routed |-> 1, marking |-> 1, idle |-> 1,
                stopped |-> 0, off |-> 0]
StepsLeft == ListenerLeft[listener] + HandlerLeft[handler] + Cardinality(others)

(* ... in ten steps of the tasks at most: no step of one leaves it as far  *)
(* from its end as before, however many events wait in the replay, at the  *)
(* receiver and in the channel.                                            *)
ShutdownAdvances ==
  [][cancelled /\ cancelled' =>
       \/ StepsLeft' < StepsLeft
       \/ UNCHANGED <<listenerVars, handlerVars, chan, others>>]_vars

(* The listener blocked on the channel and the handler do not starve each  *)
(* other: what the listener accepted is taken, unless the process ends.    *)
QueuedIsTaken ==
  \A e \in Events : (e \in replay \cup {hand} \cup InSeq(chan))
                      ~> (e \notin replay \cup {hand} \cup InSeq(chan))

(* nostr_listener.rs:266: the live subscription looks back to catch the    *)
(* control events and direct messages of the time before it, so one that   *)
(* the client has had reaches the listener while it listens.               *)
LookbackCaught ==
  listener = "live" /\ ~lagged =>
    \A e \in Direct \cap seen : e \in heard \cup InSeq(queue)
=============================================================================
