----------------------------- MODULE Messaging ------------------------------
(***************************************************************************)
(* The event bus, the Telegram notifier and a /stream client behind it,    *)
(* and the two ways the process ends: the shutdown after a signal, and the *)
(* TaskGroup's own when a task fails.                                      *)
(*                                                                         *)
(* Dispatching an event suspends nowhere (every handler only puts into a   *)
(* queue), so it is one step.  The notifier suspends where it polls, sends *)
(* and rests; those are its phases.  Events are numbered as published; of  *)
(* an event only matters which queue of the notifier it goes to.           *)
(***************************************************************************)
EXTENDS Integers, Sequences, SequencesExt

CONSTANTS
  BusCap,      \* queue_maxsize of the bus: 1000
  UrgentCap,   \* _urgent_queue: 20
  NormalCap,   \* _queue of the notifier: 100
  StreamCap,   \* queue of a /stream client: 500
  MaxEvents    \* bound: events published

ASSUME MessagingAssumption ==
  /\ BusCap \in Nat \ {0} /\ UrgentCap \in Nat \ {0}
  /\ NormalCap \in Nat \ {0} /\ StreamCap \in Nat \ {0}
  /\ MaxEvents \in Nat

VARIABLES
  kind,              \* the kinds of the events published so far
  bus, busRuns,      \* the queue of the bus; its dispatch loop is alive
  urgent, normal,    \* the notifier's queues
  phase,             \* where run() of the notifier is
  stage,             \* the queue _drain_remaining is at
  running,           \* _running of the notifier
  flight,            \* the event _send_message holds
  told,              \* what Telegram got, by the queue it came from
  joined, outbox, shown,   \* a /stream client: connected, its queue, what it was sent
  watch,             \* the shutdown-watcher
  trouble            \* what has gone wrong so far

notifier == <<urgent, normal, phase, stage, running, flight, told>>
client   == <<joined, outbox, shown>>
vars     == <<kind, bus, busRuns, notifier, client, watch, trouble>>

(* By template: ERROR and CRITICAL (_URGENT_LEVELS), the other levels, and *)
(* event types without a template or below min_level.                      *)
Kinds == {"urgent", "normal", "silent"}
Queued == {"urgent", "normal"}

Of(k) == {n \in DOMAIN kind : kind[n] = k}

Init ==
  /\ kind = <<>> /\ bus = <<>> /\ busRuns = TRUE
  /\ urgent = <<>> /\ normal = <<>>
  /\ phase = "poll" /\ stage = "urgent" /\ running = TRUE /\ flight = 0
  /\ told = [k \in Queued |-> <<>>]
  /\ joined = TRUE /\ outbox = <<>> /\ shown = <<>>
  /\ watch = "waiting" /\ trouble = {}

(***************************************************************************)
(* The bus                                                                 *)
(***************************************************************************)

(* publish, publish_nowait: put_nowait, and a full queue drops the event.  *)
Publish(k) ==
  /\ Len(kind) < MaxEvents
  /\ kind' = Append(kind, k)
  /\ IF Len(bus) < BusCap
     THEN bus' = Append(bus, Len(kind')) /\ UNCHANGED trouble
     ELSE trouble' = trouble \union {"bus"} /\ UNCHANGED bus
  /\ UNCHANGED <<busRuns, notifier, client, watch>>

(* Bug: the queue has no bound.                                           *)
Put_Unbounded(queue, cap, n) == Append(queue, n)

(* What a bounded queue becomes when put_nowait(n) is tried.               *)
Put(queue, cap, n) == IF Len(queue) < cap THEN Append(queue, n) ELSE queue

(* One round of _dispatch_loop: the route of wire_notifier with send(),    *)
(* and _enqueue of the client, each catching QueueFull.                    *)
Dispatch ==
  /\ busRuns /\ bus # <<>>
  /\ bus' = Tail(bus)
  /\ LET n == Head(bus)
         full == (IF kind[n] = "urgent" /\ Len(urgent) = UrgentCap THEN {"urgent"} ELSE {})
                 \union (IF kind[n] = "normal" /\ Len(normal) = NormalCap THEN {"normal"} ELSE {})
                 \union (IF joined /\ Len(outbox) = StreamCap THEN {"stream"} ELSE {})
     IN /\ urgent' = IF kind[n] = "urgent" THEN Put(urgent, UrgentCap, n) ELSE urgent
        /\ normal' = IF kind[n] = "normal" THEN Put(normal, NormalCap, n) ELSE normal
        /\ outbox' = IF joined THEN Put(outbox, StreamCap, n) ELSE outbox
        /\ trouble' = trouble \union full
  /\ UNCHANGED <<kind, busRuns, phase, stage, running, flight, told, joined, shown, watch>>

(***************************************************************************)
(* The notifier                                                            *)
(***************************************************************************)

outside == <<kind, bus, busRuns, client, watch>>

(* Bug: the normal queue is asked without looking at the urgent one.       *)
GetNext_AnyQueue ==
  /\ phase = "poll" /\ running
  /\ \/ /\ urgent # <<>>
        /\ flight' = Head(urgent) /\ urgent' = Tail(urgent) /\ UNCHANGED normal
     \/ /\ normal # <<>>
        /\ flight' = Head(normal) /\ normal' = Tail(normal) /\ UNCHANGED urgent
  /\ phase' = "send"
  /\ UNCHANGED <<outside, stage, running, told, trouble>>

(* Bug: the newest message first.                                          *)
GetNext_Newest ==
  /\ phase = "poll" /\ running
  /\ \/ /\ urgent # <<>>
        /\ flight' = Head(urgent) /\ urgent' = Tail(urgent) /\ UNCHANGED normal
     \/ /\ urgent = <<>> /\ normal # <<>>
        /\ flight' = Last(normal) /\ normal' = Front(normal) /\ UNCHANGED urgent
  /\ phase' = "send"
  /\ UNCHANGED <<outside, stage, running, told, trouble>>

(* Bug: nobody asks the normal queue.                                      *)
GetNext_UrgentOnly ==
  /\ phase = "poll" /\ running /\ urgent # <<>>
  /\ flight' = Head(urgent) /\ urgent' = Tail(urgent)
  /\ phase' = "send"
  /\ UNCHANGED <<outside, normal, stage, running, told, trouble>>

(* _get_next: the urgent queue is asked first.                             *)
GetNext ==
  /\ phase = "poll" /\ running
  /\ \/ /\ urgent # <<>>
        /\ flight' = Head(urgent) /\ urgent' = Tail(urgent) /\ UNCHANGED normal
     \/ /\ urgent = <<>> /\ normal # <<>>
        /\ flight' = Head(normal) /\ normal' = Tail(normal) /\ UNCHANGED urgent
  /\ phase' = "send"
  /\ UNCHANGED <<outside, stage, running, told, trouble>>

Delivered == [told EXCEPT ![kind[flight]] = Append(@, flight)]

(* _send_message: an answer, or an error that is only logged, be it that   *)
(* the message did not get through or that the answer did not.             *)
Answered ==
  \/ told' = Delivered /\ UNCHANGED trouble
  \/ trouble' = trouble \union {"api"} /\ told' \in {told, Delivered}

(* Bug: a message that failed is sent again.                               *)
SendMessage_Retries ==
  /\ phase = "send"
  /\ Answered
  /\ IF trouble' = trouble THEN phase' = "rest" /\ flight' = 0 ELSE UNCHANGED <<phase, flight>>
  /\ UNCHANGED <<outside, urgent, normal, stage, running>>

SendMessage ==
  /\ phase = "send"
  /\ Answered
  /\ phase' = "rest" /\ flight' = 0
  /\ UNCHANGED <<outside, urgent, normal, stage, running>>

(* The sleep of the rate limit is over.                                    *)
Rested ==
  /\ phase = "rest" /\ phase' = "poll"
  /\ UNCHANGED <<outside, urgent, normal, stage, running, flight, told, trouble>>

(* _drain_remaining from queue `at` on: the next message, or the end of    *)
(* run() with the session closed.                                          *)
DrainFrom(at) ==
  \/ /\ at = "urgent" /\ urgent # <<>>
     /\ flight' = Head(urgent) /\ urgent' = Tail(urgent)
     /\ phase' = "drain" /\ stage' = "urgent" /\ UNCHANGED normal
  \/ /\ at = "normal" \/ urgent = <<>>
     /\ normal # <<>>
     /\ flight' = Head(normal) /\ normal' = Tail(normal)
     /\ phase' = "drain" /\ stage' = "normal" /\ UNCHANGED urgent
  \/ /\ at = "normal" \/ urgent = <<>>
     /\ normal = <<>>
     /\ flight' = 0 /\ phase' = "closed" /\ UNCHANGED <<stage, urgent, normal>>

(* The loop sees that stop() was called.                                   *)
LeaveLoop ==
  /\ phase = "poll" /\ ~running
  /\ DrainFrom("urgent")
  /\ UNCHANGED <<outside, running, told, trouble>>

DrainMessage ==
  /\ phase = "drain"
  /\ Answered
  /\ DrainFrom(stage)
  /\ UNCHANGED <<outside, running>>

(* Bug: no finally, what waits is not sent any more.                       *)
CancelNotifier_NoDrain ==
  /\ \/ flight # 0 /\ told' = Delivered
     \/ UNCHANGED told
  /\ phase' = "closed" /\ flight' = 0 /\ trouble' = trouble \union {"end"}
  /\ UNCHANGED <<urgent, normal, stage>>

(* task.cancel() reaches run() where it is suspended.  A message on its    *)
(* way may or may not have got through.  In the loop the drain follows; in *)
(* the drain it is cut off and run() ends with what is left in the queues. *)
CancelNotifier ==
  /\ \/ flight # 0 /\ told' = Delivered
     \/ UNCHANGED told
  /\ \/ /\ phase \in {"poll", "send", "rest"}
        /\ DrainFrom("urgent")
        /\ trouble' = trouble \union {"end"}
     \/ /\ phase = "drain"
        /\ phase' = "closed" /\ flight' = 0
        /\ trouble' = trouble \union {"end", "cut"}
        /\ UNCHANGED <<urgent, normal, stage>>
     \/ /\ phase = "closed"
        /\ trouble' = trouble \union {"end"}
        /\ UNCHANGED <<urgent, normal, stage, phase, flight>>

(***************************************************************************)
(* The client                                                              *)
(***************************************************************************)

(* Bug: a client that lags is sent the newest event.                       *)
StreamSend_Newest ==
  /\ joined /\ outbox # <<>>
  /\ shown' = Append(shown, Last(outbox)) /\ outbox' = Front(outbox)
  /\ UNCHANGED <<kind, bus, busRuns, notifier, joined, watch, trouble>>

(* queue.get() and send_text(): the event is handed to the socket.         *)
StreamSend ==
  /\ joined /\ outbox # <<>>
  /\ shown' = Append(shown, Head(outbox)) /\ outbox' = Tail(outbox)
  /\ UNCHANGED <<kind, bus, busRuns, notifier, joined, watch, trouble>>

(* The socket fails or is closed: unsubscribed, the queue is gone.         *)
Leave ==
  /\ joined /\ joined' = FALSE /\ outbox' = <<>>
  /\ trouble' = trouble \union {"left"}
  /\ UNCHANGED <<kind, bus, busRuns, notifier, shown, watch>>

Join ==
  /\ ~joined /\ joined' = TRUE
  /\ UNCHANGED <<kind, bus, busRuns, notifier, outbox, shown, watch, trouble>>

(***************************************************************************)
(* The end                                                                 *)
(***************************************************************************)

(* _shutdown after a signal: bus.stop() cancels the loop and awaits it.    *)
StopBus ==
  /\ watch = "waiting" /\ watch' = "stopping"
  /\ busRuns' = FALSE /\ trouble' = trouble \union {"end"}
  /\ UNCHANGED <<kind, bus, notifier, client>>

(* Bug: the notifier is neither stopped nor cancelled.                     *)
StopNotifier_Forgotten ==
  /\ watch = "stopping" /\ watch' = "done"
  /\ UNCHANGED <<kind, bus, busRuns, notifier, client, trouble>>

(* notifier.stop() and, as nothing suspends after it, the cancellation of  *)
(* the tasks; only info_system.stop(), if there is an InfoSystem, awaits   *)
(* something in between.                                                   *)
StopNotifier ==
  /\ watch = "stopping" /\ running' = FALSE
  /\ \/ watch' = "info" /\ UNCHANGED <<urgent, normal, phase, stage, flight, told, trouble>>
     \/ watch' = "done" /\ CancelNotifier
  /\ UNCHANGED <<kind, bus, busRuns, client>>

CancelPendingTasks ==
  /\ watch = "info" /\ watch' = "done"
  /\ CancelNotifier
  /\ UNCHANGED <<kind, bus, busRuns, client, running>>

(* Another task of the TaskGroup raises, in its work or while it is being  *)
(* cancelled: the group cancels the notifier (once more) and the watcher.  *)
(* The loop of the bus is a task outside of the group.                     *)
TaskFails ==
  /\ watch # "failed" /\ watch' = "failed"
  /\ CancelNotifier
  /\ UNCHANGED <<kind, bus, busRuns, client, running>>

(* run() returns, and asyncio.run cancels what is left.                    *)
Exit ==
  /\ watch = "failed" /\ phase = "closed" /\ busRuns
  /\ busRuns' = FALSE
  /\ UNCHANGED <<kind, bus, notifier, client, watch, trouble>>

NotifierStep == GetNext \/ SendMessage \/ Rested \/ LeaveLoop \/ DrainMessage

Next ==
  \/ \E k \in Kinds : Publish(k)
  \/ Dispatch
  \/ NotifierStep
  \/ StreamSend \/ Leave \/ Join
  \/ StopBus \/ StopNotifier \/ CancelPendingTasks
  \/ TaskFails \/ Exit

Spec == Init /\ [][Next]_vars

(* The event loop runs every task that can run, and the HTTP client of     *)
(* Telegram has a timeout.  Nothing is assumed of clients and signals.     *)
Fairness ==
  /\ WF_vars(Dispatch) /\ WF_vars(NotifierStep)
  /\ WF_vars(StopNotifier) /\ WF_vars(CancelPendingTasks)

FairSpec == Spec /\ Fairness

(***************************************************************************)
(* Properties                                                              *)
(***************************************************************************)

(* Types, and no queue beyond its bound.                                   *)
TypeOK ==
  /\ kind \in Seq(Kinds) /\ busRuns \in BOOLEAN
  /\ LET Events == 1 .. Len(kind)
     IN /\ bus \in Seq(Events) /\ urgent \in Seq(Events) /\ normal \in Seq(Events)
        /\ outbox \in Seq(Events) /\ told \in [Queued -> Seq(Events)] /\ shown \in Seq(Events)
        /\ flight \in Events \union {0}
  /\ Len(bus) <= BusCap /\ Len(urgent) <= UrgentCap
  /\ Len(normal) <= NormalCap /\ Len(outbox) <= StreamCap
  /\ phase \in {"poll", "send", "rest", "drain", "closed"}
  /\ flight # 0 <=> phase \in {"send", "drain"}
  /\ stage \in {"urgent", "normal"} /\ running \in BOOLEAN /\ joined \in BOOLEAN
  /\ watch \in {"waiting", "stopping", "info", "done", "failed"}
  /\ trouble \subseteq {"bus", "urgent", "normal", "api", "stream", "left", "end", "cut"}

Broken(causes) == trouble \intersect causes # {}

UrgentView == INSTANCE LossyChannel WITH
  offered <- Of("urgent"), received <- told["urgent"],
  broken <- Broken({"bus", "urgent", "api", "end"})

NormalView == INSTANCE LossyChannel WITH
  offered <- Of("normal"), received <- told["normal"],
  broken <- Broken({"bus", "normal", "api", "end"})

StreamTrouble == Broken({"bus", "stream", "left", "end"})

StreamView == INSTANCE LossyChannel WITH
  offered <- DOMAIN kind, received <- shown,
  broken <- StreamTrouble

(* Priority: no normal message is taken while an urgent one waits, in the  *)
(* loop or in the drain, unless a failed task left the bus dispatching     *)
(* into a notifier that drains already.                                    *)
UrgentFirst ==
  [][flight' \notin {0, flight} /\ kind'[flight'] = "normal" /\ watch' # "failed" =>
       urgent = <<>>]_vars

(* Bus, queues, drain and cancellation together are a lossy channel to     *)
(* Telegram for the urgent messages and one for the others: all of them,   *)
(* once and in order, until a queue was full, a call failed or the process *)
(* ends; then still none twice and none late.  The urgent channel goes     *)
(* first.  A dashboard has a third one, whatever the notifier does, which  *)
(* loses nothing as long as the client stays connected.                    *)
Channels ==
  /\ UrgentView!Spec
  /\ NormalView!Spec
  /\ StreamView!Spec
  /\ UrgentFirst

(* "The remaining events are sent, then the session is closed" (docstring  *)
(* of TelegramNotifier): true of a shutdown after a signal, unless the     *)
(* cancellation that follows info_system.stop() cuts the drain off.        *)
ClosedIsDrained ==
  phase = "closed" /\ watch # "failed" /\ "cut" \notin trouble =>
    urgent = <<>> /\ normal = <<>>

(* What makes the two above inductive: the bus has stopped before a        *)
(* shutdown lets the notifier drain, so nothing joins a queue that the     *)
(* drain has left behind, and the queues hold what they are for.           *)
DrainInv ==
  /\ watch \in {"stopping", "info", "done"} => ~busRuns
  /\ watch \in {"waiting", "stopping"} => running /\ phase \in {"poll", "send", "rest"}
  /\ watch # "failed" /\ phase = "drain" /\ stage = "normal" => urgent = <<>>
  /\ \A i \in DOMAIN urgent : kind[urgent[i]] = "urgent"

(* What a client was sent, what waits for it and what the bus still holds  *)
(* ascend, in this order, and are all there is while nothing went wrong.   *)
Ascends(q) == \A i, j \in DOMAIN q : i < j => q[i] < q[j]
Precedes(p, q) == \A i \in DOMAIN p, j \in DOMAIN q : p[i] < q[j]
Has(q, n) == \E i \in DOMAIN q : q[i] = n
StreamInv ==
  /\ Ascends(shown) /\ Ascends(outbox) /\ Ascends(bus)
  /\ Precedes(shown, outbox) /\ Precedes(shown, bus) /\ Precedes(outbox, bus)
  /\ ~joined => "left" \in trouble
  /\ StreamTrouble \/ \A n \in DOMAIN kind : Has(shown, n) \/ Has(outbox, n) \/ Has(bus, n)

(* What Telegram got of a kind, the message on its way, what waits in the  *)
(* queue for it and what the bus holds ascend, in this order, and are all  *)
(* there is of the kind while nothing went wrong.                          *)
Queue(k) == IF k = "urgent" THEN urgent ELSE normal
InHand(k) == {flight} \intersect Of(k)
Causes(k) == {"bus", k, "api", "end"}
Below(q, n) == \A i \in DOMAIN q : q[i] < n
Above(q, n) == \A i \in DOMAIN q : n < q[i]
InOrder(t, hand, q, b) ==
  /\ Ascends(t) /\ Ascends(q) /\ Ascends(b)
  /\ Precedes(t, q) /\ Precedes(t, b) /\ Precedes(q, b)
  /\ \A m \in hand : Below(t, m) /\ Above(q, m) /\ Above(b, m)
Held(t, hand, q, b, n) == n \in hand \/ Has(t, n) \/ Has(q, n) \/ Has(b, n)
ChannelInv(k) ==
  /\ \A i \in DOMAIN Queue(k) : kind[Queue(k)[i]] = k
  /\ InOrder(told[k], InHand(k), Queue(k), bus)
  /\ Broken(Causes(k)) \/ \A n \in Of(k) : Held(told[k], InHand(k), Queue(k), bus, n)
NotifierInv ==
  /\ flight # 0 => kind[flight] \in Queued
  /\ \A k \in Queued : ChannelInv(k)

(* A published message reaches Telegram as long as nothing goes wrong on   *)
(* its way: the loop polls on, and urgent messages do not hold it up for   *)
(* good.  Once a signal came, or a task failed, the notifier ends all the  *)
(* same: the TaskGroup is not held up by it.                               *)
Arrives(k, causes) ==
  \A n \in 1 .. MaxEvents :
    n \in Of(k) ~> Has(told[k], n) \/ Broken(causes)

MessagesArrive ==
  /\ Arrives("urgent", {"bus", "urgent", "api", "end"})
  /\ Arrives("normal", {"bus", "normal", "api", "end"})
  /\ watch \in {"stopping", "failed"} ~> phase = "closed"

=============================================================================
