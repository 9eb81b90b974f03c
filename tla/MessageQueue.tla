---------------------------- MODULE MessageQueue ----------------------------
(***************************************************************************)
(* message.c: the queue of messages to the lab controller.  One handler    *)
(* moves round between an idle source, a message in flight and, after a    *)
(* failure, a timeout whose length grows; queue_active says that there is  *)
(* one.  Nothing but queue_active keeps a second handler from being added, *)
(* and nothing but the handler looks at the queue.                         *)
(*                                                                         *)
(* TaskRunner.tla uses this queue through what FifoDelivery.tla promises.  *)
(***************************************************************************)
EXTENDS Naturals, Sequences

CONSTANTS Messages,        (* what is queued, each once                    *)
          FirstDelay,      (* static gint delay = 2                        *)
          MaxDelay,        (* 625                                          *)
          MaxLosses        (* bound: replies lost or 5xx                   *)

ASSUME DelayAssumption ==
    /\ FirstDelay \in Nat \ {0, 1} /\ MaxDelay \in Nat
    /\ FirstDelay <= MaxDelay /\ MaxLosses \in Nat

VARIABLES
    queue,      (* message_queue                                           *)
    active,     (* queue_active                                            *)
    idle,       (* message_handler sources in the main loop                *)
    timer,      (* message_handler timeouts                                *)
    flight,     (* messages given to soup_session_queue_message            *)
    delay,      (* the static delay of message_complete                    *)
    put,        (* history: messages queued, in order                      *)
    seen,       (* history: messages the controller acted on, in order     *)
    answered,   (* history: messages completed, in order                   *)
    losses      (* counter for the bound                                   *)

vars == <<queue, active, idle, timer, flight, delay, put, seen, answered,
          losses>>

Elements(s) == {s[i] : i \in 1 .. Len(s)}

Init ==
    /\ queue = <<>> /\ active = FALSE /\ idle = 0 /\ timer = 0
    /\ flight = <<>> /\ delay = FirstDelay
    /\ put = <<>> /\ seen = <<>> /\ answered = <<>> /\ losses = 0

WakeHandler_always ==
    idle' = idle + 1 /\ active' = TRUE

(* Add the message handler to the main loop if it is not running already. *)
WakeHandler ==
    IF active THEN UNCHANGED <<idle, active>>
              ELSE idle' = idle + 1 /\ active' = TRUE

QueueMessage(m) ==
    /\ m \notin Elements(put)
    /\ queue' = Append(queue, m) /\ put' = Append(put, m)
    /\ WakeHandler
    /\ UNCHANGED <<timer, flight, delay, seen, answered, losses>>

GoIdle_stillActive == UNCHANGED active

GoIdle == active' = FALSE

(* One dispatch, from the idle source or from the timeout (rest says      *)
(* which is used up): nothing to send, or the head goes into flight.      *)
Handle ==
    /\ \/ /\ queue = <<>> /\ GoIdle
          /\ UNCHANGED <<queue, flight>>
       \/ /\ queue # <<>>
          /\ flight' = Append(flight, Head(queue)) /\ queue' = Tail(queue)
          /\ UNCHANGED active
    /\ UNCHANGED <<delay, put, seen, answered, losses>>

MessageHandler ==
    \/ idle > 0 /\ idle' = idle - 1 /\ UNCHANGED timer /\ Handle
    \/ timer > 0 /\ timer' = timer - 1 /\ UNCHANGED idle /\ Handle

(* message_complete on a 2xx (the controller acted on it) or a 4xx.       *)
Succeed(acted) ==
    /\ flight # <<>>
    /\ seen' = IF acted THEN Append(seen, Head(flight)) ELSE seen
    /\ answered' = Append(answered, Head(flight))
    /\ flight' = Tail(flight)
    /\ delay' = FirstDelay /\ idle' = idle + 1
    /\ UNCHANGED <<queue, active, timer, put, losses>>

PushBack_atTail == queue' = Append(queue, Head(flight))

PushBack == queue' = <<Head(flight)>> \o queue

Longer_uncapped == (delay * 3) \div 2

Longer == LET d == (delay * 3) \div 2 IN IF d > MaxDelay THEN MaxDelay ELSE d

(* Anything else: a 5xx, or no reply (the controller may have acted).     *)
FailToSend(acted) ==
    /\ flight # <<>> /\ losses < MaxLosses
    /\ losses' = losses + 1
    /\ seen' = IF acted THEN Append(seen, Head(flight)) ELSE seen
    /\ flight' = Tail(flight)
    /\ PushBack
    /\ delay' = Longer /\ timer' = timer + 1
    /\ UNCHANGED <<active, idle, put, answered>>

DaemonStep == MessageHandler \/ \E acted \in BOOLEAN : Succeed(acted)

Next == \/ \E m \in Messages : QueueMessage(m)
        \/ DaemonStep
        \/ \E acted \in BOOLEAN : FailToSend(acted)

Spec == Init /\ [][Next]_vars

(* The main loop dispatches, and the controller answers in the end.       *)
FairSpec == Spec /\ WF_vars(DaemonStep)

----------------------------------------------------------------------------
(* Every variable has its type, and the wait before a retry lies between  *)
(* the first delay and the cap.                                           *)
TypeOK ==
    /\ queue \in Seq(Messages) /\ active \in BOOLEAN
    /\ idle \in Nat /\ timer \in Nat /\ flight \in Seq(Messages)
    /\ delay \in FirstDelay .. MaxDelay
    /\ put \in Seq(Messages) /\ seen \in Seq(Messages)
    /\ answered \in Seq(Messages) /\ losses \in Nat

(* queue_active tells the truth: it is set exactly while one handler is   *)
(* somewhere between its sources and the network, and there is never a    *)
(* second one, which would send two messages at a time and out of order.  *)
OneHandler == idle + timer + Len(flight) = IF active THEN 1 ELSE 0

(* A message waiting in the queue has a handler coming for it.            *)
NoLostWakeup == queue # <<>> => active

(* No message is lost, doubled or overtaken on its way through the queue, *)
(* the flight, a failure and the push back to the head.                   *)
InOrder == answered \o flight \o queue = put

(* While the controller is failing the waits do not get shorter.          *)
BacksOff == [][delay' < delay => answered' # answered]_vars

(* The queue implements in-order, at-least-once delivery.                 *)
Fifo == INSTANCE FifoDelivery WITH pending <- flight \o queue
FifoSpec == Fifo!Spec

(* Every message queued is answered.                                      *)
EveryMessageAnswered ==
    \A m \in Messages : m \in Elements(put) ~> m \in Elements(answered)

=============================================================================
