------------------------ MODULE MessageQueue_proofs ------------------------
(***************************************************************************)
(* Theorems of MessageQueue.tla, for any set of messages, any delays and   *)
(* any number of lost replies.                                             *)
(***************************************************************************)
EXTENDS MessageQueue, SequenceTheorems, TLAPS

(* The wait grows by half, and never beyond the cap (message.c:72-76).     *)
LEMMA LongerInRange ==
    ASSUME delay \in FirstDelay .. MaxDelay
    PROVE  Longer \in delay .. MaxDelay
<1> DEFINE d == (delay * 3) \div 2
<1>1. delay \in Nat /\ FirstDelay \in Nat /\ MaxDelay \in Nat
    BY DelayAssumption
<1>2. d \in Nat /\ d >= delay
    BY <1>1, SMT
<1> HIDE DEF d
<1>3. Longer = IF d > MaxDelay THEN MaxDelay ELSE d
    BY DEF Longer, d
<1> QED
    BY <1>1, <1>2, <1>3

(* A sequence is its head followed by its tail.                            *)
LEMMA HeadThenTail ==
    ASSUME NEW S, NEW s \in Seq(S), s # <<>>
    PROVE  <<Head(s)>> \o Tail(s) = s
<1>1. /\ Head(s) \in S /\ Tail(s) \in Seq(S) /\ Len(Tail(s)) = Len(s) - 1
      /\ \A i \in 1 .. Len(Tail(s)) : Tail(s)[i] = s[i + 1]
    BY HeadTailProperties
<1>2. <<Head(s)>> \in Seq(S) /\ Len(<<Head(s)>>) = 1 /\ <<Head(s)>>[1] = s[1]
    BY <1>1
<1>3. Len(s) \in Nat
    BY LenProperties
<1>4. /\ <<Head(s)>> \o Tail(s) \in Seq(S)
      /\ Len(<<Head(s)>> \o Tail(s)) = Len(s)
      /\ \A i \in 1 .. Len(s) : (<<Head(s)>> \o Tail(s))[i] =
              IF i <= 1 THEN <<Head(s)>>[i] ELSE Tail(s)[i - 1]
    BY <1>1, <1>2, <1>3, ConcatProperties
<1>5. \A i \in 1 .. Len(s) : (<<Head(s)>> \o Tail(s))[i] = s[i]
    BY <1>1, <1>2, <1>3, <1>4
<1> QED
    BY <1>4, <1>5, SeqEqual

(* Head and tail of a sequence built from them.                            *)
LEMMA HeadTailOfCons ==
    ASSUME NEW S, NEW h \in S, NEW t \in Seq(S)
    PROVE  /\ <<h>> \o t # <<>>
           /\ Head(<<h>> \o t) = h
           /\ Tail(<<h>> \o t) = t
<1> DEFINE s == <<h>> \o t
<1>1. <<h>> \in Seq(S) /\ Len(<<h>>) = 1 /\ <<h>>[1] = h
    OBVIOUS
<1>2. Len(t) \in Nat
    BY LenProperties
<1>3. /\ s \in Seq(S) /\ Len(s) = 1 + Len(t)
      /\ \A i \in 1 .. 1 + Len(t) : s[i] = IF i <= 1 THEN <<h>>[i] ELSE t[i - 1]
    BY <1>1, <1>2, ConcatProperties
<1> HIDE DEF s
<1>4. s # <<>>
    BY <1>2, <1>3, EmptySeq
<1>5. Head(s) = h
    BY <1>1, <1>2, <1>3, <1>4
<1>6. /\ Tail(s) \in Seq(S) /\ Len(Tail(s)) = Len(t)
      /\ \A i \in 1 .. Len(Tail(s)) : Tail(s)[i] = s[i + 1]
    BY <1>2, <1>3, <1>4, HeadTailProperties
<1>7. \A i \in 1 .. Len(t) : s[i + 1] = t[i]
    BY <1>2, <1>3
<1>8. Tail(s) = t
    BY <1>6, <1>7, SeqEqual
<1> QED
    BY <1>4, <1>5, <1>8 DEF s

(* A sequence of one element has an empty tail.                            *)
LEMMA OnlyOne ==
    ASSUME NEW S, NEW s \in Seq(S), s # <<>>, Len(s) <= 1
    PROVE  Tail(s) = <<>> /\ s = <<Head(s)>>
<1>1. Tail(s) \in Seq(S) /\ Len(Tail(s)) = Len(s) - 1 /\ Head(s) \in S
    BY HeadTailProperties
<1>2. Len(s) \in Nat \ {0}
    BY EmptySeq
<1>3. Tail(s) = <<>>
    BY <1>1, <1>2, EmptySeq
<1>4. <<Head(s)>> \in Seq(S)
    BY <1>1
<1> QED
    BY <1>3, <1>4, HeadThenTail, ConcatEmptySeq

(* A step leaves every variable in its type.                               *)
LEMMA TypeStep == TypeOK /\ [Next]_vars => TypeOK'
<1> SUFFICES ASSUME TypeOK, [Next]_vars PROVE TypeOK'
    OBVIOUS
<1> USE DEF TypeOK
<1>1. CASE UNCHANGED vars
    BY <1>1 DEF vars
<1>2. ASSUME NEW m \in Messages, QueueMessage(m) PROVE TypeOK'
  <2>1. active' \in BOOLEAN
      BY <1>2 DEF QueueMessage, WakeHandler
  <2>2. idle' \in Nat
      BY <1>2 DEF QueueMessage, WakeHandler
  <2>3. queue' \in Seq(Messages) /\ put' \in Seq(Messages)
      BY <1>2, AppendProperties DEF QueueMessage
  <2> QED
      BY <1>2, <2>1, <2>2, <2>3 DEF QueueMessage
<1>3. ASSUME Handle, idle' \in Nat, timer' \in Nat PROVE TypeOK'
  <2>1. active' \in BOOLEAN
      BY <1>3 DEF Handle, GoIdle
  <2>2. queue' \in Seq(Messages) /\ flight' \in Seq(Messages)
    <3>1. ASSUME queue # <<>>
          PROVE  Head(queue) \in Messages /\ Tail(queue) \in Seq(Messages)
        BY <3>1, HeadTailProperties
    <3>2. CASE queue = <<>>
      <4>1. UNCHANGED <<queue, flight>>
          BY <1>3, <3>2 DEF Handle
      <4> QED
          BY <4>1
    <3>3. CASE queue # <<>>
      <4>1. flight' = Append(flight, Head(queue)) /\ queue' = Tail(queue)
          BY <1>3, <3>3 DEF Handle
      <4> QED
          BY <3>1, <3>3, <4>1, AppendProperties
    <3> QED
        BY <3>2, <3>3
  <2> QED
      BY <1>3, <2>1, <2>2 DEF Handle
<1>4. CASE MessageHandler
    BY <1>3, <1>4 DEF MessageHandler
<1>5. ASSUME flight # <<>>
      PROVE  Head(flight) \in Messages /\ Tail(flight) \in Seq(Messages)
    BY <1>5, HeadTailProperties
<1>6. ASSUME NEW acted \in BOOLEAN, Succeed(acted) PROVE TypeOK'
    BY <1>5, <1>6, DelayAssumption DEF Succeed
<1>7. ASSUME NEW acted \in BOOLEAN, FailToSend(acted) PROVE TypeOK'
  <2>1. delay' \in FirstDelay .. MaxDelay
      BY <1>7, LongerInRange, DelayAssumption DEF FailToSend
  <2>2. queue' \in Seq(Messages)
      BY <1>5, <1>7, ConcatProperties DEF FailToSend, PushBack
  <2> QED
      BY <1>5, <1>7, <2>1, <2>2 DEF FailToSend
<1> QED
    BY <1>1, <1>2, <1>4, <1>6, <1>7 DEF Next, DaemonStep

(* Every variable keeps its type; in particular the delay of the retries   *)
(* stays between the first delay and the cap.                              *)
THEOREM TypeCorrect == Spec => []TypeOK
<1>1. Init => TypeOK
  <2>1. <<>> \in Seq(Messages)
      BY EmptySeq
  <2>2. FirstDelay \in FirstDelay .. MaxDelay
      BY DelayAssumption
  <2>3. Init => active \in BOOLEAN
      BY DEF Init
  <2> QED
      BY <2>1, <2>2, <2>3 DEF Init, TypeOK
<1> QED
    BY <1>1, TypeStep, PTL DEF Spec

(* The truth queue_active tells: it is set exactly while there is one      *)
(* handler, in the main loop, in a timeout or waiting for a reply.  This   *)
(* is inductive together with the types.                                   *)
THEOREM AlwaysOneHandler == Spec => []OneHandler
<1>1. Init => OneHandler
    BY DEF Init, OneHandler
<1>2. TypeOK /\ OneHandler /\ [Next]_vars => OneHandler'
  <2> SUFFICES ASSUME TypeOK, OneHandler, [Next]_vars PROVE OneHandler'
      OBVIOUS
  <2> USE DEF TypeOK, OneHandler
  <2>0. Len(flight) \in Nat
      BY LenProperties
  <2>1. CASE UNCHANGED vars
      BY <2>1 DEF vars
  <2>2. ASSUME NEW m \in Messages, QueueMessage(m) PROVE OneHandler'
      BY <2>0, <2>2 DEF QueueMessage, WakeHandler
  <2>3. CASE MessageHandler
    <3>1. CASE queue = <<>>
        BY <2>0, <2>3, <3>1 DEF MessageHandler, Handle, GoIdle
    <3>2. CASE queue # <<>>
      <4>1. Head(queue) \in Messages
          BY <3>2, HeadTailProperties
      <4>2. Len(flight') = Len(flight) + 1 /\ active' = active
          BY <2>3, <3>2, <4>1, AppendProperties DEF MessageHandler, Handle
      <4> QED
          BY <2>0, <2>3, <4>2 DEF MessageHandler
    <3> QED
        BY <3>1, <3>2
  <2>4. ASSUME flight # <<>> PROVE Len(Tail(flight)) = Len(flight) - 1
      BY <2>4, HeadTailProperties
  <2>5. ASSUME NEW acted \in BOOLEAN, Succeed(acted) PROVE OneHandler'
    <3>1. /\ Len(flight') = Len(flight) - 1 /\ idle' = idle + 1
          /\ UNCHANGED <<active, timer>>
        BY <2>4, <2>5 DEF Succeed
    <3> QED
        BY <2>0, <3>1
  <2>6. ASSUME NEW acted \in BOOLEAN, FailToSend(acted) PROVE OneHandler'
    <3>1. /\ Len(flight') = Len(flight) - 1 /\ timer' = timer + 1
          /\ UNCHANGED <<active, idle>>
        BY <2>4, <2>6 DEF FailToSend
    <3> QED
        BY <2>0, <3>1
  <2> QED
      BY <2>1, <2>2, <2>3, <2>5, <2>6 DEF Next, DaemonStep
<1> QED
    BY <1>1, <1>2, TypeCorrect, PTL DEF Spec

(* No wakeup is lost: message_handler clears queue_active only when it has *)
(* just seen the queue empty, and queueing a message sets it again.        *)
THEOREM NeverLostWakeup == Spec => []NoLostWakeup
<1>1. Init => NoLostWakeup
    BY DEF Init, NoLostWakeup
<1>2. TypeOK /\ OneHandler /\ NoLostWakeup /\ [Next]_vars => NoLostWakeup'
  <2> SUFFICES ASSUME TypeOK, OneHandler, NoLostWakeup, [Next]_vars
               PROVE  NoLostWakeup'
      OBVIOUS
  <2> USE DEF NoLostWakeup
  <2>1. CASE UNCHANGED vars
      BY <2>1 DEF vars
  <2>2. ASSUME NEW m \in Messages, QueueMessage(m) PROVE NoLostWakeup'
      BY <2>2 DEF QueueMessage, WakeHandler, TypeOK
  <2>3. CASE MessageHandler
      BY <2>3 DEF MessageHandler, Handle, GoIdle
  <2>4. ASSUME NEW acted \in BOOLEAN, Succeed(acted) PROVE NoLostWakeup'
      BY <2>4 DEF Succeed
  <2>5. ASSUME NEW acted \in BOOLEAN, FailToSend(acted) PROVE NoLostWakeup'
    <3>1. flight # <<>> /\ active' = active
        BY <2>5 DEF FailToSend
    <3>2. Len(flight) \in Nat \ {0}
        BY <3>1, EmptySeq DEF TypeOK
    <3>3. active
        BY <3>2 DEF OneHandler, TypeOK
    <3> QED
        BY <3>1, <3>3
  <2> QED
      BY <2>1, <2>2, <2>3, <2>4, <2>5 DEF Next, DaemonStep
<1> QED
    BY <1>1, <1>2, TypeCorrect, AlwaysOneHandler, PTL DEF Spec

(* What the single handler means for the message in flight: there is at    *)
(* most one, and none while the handler is about to be dispatched.         *)
LEMMA AtMostOneInFlight ==
    ASSUME TypeOK, OneHandler
    PROVE  /\ Len(flight) <= 1
           /\ idle > 0 \/ timer > 0 => flight = <<>>
<1>1. Len(flight) \in Nat /\ idle \in Nat /\ timer \in Nat
    BY LenProperties DEF TypeOK
<1>2. idle + timer + Len(flight) <= 1
    BY <1>1 DEF OneHandler
<1>3. ASSUME idle > 0 \/ timer > 0 PROVE Len(flight) = 0
    BY <1>1, <1>2, <1>3
<1>4. Len(flight) = 0 => flight = <<>>
    BY EmptySeq DEF TypeOK
<1> QED
    BY <1>1, <1>2, <1>3, <1>4

(* A dispatch of the handler moves the head of the queue into flight, and  *)
(* the messages without an answer stay what they were.                     *)
LEMMA HandlerKeepsPending ==
    ASSUME TypeOK, OneHandler, MessageHandler
    PROVE  /\ flight' \o queue' = flight \o queue
           /\ UNCHANGED <<put, seen, answered>>
<1>1. flight = <<>> /\ Handle
    BY AtMostOneInFlight DEF MessageHandler, TypeOK
<1>2. CASE queue = <<>>
    BY <1>1, <1>2 DEF Handle
<1>3. CASE queue # <<>>
  <2>1. Head(queue) \in Messages /\ queue \in Seq(Messages)
      BY <1>3, HeadTailProperties DEF TypeOK
  <2>2. flight' = <<Head(queue)>> /\ queue' = Tail(queue)
      BY <1>1, <1>3, <2>1, AppendIsConcat, ConcatEmptySeq DEF Handle
  <2>3. <<Head(queue)>> \o Tail(queue) = queue
      BY <1>3, <2>1, HeadThenTail
  <2>4. flight \o queue = queue
      BY <1>1, <2>1, ConcatEmptySeq
  <2> QED
      BY <1>1, <2>2, <2>3, <2>4 DEF Handle
<1> QED
    BY <1>2, <1>3

(* An answer takes the oldest message away, a failure takes nothing away.  *)
LEMMA ReplyTakesHead ==
    ASSUME TypeOK, OneHandler, flight # <<>>
    PROVE  /\ flight = <<Head(flight)>> /\ Tail(flight) = <<>>
           /\ Head(flight) \in Messages
           /\ flight \o queue = <<Head(flight)>> \o queue
           /\ Tail(flight) \o queue = queue
           /\ Tail(flight) \o (<<Head(flight)>> \o queue) = flight \o queue
<1>1. flight = <<Head(flight)>> /\ Tail(flight) = <<>>
    BY AtMostOneInFlight, OnlyOne DEF TypeOK
<1>2. Head(flight) \in Messages
    BY HeadTailProperties DEF TypeOK
<1>3. <<Head(flight)>> \o queue \in Seq(Messages)
    BY <1>1, ConcatProperties DEF TypeOK
<1>4. Tail(flight) \o queue = queue
    BY <1>1, ConcatEmptySeq DEF TypeOK
<1>5. Tail(flight) \o (<<Head(flight)>> \o queue) = <<Head(flight)>> \o queue
    BY <1>1, <1>3, ConcatEmptySeq
<1>6. flight \o queue = <<Head(flight)>> \o queue
    BY <1>1
<1> QED
    BY <1>1, <1>2, <1>4, <1>5, <1>6

(* Nothing is lost, doubled or overtaken between restraint_queue_message   *)
(* and the callback of the message, failures and push backs included.      *)
THEOREM KeepsOrder == Spec => []InOrder
<1>1. Init => InOrder
  <2>1. <<>> \o <<>> = <<>>
      BY ConcatEmptySeq, EmptySeq
  <2> QED
      BY <2>1 DEF Init, InOrder
<1>2. TypeOK /\ OneHandler /\ InOrder /\ [Next]_vars => InOrder'
  <2> SUFFICES ASSUME TypeOK, OneHandler, InOrder, [Next]_vars PROVE InOrder'
      OBVIOUS
  <2>0. /\ answered \in Seq(Messages) /\ flight \in Seq(Messages)
        /\ queue \in Seq(Messages) /\ flight \o queue \in Seq(Messages)
        /\ put = answered \o (flight \o queue)
    <3>1. /\ answered \in Seq(Messages) /\ flight \in Seq(Messages)
          /\ queue \in Seq(Messages)
        BY DEF TypeOK
    <3>2. (answered \o flight) \o queue = answered \o (flight \o queue)
        BY <3>1, ConcatAssociative
    <3> QED
        BY <3>1, <3>2, ConcatProperties DEF InOrder
  <2>1. /\ answered' \in Seq(Messages) /\ flight' \in Seq(Messages)
        /\ queue' \in Seq(Messages)
      BY TypeStep DEF TypeOK
  <2>00. ASSUME put' = answered' \o (flight' \o queue') PROVE InOrder'
    <3>1. (answered' \o flight') \o queue' = answered' \o (flight' \o queue')
        BY <2>1, ConcatAssociative
    <3> QED
        BY <2>00, <3>1 DEF InOrder
  <2>2. CASE UNCHANGED vars
      BY <2>2 DEF vars, InOrder
  <2>3. ASSUME NEW m \in Messages, QueueMessage(m) PROVE InOrder'
    <3>1. <<m>> \in Seq(Messages)
        OBVIOUS
    <3>2. queue' = queue \o <<m>> /\ put' = put \o <<m>>
        BY <2>3, AppendIsConcat DEF QueueMessage, TypeOK
    <3>3. flight \o (queue \o <<m>>) = (flight \o queue) \o <<m>>
        BY <2>0, <3>1, ConcatAssociative
    <3>4. answered \o ((flight \o queue) \o <<m>>) =
              (answered \o (flight \o queue)) \o <<m>>
        BY <2>0, <3>1, ConcatAssociative
    <3>5. answered' = answered /\ flight' = flight
        BY <2>3 DEF QueueMessage
    <3> QED
        BY <2>0, <2>00, <2>1, <3>2, <3>3, <3>4, <3>5
  <2>4. CASE MessageHandler
      BY <2>0, <2>00, <2>1, <2>4, HandlerKeepsPending
  <2>5. ASSUME NEW acted \in BOOLEAN, Succeed(acted) PROVE InOrder'
    <3> DEFINE h == Head(flight)
    <3>1. /\ flight # <<>> /\ answered' = Append(answered, h)
          /\ flight' = Tail(flight) /\ queue' = queue /\ put' = put
        BY <2>5 DEF Succeed
    <3>2. /\ h \in Messages /\ flight \o queue = <<h>> \o queue
          /\ Tail(flight) \o queue = queue
        BY <3>1, ReplyTakesHead
    <3>3. <<h>> \in Seq(Messages) /\ answered' = answered \o <<h>>
        BY <2>0, <3>1, <3>2, AppendIsConcat, SMTT(30)
    <3>4. answered \o (<<h>> \o queue) = (answered \o <<h>>) \o queue
        BY <2>0, <3>3, ConcatAssociative, SMTT(30)
    <3> QED
        BY <2>0, <2>00, <2>1, <3>1, <3>2, <3>3, <3>4
  <2>6. ASSUME NEW acted \in BOOLEAN, FailToSend(acted) PROVE InOrder'
    <3>1. /\ flight # <<>> /\ answered' = answered /\ put' = put
          /\ flight' = Tail(flight) /\ queue' = <<Head(flight)>> \o queue
        BY <2>6 DEF FailToSend, PushBack
    <3>2. Tail(flight) \o (<<Head(flight)>> \o queue) = flight \o queue
        BY <3>1, ReplyTakesHead
    <3> QED
        BY <2>0, <2>00, <2>1, <3>1, <3>2
  <2> QED
      BY <2>2, <2>3, <2>4, <2>5, <2>6 DEF Next, DaemonStep
<1> QED
    BY <1>1, <1>2, TypeCorrect, AlwaysOneHandler, PTL DEF Spec

(* message.c implements in-order, at-least-once delivery: the messages in  *)
(* flight and in the queue are the pending ones, each reply is an answer,  *)
(* a lost reply at most a delivery, and the rest is internal.              *)
THEOREM ImplementsFifo == Spec => FifoSpec
<1>1. Init => Fifo!Init
  <2>1. <<>> \o <<>> = <<>>
      BY ConcatEmptySeq, EmptySeq
  <2> QED
      BY <2>1 DEF Init, Fifo!Init
<1>2. TypeOK /\ OneHandler /\ [Next]_vars => [Fifo!Next]_(Fifo!fifoVars)
  <2> SUFFICES ASSUME TypeOK, OneHandler, [Next]_vars
               PROVE  Fifo!Next \/ UNCHANGED Fifo!fifoVars
      OBVIOUS
  <2> USE DEF Fifo!fifoVars
  <2>1. CASE UNCHANGED vars
      BY <2>1 DEF vars
  <2>2. ASSUME NEW m \in Messages, QueueMessage(m) PROVE Fifo!Put(m)
    <3>1. /\ flight \in Seq(Messages) /\ queue \in Seq(Messages)
          /\ <<m>> \in Seq(Messages) /\ flight \o queue \in Seq(Messages)
        BY ConcatProperties DEF TypeOK
    <3>2. /\ Append(queue, m) = queue \o <<m>>
          /\ Append(flight \o queue, m) = (flight \o queue) \o <<m>>
        BY <3>1, AppendIsConcat
    <3>3. flight \o (queue \o <<m>>) = (flight \o queue) \o <<m>>
        BY <3>1, ConcatAssociative
    <3> QED
        BY <2>2, <3>2, <3>3 DEF QueueMessage, Fifo!Put
  <2>3. CASE MessageHandler
      BY <2>3, HandlerKeepsPending
  <2>4. ASSUME flight # <<>>
        PROVE  /\ flight \o queue # <<>>
               /\ Head(flight \o queue) = Head(flight)
               /\ Tail(flight \o queue) = queue
    <3>1. /\ Head(flight) \in Messages
          /\ flight \o queue = <<Head(flight)>> \o queue
        BY <2>4, ReplyTakesHead
    <3>2. queue \in Seq(Messages)
        BY DEF TypeOK
    <3> QED
        BY <3>1, <3>2, HeadTailOfCons
  <2>5. ASSUME NEW acted \in BOOLEAN, Succeed(acted) PROVE Fifo!Answer(acted)
    <3>1. flight # <<>> /\ flight' \o queue' = queue
        BY <2>5, ReplyTakesHead DEF Succeed
    <3> QED
        BY <2>4, <2>5, <3>1 DEF Succeed, Fifo!Answer
  <2>6. ASSUME NEW acted \in BOOLEAN, FailToSend(acted)
        PROVE  Fifo!See \/ UNCHANGED Fifo!fifoVars
    <3>1. flight # <<>> /\ flight' \o queue' = flight \o queue
        BY <2>6, ReplyTakesHead DEF FailToSend, PushBack
    <3>2. CASE acted
        BY <2>4, <2>6, <3>1, <3>2 DEF FailToSend, Fifo!See
    <3>3. CASE ~acted
        BY <2>6, <3>1, <3>3 DEF FailToSend
    <3> QED
        BY <3>2, <3>3
  <2> QED
      BY <2>1, <2>2, <2>3, <2>5, <2>6 DEF Next, DaemonStep, Fifo!Next
<1> QED
    BY <1>1, <1>2, TypeCorrect, AlwaysOneHandler, PTL
    DEF Spec, FifoSpec, Fifo!Spec

(* The wait before a retry gets shorter only when a message was answered.  *)
THEOREM WaitsBackOff == Spec => BacksOff
<1>1. TypeOK /\ OneHandler /\ [Next]_vars =>
          [delay' < delay => answered' # answered]_vars
  <2> SUFFICES ASSUME TypeOK, OneHandler, [Next]_vars, delay' < delay
               PROVE  answered' # answered
      OBVIOUS
  <2>1. delay \in Nat
      BY DelayAssumption DEF TypeOK
  <2>2. ASSUME delay' = delay PROVE FALSE
      BY <2>1, <2>2
  <2>3. ASSUME NEW acted \in BOOLEAN, FailToSend(acted) PROVE FALSE
    <3>1. delay' \in delay .. MaxDelay
        BY <2>3, LongerInRange DEF FailToSend, TypeOK
    <3> QED
        BY <2>1, <3>1, DelayAssumption
  <2>4. ASSUME NEW acted \in BOOLEAN, Succeed(acted) PROVE answered' # answered
    <3>1. /\ answered' = Append(answered, Head(flight))
          /\ Head(flight) \in Messages /\ answered \in Seq(Messages)
        BY <2>4, ReplyTakesHead DEF Succeed, TypeOK
    <3>2. Len(answered') = Len(answered) + 1 /\ Len(answered) \in Nat
        BY <3>1, AppendProperties, LenProperties
    <3> QED
        BY <3>2
  <2>5. CASE UNCHANGED vars
      BY <2>2, <2>5 DEF vars
  <2>6. ASSUME NEW m \in Messages, QueueMessage(m) PROVE FALSE
      BY <2>2, <2>6 DEF QueueMessage
  <2>7. CASE MessageHandler
      BY <2>2, <2>7 DEF MessageHandler, Handle
  <2> QED
      BY <2>3, <2>4, <2>5, <2>6, <2>7 DEF Next, DaemonStep
<1> QED
    BY <1>1, TypeCorrect, AlwaysOneHandler, PTL DEF Spec, BacksOff

=============================================================================
