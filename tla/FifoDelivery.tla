---------------------------- MODULE FifoDelivery ----------------------------
(***************************************************************************)
(* What restraint_queue_message promises to the rest of restraintd: the    *)
(* messages given to it reach the lab controller in the order they were    *)
(* given, the oldest unanswered one possibly more than once, and each is   *)
(* answered once, in that order.                                           *)
(***************************************************************************)
EXTENDS Sequences

CONSTANT Messages

VARIABLES pending,   (* messages without an answer, oldest first           *)
          seen,      (* the messages the controller acted on, in order     *)
          answered   (* the messages whose callback has run, in order      *)

fifoVars == <<pending, seen, answered>>

Init == pending = <<>> /\ seen = <<>> /\ answered = <<>>

Put(m) == /\ pending' = Append(pending, m)
          /\ UNCHANGED <<seen, answered>>

(* The controller sees the oldest message, perhaps again.                  *)
See == /\ pending # <<>>
       /\ seen' = Append(seen, Head(pending))
       /\ UNCHANGED <<pending, answered>>

(* Its answer may be that it acted on the message now, or that it refused. *)
Answer(now) ==
    /\ pending # <<>>
    /\ pending' = Tail(pending)
    /\ answered' = Append(answered, Head(pending))
    /\ seen' = IF now THEN Append(seen, Head(pending)) ELSE seen

Next == \/ \E m \in Messages : Put(m)
        \/ See
        \/ \E now \in BOOLEAN : Answer(now)

Spec == Init /\ [][Next]_fifoVars

=============================================================================
