---------------------------- MODULE RecipeLedger ----------------------------
(***************************************************************************)
(* What a recipe looks like from the lab controller: the status of every   *)
(* task, as the status messages of restraintd change it.  This is the      *)
(* promise restraintd makes whatever happens to the machine it runs on:    *)
(* tasks are opened and closed one after the other, a task is closed once, *)
(* and only a task that was opened can be reported "Completed".            *)
(*                                                                         *)
(* `lost' holds the tasks about which the controller refused a message     *)
(* (HTTP 4xx); restraintd drops such a message and goes on, so nothing is  *)
(* promised about the status of a task in `lost', except that it is final. *)
(***************************************************************************)
EXTENDS Naturals

CONSTANT NTasks              (* number of tasks of the recipe              *)

VARIABLES status, lost

ledgerVars == <<status, lost>>

Tasks == 1 .. NTasks
Terminal == {"Completed", "Aborted"}
Status == {"New", "Running"} \cup Terminal

Closed(t) == status[t] \in Terminal \/ t \in lost

(* Task t is next: every task before it is closed.                         *)
Turn(t) == \A u \in 1 .. (t - 1) : Closed(u)

Init == /\ status = [t \in Tasks |-> "New"]
        /\ lost = {}

Open(t) == /\ Turn(t)
           /\ status[t] \notin Terminal
           /\ status' = [status EXCEPT ![t] = "Running"]
           /\ UNCHANGED lost

Close(t, s) == /\ Turn(t)
               /\ status[t] \notin Terminal
               /\ s = "Completed" => status[t] = "Running" \/ t \in lost
               /\ status' = [status EXCEPT ![t] = s]
               /\ UNCHANGED lost

Lose(t) == /\ Turn(t)
           /\ lost' = lost \cup {t}
           /\ UNCHANGED status

Next == \E t \in Tasks : \/ Open(t)
                         \/ \E s \in Terminal : Close(t, s)
                         \/ Lose(t)

Spec == Init /\ [][Next]_ledgerVars

=============================================================================
