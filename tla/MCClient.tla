------------------------------ MODULE MCClient -----------------------------
(* Two hosts; one has two tasks and one has one.                           *)
EXTENDS Client

CONSTANTS a, b
MCTasks == [r \in Recipe |-> IF r = a THEN 2 ELSE 1]
=============================================================================
