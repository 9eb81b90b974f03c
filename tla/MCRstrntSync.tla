---------------------------- MODULE MCRstrntSync ----------------------------
(* An instance of RstrntSync for TLC: two tasks that set a state each, one *)
(* script that waits for the first, one for the second or the first.       *)
EXTENDS RstrntSync

CONSTANTS s1, s2, b1, b2

MCStates == {"e1", "e2"}
MCSets == [s \in {s1, s2} |-> IF s = s1 THEN "e1" ELSE "e2"]
MCWanted == [b \in {b1, b2} |-> IF b = b1 THEN <<"e1">> ELSE <<"e2", "e1">>]

=============================================================================
