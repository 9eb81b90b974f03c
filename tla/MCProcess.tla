------------------------------ MODULE MCProcess ------------------------------
(* Instances of Process for TLC: a heartbeat of three seconds; budgets    *)
(* below, of and above one heartbeat, and none; adjustments of 0 and of   *)
(* less and more than a heartbeat, before the fork and after it.          *)
EXTENDS Process

MCBudgets == {0, 2, 3, 5}
MCAdjustments == {0, 1, 4}

=============================================================================
