--------------------------- MODULE MCMessageQueue ---------------------------
(* An instance of MessageQueue for TLC.                                     *)
EXTENDS MessageQueue

CONSTANTS m1, m2, m3
MCMessages == {m1, m2, m3}

=============================================================================
