----------------------------- MODULE MCTaskLog ------------------------------
(* Instances of TaskLog for TLC.                                          *)
EXTENDS TaskLog
=============================================================================
