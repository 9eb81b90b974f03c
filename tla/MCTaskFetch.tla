----------------------------- MODULE MCTaskFetch ---------------------------
(* An archive of N entries, fetched from git and with curl.                *)
EXTENDS TaskFetch
=============================================================================
