---------------------------- MODULE MCTaskRunner ----------------------------
(* Instances of TaskRunner for TLC: a recipe of two tasks, the first one  *)
(* fetched from a URL, the second one a package with a testinfo.desc.     *)
EXTENDS TaskRunner

MCPackages == {2}
MCRhtsCompat == {2}
BothModes == {TRUE, FALSE}
LabMode == {FALSE}
LastTask == {NTasks}
NoTask == {}

=============================================================================
