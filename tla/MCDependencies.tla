--------------------------- MODULE MCDependencies ---------------------------
(* Instances of Dependencies for TLC: a task with two repodeps, each of   *)
(* which names any two tasks, itself included.                            *)
EXTENDS Dependencies, TLC

CONSTANTS main, lib, include, keep, drop, numa

MCTasks == {main, lib, include}
MCHard == (main :> <<keep, drop>>) @@ (lib :> <<drop>>) @@ (include :> <<>>)
MCSoft == <<numa>>
Lists == {<<>>} \cup {<<t>> : t \in MCTasks}
         \cup {<<t, u>> : t \in MCTasks, u \in MCTasks}
MCGraphs == {g \in [MCTasks -> Lists] :
                /\ g[main] = <<lib, include>>
                /\ \A t \in MCTasks : Len(g[t]) = 2 => g[t][1] # g[t][2]}
=============================================================================
