------------------------------- MODULE Client ------------------------------
(***************************************************************************)
(* client.c: the restraint command runs a job without a lab controller.    *)
(* It starts "ssh host restraintd --stdin" for each recipe, reads the      *)
(* messages that restraintd prints instead of sending them, keeps what     *)
(* they say in the XML of the job and writes it to job.xml with each       *)
(* status.  A connection that ends too early is tried again; the lab       *)
(* watchdog is a timer of the client.  The client may be killed and run    *)
(* again on the same directory.                                            *)
(*                                                                         *)
(* The hosts are external: a host runs the tasks that the XML it is given  *)
(* does not call finished.  Left out: the text and the files of the logs,  *)
(* the message of a status (restraint_task_status never sends one), a      *)
(* fork that fails (module Process), and the roles of the hosts.  Writing  *)
(* job.xml is one step: that put_doc truncates the file and is killed      *)
(* before it has written it, or cannot open it, is left out as well.       *)
(***************************************************************************)
EXTENDS Naturals, Sequences, FiniteSets

CONSTANTS Recipe,          (* recipes of the job, one host each            *)
          Tasks,           (* how many tasks each has                      *)
          Results,         (* what a task may report                       *)
          MaxRetries,      (* --conn-retries                               *)
          MaxPipe,         (* bound: unread messages of a host             *)
          MaxEvents        (* bound: reports of the tasks, connections in  *)
                           (* use that are lost, and kills of the client   *)

ASSUME ClientAssumption ==
    /\ IsFiniteSet(Recipe) /\ Tasks \in [Recipe -> Nat \ {0}]
    /\ Results \subseteq {"SKIP", "PASS", "WARN", "FAIL"}
    /\ {MaxRetries, MaxPipe, MaxEvents} \subseteq Nat

VARIABLES
    main,        (* the main loop: running, quit requested, returned, ...  *)
    doc,         (* app_data->xml_doc                                      *)
    saved,       (* job.xml in the run directory                           *)
    started,     (* app_data->started                                      *)
    retries,     (* app_data->conn_retries                                 *)
    error,       (* app_data->error                                        *)
    conn,        (* what each recipe has in the main loop                  *)
    cancelled,   (* its cancellable                                        *)
    timer,       (* its watchdog_timeout_cb is armed                       *)
    link,        (* its child process                                      *)
    pipe,        (* the output of that process not read yet                *)
    host,        (* the task of the host, and whether it has begun         *)
    events,      (* counter for the bound                                  *)
    owed         (* history: results sent, but for those that were lost    *)

recipeVars == <<conn, cancelled, timer>>
hostVars == <<link, pipe, host, owed>>
appVars == <<doc, saved, started, retries, error>>
vars == <<main, appVars, recipeVars, hostVars, events>>

Job == UNION {{r} \X (1 .. Tasks[r]) : r \in Recipe}
JobOf(r) == {t \in Job : t[1] = r}
NoHost == [task |-> 0, stage |-> "off"]

-----------------------------------------------------------------------------
(* Results and states.  A string the table of the client does not have has *)
(* the number 0.                                                           *)
Id(result) == CASE result = "SKIPPED" -> 1
                [] result = "PASS" -> 2
                [] result = "WARN" -> 3
                [] result = "FAIL" -> 4
                [] OTHER -> 0

Higher(new, old) == IF Id(new) > Id(old) THEN new ELSE old

(* record_result: pushed up from the result to the task and the recipe.    *)
Recorded_byRecipe(d, t, result) ==
    IF Id(result) > Id(d.recipeResult[t[1]])
      THEN [d EXCEPT !.result[t] = result, !.recipeResult[t[1]] = result]
      ELSE d

Recorded(d, t, result) ==
    [d EXCEPT !.result[t] = Higher(result, @),
              !.recipeResult[t[1]] = Higher(result, @)]

(* The status of the task is that of the recipe, until one is aborted.     *)
StatusSet_overwritten(d, t, status) ==
    [d EXCEPT !.status[t] = status, !.recipeStatus[t[1]] = status]

StatusSet(d, t, status) ==
    [d EXCEPT !.status[t] = status,
              !.recipeStatus[t[1]] = IF @ = "Aborted" THEN @ ELSE status]

Finished(d, job) == \A t \in job : d.status[t] \in {"Completed", "Aborted"}

(* recipe_finish: what was not finished is aborted.                        *)
Open(d, r) == {t \in JobOf(r) : d.status[t] \in {"New", "Running"}}
Closed(d, r) ==
    [d EXCEPT !.status = [t \in Job |-> IF t \in Open(d, r) THEN "Aborted"
                                                            ELSE @[t]],
              !.recipeStatus[r] = IF Open(d, r) = {} THEN @ ELSE "Aborted"]

Failed_failOnly(d, r) == \E t \in JobOf(r) : d.result[t] = "FAIL"
Failed(d, r) == \E t \in JobOf(r) : d.result[t] \notin {"PASS", "SKIPPED"}

(* History: of what was sent for the tasks of job, what d has.             *)
Got(d, job) ==
    [t \in Job |-> IF t \in job
                     THEN {s \in owed[t] : Id(s) <= Id(d.result[t])}
                     ELSE owed[t]]

-----------------------------------------------------------------------------
(* The start, with --job, or with --run and the job.xml there is.          *)
NewDoc == [status |-> [t \in Job |-> "New"],
           result |-> [t \in Job |-> "None"],
           recipeStatus |-> [r \in Recipe |-> "New"],
           recipeResult |-> [r \in Recipe |-> "None"]]

Init ==
    /\ main = "running" /\ doc = NewDoc /\ saved = NewDoc
    /\ started = FALSE /\ retries = 0 /\ error = "none"
    /\ conn = [r \in Recipe |-> "idle"]
    /\ cancelled = [r \in Recipe |-> FALSE]
    /\ timer = [r \in Recipe |-> TRUE]
    /\ link = [r \in Recipe |-> "none"]
    /\ pipe = [r \in Recipe |-> <<>>]
    /\ host = [r \in Recipe |-> NoHost]
    /\ owed = [t \in Job |-> {}] /\ events = 0

Running == main \in {"running", "quitting"}

(* The ssh processes go with the client.  It is not killed between the     *)
(* open and the end of a write of job.xml.                                 *)
Kill ==
    /\ Running /\ events < MaxEvents
    /\ main' = "killed" /\ events' = events + 1
    /\ conn' = [r \in Recipe |-> "idle"]
    /\ link' = [r \in Recipe |-> "none"]
    /\ pipe' = [r \in Recipe |-> <<>>]
    /\ host' = [r \in Recipe |-> NoHost]
    /\ owed' = Got(saved, Job)
    /\ UNCHANGED <<appVars, cancelled, timer>>

Restart ==
    /\ main = "killed"
    /\ main' = IF Finished(saved, Job) THEN "nothing to do" ELSE "running"
    /\ doc' = saved
    /\ started' = FALSE /\ retries' = 0 /\ error' = "none"
    /\ cancelled' = [r \in Recipe |-> FALSE]
    /\ timer' = [r \in Recipe |-> TRUE]
    /\ UNCHANGED <<saved, conn, hostVars, events>>

-----------------------------------------------------------------------------
(* The hosts (external).  A host that was given the XML begins with its    *)
(* first task not finished, as a new one or with a part of it done.        *)
Todo(d, r) == {i \in 1 .. Tasks[r] : ~Finished(d, {<<r, i>>})}
FirstTodo(d, r) ==
    IF Todo(d, r) = {} THEN Tasks[r] + 1
    ELSE CHOOSE i \in Todo(d, r) : \A j \in Todo(d, r) : i <= j

HostAt(i, stage) == [task |-> i, stage |-> stage]
Message(r, kind, value) ==
    [kind |-> kind, task |-> <<r, host[r].task>>, value |-> value]

Sends(r, message) ==
    /\ Running /\ link[r] = "up" /\ Len(pipe[r]) < MaxPipe
    /\ pipe' = [pipe EXCEPT ![r] = Append(@, message)]
    /\ UNCHANGED <<main, appVars, recipeVars>>

HostStarts(r) ==
    /\ host[r].stage = "new"
    /\ Sends(r, Message(r, "status", "Running"))
    /\ host' = [host EXCEPT ![r].stage = "running"]
    /\ UNCHANGED <<link, owed, events>>

HostReports(r) ==
    /\ host[r].stage = "running" /\ events < MaxEvents
    /\ events' = events + 1
    /\ UNCHANGED <<host, link>>
    /\ \/ \E result \in Results :
              /\ Sends(r, Message(r, "result", result))
              /\ owed' = [owed EXCEPT ![<<r, host[r].task>>] = @ \cup {result}]
       \/ Sends(r, Message(r, "watchdog", "")) /\ UNCHANGED owed

(* After the last task restraintd exits, and ssh returns 0.                *)
Begun(r, i, stage) ==
    /\ host' = [host EXCEPT ![r] = HostAt(i, stage)]
    /\ link' = [link EXCEPT ![r] = IF i > Tasks[r] THEN "ended" ELSE "up"]

HostEnds(r) ==
    /\ host[r].stage = "running"
    /\ \E status \in {"Completed", "Aborted"} :
          Sends(r, Message(r, "status", status))
    /\ Begun(r, host[r].task + 1, "new")
    /\ UNCHANGED <<owed, events>>

(* A connection in use is lost: ssh returns 255.                           *)
Drop(r) ==
    /\ Running /\ link[r] = "up" /\ events < MaxEvents
    /\ events' = events + 1
    /\ link' = [link EXCEPT ![r] = "failed"]
    /\ UNCHANGED <<main, appVars, recipeVars, pipe, host, owed>>

-----------------------------------------------------------------------------
(* The main loop of the client.                                            *)

(* run_recipe_handler, an idle source and then the timer of a retry.  No   *)
(* connection may be possible, and a cancelled cancellable kills the new   *)
(* process at once.  A host that was reached before may have begun.        *)
RunRecipe(r) ==
    /\ Running /\ conn[r] \in {"idle", "waiting"}
    /\ conn' = [conn EXCEPT ![r] = "up"]
    /\ \/ /\ link' = [link EXCEPT ![r] = "failed"]
          /\ UNCHANGED host
       \/ /\ ~cancelled[r]
          /\ \E stage \in {"new", "running"} :
                /\ stage = "running" => events > 0
                /\ Begun(r, FirstTodo(doc, r), stage)
    /\ UNCHANGED <<main, appVars, cancelled, timer, pipe, owed, events>>

(* remote_io_callback, handle_message and the callback of the path.        *)
StatusCallback(t, status) ==
    /\ started' = TRUE
    /\ doc' = StatusSet(doc, t, status)
    /\ saved' = doc'
    /\ UNCHANGED timer

ResultsCallback(t, result) ==
    /\ started' = TRUE
    /\ doc' = Recorded(doc, t, result)
    /\ UNCHANGED <<saved, timer>>

WatchdogCallback(r) ==
    /\ timer' = [timer EXCEPT ![r] = TRUE]
    /\ UNCHANGED <<doc, saved, started>>

ReadMessage(r) ==
    /\ Running /\ conn[r] = "up" /\ pipe[r] # <<>>
    /\ pipe' = [pipe EXCEPT ![r] = Tail(@)]
    /\ retries' = 0
    /\ LET message == Head(pipe[r]) IN
          \/ /\ message.kind = "status"
             /\ StatusCallback(message.task, message.value)
          \/ /\ message.kind = "result"
             /\ ResultsCallback(message.task, message.value)
          \/ /\ message.kind = "watchdog"
             /\ WatchdogCallback(r)
    /\ UNCHANGED <<main, error, conn, cancelled, link, host, owed, events>>

(* The child watch closes the output: what was not read is lost.           *)
MayRetry(r) ==
    /\ started
    /\ ~Finished(doc, JobOf(r))
    /\ ~cancelled[r]
    /\ retries < MaxRetries

Retry(r) ==
    /\ MayRetry(r)
    /\ retries' = retries + 1
    /\ conn' = [conn EXCEPT ![r] = "waiting"]
    /\ UNCHANGED <<main, doc, error>>

(* recipe_finish sees the result of each task in the end.                  *)
RecipeFinish(r) ==
    /\ ~MayRetry(r)
    /\ conn' = [conn EXCEPT ![r] = "finished"]
    /\ doc' = Closed(doc, r)
    /\ error' = IF error # "none" THEN error
                ELSE IF link[r] = "failed" THEN "connection"
                ELSE IF Failed(doc, r) THEN "result" ELSE "none"
    /\ main' = IF Finished(doc', Job) THEN "quitting" ELSE main
    /\ UNCHANGED retries

ProcessFinish(r) ==
    /\ Running /\ conn[r] = "up" /\ link[r] # "up"
    /\ Retry(r) \/ RecipeFinish(r)
    /\ link' = [link EXCEPT ![r] = "none"]
    /\ pipe' = [pipe EXCEPT ![r] = <<>>]
    /\ host' = [host EXCEPT ![r] = NoHost]
    /\ owed' = Got(doc, JobOf(r))
    /\ UNCHANGED <<saved, started, cancelled, timer, events>>

(* The lab watchdog.  Nobody removes the timer of a recipe that is done.   *)
Cancelled_errorOnly(r) == UNCHANGED <<cancelled, link>>

Cancelled(r) ==
    /\ cancelled' = [cancelled EXCEPT ![r] = TRUE]
    /\ link' = [link EXCEPT ![r] = IF @ = "up" THEN "failed" ELSE @]

WatchdogTimeout(r) ==
    /\ Running /\ timer[r]
    /\ timer' = [timer EXCEPT ![r] = FALSE]
    /\ error' = IF error = "none" THEN "watchdog" ELSE error
    /\ Cancelled(r)
    /\ UNCHANGED <<main, doc, saved, started, retries, conn, pipe, host, owed,
                   events>>

(* quit_loop_handler, and main writes the results.                         *)
QuitLoop ==
    /\ main = "quitting"
    /\ main' = "exited" /\ saved' = doc
    /\ UNCHANGED <<doc, started, retries, error, recipeVars, hostVars, events>>

Client(r) ==
    RunRecipe(r) \/ ReadMessage(r) \/ ProcessFinish(r) \/ WatchdogTimeout(r)
Host(r) ==
    \/ HostStarts(r) \/ HostReports(r) \/ HostEnds(r) \/ Drop(r)
Next == (\E r \in Recipe : Client(r) \/ Host(r)) \/ QuitLoop \/ Kill \/ Restart

(* The main loop runs every source that is ready, and timers expire.  No   *)
(* host has to do anything.                                                *)
Spec ==
    /\ Init /\ [][Next]_vars
    /\ WF_vars(QuitLoop)
    /\ \A r \in Recipe : /\ WF_vars(RunRecipe(r)) /\ WF_vars(ReadMessage(r))
                         /\ WF_vars(ProcessFinish(r))
                         /\ WF_vars(WatchdogTimeout(r))

-----------------------------------------------------------------------------
States == {"New", "Running", "Completed", "Aborted"}
Doc == [status : [Job -> States], result : [Job -> Results \cup {"None"}],
        recipeStatus : [Recipe -> States],
        recipeResult : [Recipe -> Results \cup {"None"}]]

(* The types: retries never pass --conn-retries, and a process runs only   *)
(* while its recipe waits for it (run_recipe_handler, client.c:1028).  It  *)
(* is checked with RecipeSumsUp.                                           *)
TypeOK ==
    /\ main \in {"running", "quitting", "exited", "killed", "nothing to do"}
    /\ doc \in Doc /\ saved \in Doc
    /\ started \in BOOLEAN /\ retries \in 0 .. MaxRetries
    /\ error \in {"none", "connection", "result", "watchdog"}
    /\ conn \in [Recipe -> {"idle", "up", "waiting", "finished"}]
    /\ cancelled \in [Recipe -> BOOLEAN] /\ timer \in [Recipe -> BOOLEAN]
    /\ \A r \in Recipe : link[r] = "none" <=> conn[r] # "up"
    /\ \A r \in Recipe : conn[r] # "up" => pipe[r] = <<>>

(* What a recipe says is what its tasks say, in memory and in job.xml: its *)
(* result is the highest of theirs, and it is aborted if and only if one   *)
(* of them is (record_result, tasks_status_cb and recipe_finish each keep  *)
(* their half of it, client.c:266, :570 and :1004).                        *)
SumsUp(d) ==
    \A r \in Recipe :
        /\ d.recipeStatus[r] = "Aborted"
               <=> \E t \in JobOf(r) : d.status[t] = "Aborted"
        /\ \A t \in JobOf(r) : Id(d.result[t]) <= Id(d.recipeResult[r])
        /\ \E t \in JobOf(r) : d.result[t] = d.recipeResult[r]
RecipeSumsUp == TypeOK /\ SumsUp(doc) /\ SumsUp(saved)

(* No result is forgotten: what a host printed is on its way or in the     *)
(* result of the task, unless a connection or the client went down first;  *)
(* and the job.xml that calls a task completed has its results, so that a  *)
(* client that continues the job has them too (client.c:240 and :573).     *)
Waiting(t, s) ==
    \E i \in DOMAIN pipe[t[1]] :
        pipe[t[1]][i] = [kind |-> "result", task |-> t, value |-> s]
ResultsKept ==
    \A t \in Job : \A s \in owed[t] :
        /\ \/ main = "killed"
           \/ Id(s) <= Id(doc.result[t])
           \/ Waiting(t, s)
        /\ saved.status[t] = "Completed" => Id(s) <= Id(saved.result[t])

(* When the client exits with success, each task has a good result.  Two   *)
(* exceptions of the code: a job continued with nothing to do is not       *)
(* looked at (client.c:1895), and the client quits as soon as every task   *)
(* is finished, though the process of another recipe, whose results        *)
(* recipe_finish was to look at, is still there (client.c:1019).           *)
NoHiddenFailure ==
    main = "exited" /\ error = "none" =>
        \A t \in Job : conn[t[1]] = "finished"
                          => doc.result[t] \in {"PASS", "SKIPPED"}

(* The documents say of SKIP, PASS, WARN and FAIL that the highest         *)
(* severity received for a task becomes its final result                   *)
(* (docs/commands.rst:436).                                                *)
Severity(result) == CASE result = "SKIP" -> 1
                      [] OTHER -> Id(result)
HighestSeverity ==
    \A t \in Job : doc.status[t] = "Completed" =>
        \A s \in owed[t] : Severity(s) <= Severity(doc.result[t])

(* The client ends, even if a host hangs, is gone, or sends for ever less  *)
(* than its watchdog asks for: retries are counted, the lab watchdog kills *)
(* the connection, and the last recipe to finish ends the main loop        *)
(* (client.c:334, :403 and :1019).                                         *)
ClientEnds == []<>(main \in {"exited", "killed", "nothing to do"})
=============================================================================
