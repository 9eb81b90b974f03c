----------------------------- MODULE TaskRunner -----------------------------
(***************************************************************************)
(* restraintd running one recipe: recipe_handler (recipe.c) and            *)
(* task_handler (task.c) as GLib sources of one main loop, the operations  *)
(* they start and whose callbacks re-add task_handler, the requests of the *)
(* rstrnt commands (server.c), the outgoing message queue (message.c, here *)
(* a FIFO: MessageQueue.tla is the detailed one), the config file that     *)
(* survives a reboot (config.c) and the lab controller at the other end.   *)
(*                                                                         *)
(* One step is one dispatch of one source, from the top of the handler to  *)
(* its return: the main loop never preempts a callback.  A reboot may come *)
(* between any two steps, inside TASK_RUN between the fork and the two     *)
(* writes to the config file, and inside TASK_COMPLETED between the end    *)
(* printed to the client and the removal of the section.                   *)
(***************************************************************************)
EXTENDS Naturals, Sequences

CONSTANTS
    NTasks,                  (* tasks of the recipe                        *)
    Packages,                (* tasks fetched with rstrnt-package          *)
    RhtsCompat,              (* tasks with a testinfo.desc (rhts_compat)   *)
    RECIPE_FETCH_RETRIES, TASK_FETCH_RETRIES, ROLE_REFRESH_RETRIES,
    Modes,                   (* possible values of app_data->stdin         *)
    Refusable,               (* tasks whose messages may be answered 4xx   *)
    Unreadable,              (* tasks whose section may fail to be read    *)
    MaxBoots, MaxRequests    (* bounds: reboots, requests of rstrnt-*      *)

Tasks == 1 .. NTasks

ASSUME RunnerAssumption ==
    /\ NTasks \in Nat \ {0}
    /\ Packages \subseteq Tasks /\ RhtsCompat \subseteq Tasks
    /\ Refusable \subseteq Tasks /\ Unreadable \subseteq Tasks
    /\ Modes \subseteq BOOLEAN
    /\ RECIPE_FETCH_RETRIES \in Nat /\ TASK_FETCH_RETRIES \in Nat
    /\ ROLE_REFRESH_RETRIES \in Nat /\ MaxBoots \in Nat /\ MaxRequests \in Nat

VARIABLES
    stdin,       (* app_data->stdin: run by the restraint client          *)
    daemon,      (* the process: "up", "down" (died) or "exited"          *)
    rstate,      (* app_data->state                                       *)
    rsrc,        (* recipe_handler and what will move it on               *)
    rerror,      (* app_data->error is set                                *)
    retries,     (* app_data->fetch_retries, shared by the three retries  *)
    tasks,       (* app_data->tasks: the current task, 0 for NULL         *)
    finished,    (* tasks whose status in the recipe XML is terminal      *)
    task,        (* the struct of the current task                        *)
    src,         (* task_handler and the operations that will re-add it   *)
    cancelled,   (* app_data->cancellable                                 *)
    aborted,     (* app_data->aborted                                     *)
    queue,       (* outgoing messages, oldest first                       *)
    config,      (* the config file: the group task_id of each task       *)
    srv,         (* lab controller: status of each task                   *)
    ewd,         (* lab controller: tasks whose external watchdog was set *)
    refused,     (* lab controller: tasks about which it answered 4xx     *)
    runs,        (* history: times the task's command was forked          *)
    abortedAt,   (* history: current task when the recipe was aborted, or 0 *)
    nboots, nreqs (* counters for the bounds                               *)

recipeVars  == <<rstate, rsrc, rerror>>
cancelVars  == <<cancelled, aborted, abortedAt>>
serverVars  == <<srv, ewd, refused>>
boundVars   == <<nboots, nreqs>>
vars == <<stdin, daemon, recipeVars, retries, tasks, finished, task, src,
          cancelVars, queue, config, serverVars, runs, boundVars>>

----------------------------------------------------------------------------
RecipeStates == {"RECIPE_IDLE", "RECIPE_FETCH", "RECIPE_FETCHING",
                 "RECIPE_PARSE", "RECIPE_RUN", "RECIPE_RUNNING",
                 "RECIPE_COMPLETE"}
RecipeSources == {"recipe_handler", "recipe_xml", "fetch_retry"}

TaskStates == {"TASK_IDLE", "TASK_FETCH", "TASK_METADATA_PARSE",
               "TASK_REFRESH_ROLES", "TASK_ENV", "TASK_WATCHDOG",
               "TASK_DEPENDENCIES", "TASK_RUN", "TASK_COMPLETE",
               "TASK_COMPLETED", "TASK_NEXT"}

(* The idle source and every operation whose completion re-adds it; a     *)
(* message with task_message_complete as its callback is in `queue'.      *)
TaskSources == {"task_handler", "fetch", "task_fetch_retry", "package",
                "metadata", "roles", "refresh_role_retry", "dependencies",
                "task_run", "plugins"}

Terminal == {"Completed", "Aborted"}
StatusKinds == {"Running"} \cup Terminal
CallbackKinds == StatusKinds \cup {"watchdog"}      \* task_message_complete
ForwardKinds == {"report", "forward"}               \* server_msg_complete
Message == [kind : CallbackKinds \cup {"result"} \cup ForwardKinds,
            task : Tasks]
Msg(k) == [kind |-> k, task |-> tasks]

(* The group task_id of the config file.  The offsets of the logs are in a *)
(* group of their own, offsets_<task_id>, which nothing removes: it is     *)
(* `saved' in TaskLog.tla, and no state below depends on it.               *)
Section == [started : BOOLEAN, localwatchdog : BOOLEAN, reboots : Nat]
EmptySection == [started |-> FALSE, localwatchdog |-> FALSE, reboots |-> 0]

Task == [state : TaskStates, started : BOOLEAN, localwatchdog : BOOLEAN,
         reboots : Nat, results_reported : BOOLEAN, metadata : BOOLEAN,
         env : BOOLEAN, error : BOOLEAN]

(* restraint_task_new: everything zero, TASK_IDLE being the first state.  *)
NewTask == [state |-> "TASK_IDLE", started |-> FALSE, localwatchdog |-> FALSE,
            reboots |-> 0, results_reported |-> FALSE, metadata |-> FALSE,
            env |-> FALSE, error |-> FALSE]

----------------------------------------------------------------------------
(* The process starts: main() schedules recipe_handler, with the recipe   *)
(* URL of the config file or, under --stdin, with the XML being read.     *)
BootState(s) == IF s THEN "RECIPE_FETCHING" ELSE "RECIPE_FETCH"
BootSources(s) == {"recipe_handler"} \cup (IF s THEN {"recipe_xml"} ELSE {})

Init ==
    /\ stdin \in Modes
    /\ daemon = "up" /\ rerror = FALSE /\ retries = 0 /\ tasks = 0
    /\ finished = {} /\ task = NewTask /\ src = {} /\ queue = <<>>
    /\ cancelled = FALSE /\ aborted = "NONE" /\ abortedAt = 0
    /\ rstate = BootState(stdin) /\ rsrc = BootSources(stdin)
    /\ config = [t \in Tasks |-> EmptySection]
    /\ srv = [t \in Tasks |-> "New"] /\ ewd = {} /\ refused = {}
    /\ runs = [t \in Tasks |-> 0]
    /\ nboots = 0 /\ nreqs = 0

(* Everything the process holds in memory is gone.                        *)
Forget ==
    /\ rerror' = FALSE /\ retries' = 0 /\ tasks' = 0 /\ finished' = {}
    /\ task' = NewTask /\ src' = {} /\ queue' = <<>>
    /\ cancelled' = FALSE /\ aborted' = "NONE" /\ abortedAt' = 0

Dies(how) ==
    /\ daemon' = how /\ Forget
    /\ rstate' = "RECIPE_IDLE" /\ rsrc' = {}

----------------------------------------------------------------------------
(* The recipe handler and its fetch.                                      *)
RecipeStep(state) ==
    /\ daemon = "up" /\ "recipe_handler" \in rsrc /\ rstate = state
    /\ UNCHANGED <<stdin, src, queue, config, serverVars, runs, boundVars,
                   aborted, abortedAt>>

(* Under --stdin a retry calls restraint_xml_parse_from_url with no URL,  *)
(* which returns without ever calling back.                               *)
RecipeFetch ==
    /\ RecipeStep("RECIPE_FETCH")
    /\ rstate' = "RECIPE_FETCHING"
    /\ rsrc' = rsrc \cup (IF stdin THEN {} ELSE {"recipe_xml"})
    /\ UNCHANGED <<daemon, rerror, retries, tasks, finished, task, cancelled>>

RecipeFetchCompleted(ok) ==
    /\ daemon = "up" /\ "recipe_xml" \in rsrc
    /\ \/ /\ ok
          /\ rstate' = "RECIPE_PARSE" /\ rsrc' = rsrc \ {"recipe_xml"}
          /\ UNCHANGED <<rerror, retries>>
       \/ /\ ~ok /\ retries < RECIPE_FETCH_RETRIES
          /\ retries' = retries + 1
          /\ rsrc' = (rsrc \ {"recipe_xml"}) \cup {"fetch_retry"}
          /\ UNCHANGED <<rstate, rerror>>
       \/ /\ ~ok /\ retries >= RECIPE_FETCH_RETRIES
          /\ rstate' = "RECIPE_COMPLETE" /\ rerror' = TRUE
          /\ rsrc' = rsrc \ {"recipe_xml"}
          /\ UNCHANGED retries
    /\ UNCHANGED <<stdin, daemon, tasks, finished, task, src, cancelVars,
                   queue, config, serverVars, runs, boundVars>>

RecipeFetchRetry ==
    /\ daemon = "up" /\ "fetch_retry" \in rsrc
    /\ rstate' = "RECIPE_FETCH" /\ rsrc' = rsrc \ {"fetch_retry"}
    /\ UNCHANGED <<stdin, daemon, rerror, retries, tasks, finished, task, src,
                   cancelVars, queue, config, serverVars, runs, boundVars>>

FinishedInXml_completedOnly == {t \in Tasks : srv[t] = "Completed"}

FinishedInXml_running == {t \in Tasks : srv[t] # "New"}

(* parse_task: a task the controller reports closed is finished.          *)
FinishedInXml == {t \in Tasks : srv[t] \in Terminal}

RecipeParse(ok) ==
    /\ RecipeStep("RECIPE_PARSE")
    /\ IF ok
       THEN /\ rstate' = "RECIPE_RUN"
            /\ tasks' = 1 /\ task' = NewTask /\ finished' = FinishedInXml
            /\ UNCHANGED rerror
       ELSE /\ rstate' = "RECIPE_COMPLETE" /\ rerror' = TRUE
            /\ UNCHANGED <<tasks, task, finished>>
    /\ UNCHANGED <<daemon, rsrc, retries, cancelled>>

RecipeRun ==
    /\ daemon = "up" /\ "recipe_handler" \in rsrc /\ rstate = "RECIPE_RUN"
    /\ rstate' = "RECIPE_RUNNING"
    /\ src' = src \cup {"task_handler"}
    /\ UNCHANGED <<stdin, daemon, rsrc, rerror, retries, tasks, finished, task,
                   cancelVars, queue, config, serverVars, runs, boundVars>>

RecipeRunning ==
    /\ RecipeStep("RECIPE_RUNNING")
    /\ rsrc' = rsrc \ {"recipe_handler"}
    /\ UNCHANGED <<daemon, rstate, rerror, retries, tasks, finished, task,
                   cancelled>>

(* The client is told (exit) only when there was no error; then the       *)
(* recipe is freed and the handler removes itself.                        *)
RecipeComplete ==
    \/ /\ RecipeStep("RECIPE_COMPLETE") /\ ~(stdin /\ ~rerror)
       /\ rstate' = "RECIPE_IDLE" /\ rsrc' = rsrc \ {"recipe_handler"}
       /\ rerror' = FALSE /\ cancelled' = FALSE /\ tasks' = 0
       /\ UNCHANGED <<daemon, retries, finished, task>>
    \/ /\ daemon = "up" /\ "recipe_handler" \in rsrc
       /\ rstate = "RECIPE_COMPLETE" /\ stdin /\ ~rerror
       /\ Dies("exited")
       /\ UNCHANGED <<stdin, config, serverVars, runs, boundVars>>

RecipeNext ==
    \/ RecipeFetch \/ RecipeFetchRetry \/ RecipeRun \/ RecipeRunning
    \/ RecipeComplete
    \/ \E ok \in BOOLEAN : RecipeFetchCompleted(ok) \/ RecipeParse(ok)

----------------------------------------------------------------------------
(* The task handler: one action per state, each from the top of the       *)
(* switch to the return.  While recipe_handler has yet to remove itself   *)
(* (RECIPE_RUNNING) it is dispatched before the newly added task_handler. *)
TaskStep(state) ==
    /\ daemon = "up" /\ "task_handler" \in src /\ task.state = state
    /\ ~("recipe_handler" \in rsrc /\ rstate = "RECIPE_RUNNING")
    /\ UNCHANGED <<stdin, daemon, rerror, finished, abortedAt, serverVars,
                   boundVars>>

SameTask == UNCHANGED <<rstate, rsrc, tasks, cancelled, aborted>>

Enqueue_atHead(m) == queue' = <<m>> \o queue

(* restraint_task_status, restraint_task_watchdog, restraint_task_result  *)
(* and the forwarding of requests all push at the tail.                   *)
Enqueue(m) == queue' = Append(queue, m)

Start_handlerKept(op) == src' = src \cup {op}

(* The handler returns G_SOURCE_REMOVE and op will re-add it.             *)
Start(op) == src' = (src \ {"task_handler"}) \cup {op}

(* ... and so will task_message_complete, the callback of m.              *)
StartMessage(m) == src' = src \ {"task_handler"} /\ Enqueue(m)

Goto(state) == task' = [task EXCEPT !.state = state]

Fail == task' = [task EXCEPT !.state = "TASK_COMPLETE", !.error = TRUE]

Continue(state) == Goto(state) /\ UNCHANGED <<src, queue>>

ClearSection_kept == UNCHANGED config

(* restraint_config_set with no key removes the group task_id, alone.     *)
ClearSection == config' = [config EXCEPT ![tasks] = EmptySection]

(* Where TASK_IDLE goes once the section c of the task was read.          *)
IdleState_noCancel(c) ==
    IF tasks \in finished THEN "TASK_NEXT"
    ELSE IF c.localwatchdog THEN "TASK_COMPLETE"
    ELSE IF c.started THEN "TASK_METADATA_PARSE" ELSE "TASK_FETCH"

IdleState_noStarted(c) ==
    IF tasks \in finished THEN "TASK_NEXT"
    ELSE IF cancelled \/ c.localwatchdog THEN "TASK_COMPLETE"
    ELSE "TASK_FETCH"

IdleState(c) ==
    IF tasks \in finished THEN "TASK_NEXT"
    ELSE IF cancelled \/ c.localwatchdog THEN "TASK_COMPLETE"
    ELSE IF c.started THEN "TASK_METADATA_PARSE" ELSE "TASK_FETCH"

Restored(c) == [task EXCEPT !.state = IdleState(c), !.started = c.started,
                            !.localwatchdog = c.localwatchdog,
                            !.reboots = c.reboots]

(* parse_task_config fails when the file cannot be read or parsed, and    *)
(* then nothing else is asked, not even whether the task is finished.     *)
TaskIdle(readable) ==
    /\ TaskStep("TASK_IDLE") /\ SameTask
    /\ \/ /\ ~readable /\ tasks \in Unreadable /\ Fail
          /\ UNCHANGED <<src, queue, retries>>
       \/ /\ readable /\ task' = Restored(config[tasks])
          /\ IF IdleState(config[tasks]) = "TASK_FETCH"
             THEN StartMessage(Msg("Running")) /\ retries' = 0
             ELSE UNCHANGED <<src, queue, retries>>
    /\ UNCHANGED <<config, runs>>

TaskFetch ==
    /\ TaskStep("TASK_FETCH") /\ SameTask
    /\ Start(IF tasks \in Packages THEN "package" ELSE "fetch")
    /\ UNCHANGED <<task, retries, queue, config, runs>>

TaskMetadataParse ==
    /\ TaskStep("TASK_METADATA_PARSE") /\ SameTask
    /\ Start("metadata")
    /\ UNCHANGED <<task, retries, queue, config, runs>>

(* With no recipe URL (--stdin) the roles are those of the XML.           *)
TaskRefreshRoles ==
    /\ TaskStep("TASK_REFRESH_ROLES") /\ SameTask
    /\ IF stdin THEN Continue("TASK_ENV")
                ELSE Start("roles") /\ UNCHANGED <<task, queue>>
    /\ UNCHANGED <<retries, config, runs>>

TaskEnv ==
    /\ TaskStep("TASK_ENV") /\ SameTask
    /\ task' = [task EXCEPT !.state = "TASK_WATCHDOG", !.env = TRUE]
    /\ UNCHANGED <<src, queue, retries, config, runs>>

NeedsWatchdog_never == FALSE

(* A task that continues after a reboot has its external watchdog.        *)
NeedsWatchdog == ~task.started

TaskWatchdog ==
    /\ TaskStep("TASK_WATCHDOG") /\ SameTask
    /\ Goto("TASK_DEPENDENCIES")
    /\ IF NeedsWatchdog THEN StartMessage(Msg("watchdog"))
                        ELSE UNCHANGED <<src, queue>>
    /\ UNCHANGED <<retries, config, runs>>

TaskDependencies ==
    /\ TaskStep("TASK_DEPENDENCIES") /\ SameTask
    /\ Goto("TASK_RUN")
    /\ IF task.started THEN UNCHANGED src ELSE Start("dependencies")
    /\ UNCHANGED <<queue, retries, config, runs>>

MayRun_always == TRUE

MayRun == ~cancelled

(* process_run forks the task, then the section is written twice: first   *)
(* "started", then "reboots".                                             *)
Saved(c, n) == [c EXCEPT !.started = @ \/ n > 0,
                         !.reboots = IF n > 1 THEN task.reboots + 1 ELSE @]

Written(n) == [config EXCEPT ![tasks] = Saved(@, n)]

Forked == runs' = [runs EXCEPT ![tasks] = @ + 1]

TaskRun ==
    /\ TaskStep("TASK_RUN") /\ SameTask
    /\ IF MayRun
       THEN /\ Forked /\ config' = Written(2)
            /\ task' = [task EXCEPT !.started = TRUE]
            /\ Start("task_run") /\ UNCHANGED queue
       ELSE Continue("TASK_COMPLETE") /\ UNCHANGED <<config, runs>>
    /\ UNCHANGED retries

TaskComplete ==
    /\ TaskStep("TASK_COMPLETE") /\ SameTask
    /\ task' = [task EXCEPT !.state = "TASK_COMPLETED",
                            !.error = @ \/ (cancelled /\ aborted # "NONE")]
    /\ UNCHANGED <<src, queue, retries, config, runs>>

EndStatus == IF task.error THEN "Aborted" ELSE "Completed"

(* The abort of one task ends with that task.                             *)
AbortConsumed == cancelled /\ aborted = "TASK"

TaskCompleted ==
    /\ TaskStep("TASK_COMPLETED")
    /\ StartMessage(Msg(EndStatus))
    /\ task' = [task EXCEPT !.state = "TASK_NEXT", !.error = FALSE]
    /\ ClearSection
    /\ IF AbortConsumed THEN aborted' = "NONE" /\ cancelled' = FALSE
                        ELSE UNCHANGED <<aborted, cancelled>>
    /\ UNCHANGED <<rstate, rsrc, tasks, retries, runs>>

HasNext_inclusive == tasks <= NTasks

HasNext == tasks < NTasks

(* restraint_next_task.                                                   *)
TaskNext ==
    /\ TaskStep("TASK_NEXT")
    /\ task' = NewTask
    /\ IF HasNext
       THEN tasks' = tasks + 1 /\ UNCHANGED <<rstate, rsrc, aborted, src>>
       ELSE /\ tasks' = 0 /\ src' = src \ {"task_handler"}
            /\ rstate' = "RECIPE_COMPLETE" /\ aborted' = "NONE"
            /\ rsrc' = rsrc \cup {"recipe_handler"}
    /\ UNCHANGED <<cancelled, queue, retries, config, runs>>

TaskHandler ==
    \/ \E readable \in BOOLEAN : TaskIdle(readable)
    \/ TaskFetch \/ TaskMetadataParse \/ TaskRefreshRoles \/ TaskEnv
    \/ TaskWatchdog \/ TaskDependencies \/ TaskRun \/ TaskComplete
    \/ TaskCompleted \/ TaskNext

----------------------------------------------------------------------------
(* The operations of a task and their callbacks.                          *)
Finish(op) ==
    /\ daemon = "up" /\ op \in src
    /\ UNCHANGED <<stdin, daemon, recipeVars, tasks, finished, cancelVars,
                   serverVars, runs, boundVars>>

Becomes(op, next) == src' = (src \ {op}) \cup {next}

(* One counter serves recipe, task and role fetches.                      *)
MayRetry(n) == retries < n

Retrying_uncounted == UNCHANGED retries

Retrying == retries' = retries + 1

(* fetch_finish_callback and recipe_fetch_complete: ok goes on to `next', *)
(* an error is retried after a timeout, n times, or fails the task.       *)
Attempted(op, retry, n, ok, next) ==
    /\ Finish(op)
    /\ \/ /\ ok /\ Goto(next)
          /\ Becomes(op, "task_handler") /\ UNCHANGED retries
       \/ /\ ~ok /\ MayRetry(n) /\ Retrying
          /\ Becomes(op, retry) /\ UNCHANGED task
       \/ /\ ~ok /\ ~MayRetry(n) /\ Fail
          /\ Becomes(op, "task_handler") /\ UNCHANGED retries
    /\ UNCHANGED <<queue, config>>

Retried(op, state) ==
    /\ Finish(op) /\ Goto(state) /\ Becomes(op, "task_handler")
    /\ UNCHANGED <<retries, queue, config>>

FetchFinish(ok) == Attempted("fetch", "task_fetch_retry", TASK_FETCH_RETRIES,
                             ok, "TASK_METADATA_PARSE")
TaskFetchRetry == Retried("task_fetch_retry", "TASK_FETCH")

RolesFinish(ok) == Attempted("roles", "refresh_role_retry",
                             ROLE_REFRESH_RETRIES, ok, "TASK_ENV")
RefreshRoleRetry == Retried("refresh_role_retry", "TASK_REFRESH_ROLES")

(* restraint_recipe_update_roles rejects the XML it was given.            *)
RolesRejected ==
    /\ Finish("roles") /\ Fail /\ Becomes("roles", "task_handler")
    /\ UNCHANGED <<retries, queue, config>>

(* task_handler_callback, metadata_finish_cb, dependency_finish_cb.       *)
PackageFinish(ok) ==
    /\ Finish("package") /\ Becomes("package", "task_handler")
    /\ IF ok THEN Goto("TASK_METADATA_PARSE") ELSE Fail
    /\ UNCHANGED <<retries, queue, config>>

(* No error and no metadata (make wrote no testinfo.desc) completes too.  *)
MetadataFinish ==
    /\ Finish("metadata") /\ Becomes("metadata", "task_handler")
    /\ \/ /\ task' = [task EXCEPT !.state = "TASK_REFRESH_ROLES",
                                   !.metadata = TRUE]
          /\ retries' = 0
       \/ /\ Fail \/ Goto("TASK_COMPLETE")
          /\ UNCHANGED retries
    /\ UNCHANGED <<queue, config>>

DependencyFinish(ok) ==
    /\ Finish("dependencies") /\ Becomes("dependencies", "task_handler")
    /\ IF ok THEN Goto("TASK_RUN") ELSE Fail
    /\ UNCHANGED <<retries, queue, config>>

(* What task_finish_callback reports of an exit: PASS unless the task     *)
(* reported by itself, FAIL always; neither in rhts_compat mode.          *)
Reports(exit) ==
    /\ tasks \notin RhtsCompat
    /\ \/ exit = "zero" /\ ~task.results_reported
       \/ exit = "nonzero"

TaskFinish(exit) ==
    /\ Finish("task_run") /\ Becomes("task_run", "plugins")
    /\ task' = [task EXCEPT
                  !.state = "TASK_COMPLETE",
                  !.localwatchdog = @ \/ exit = "watchdog",
                  !.error = \/ @
                            \/ exit = "watchdog"
                            \/ exit = "nonzero" /\ tasks \in RhtsCompat]
    /\ IF exit = "watchdog"
       THEN config' = [config EXCEPT ![tasks].localwatchdog = TRUE]
       ELSE UNCHANGED config
    /\ IF Reports(exit) THEN Enqueue(Msg("result")) ELSE UNCHANGED queue
    /\ UNCHANGED retries

PluginsFinish ==
    /\ Finish("plugins") /\ Becomes("plugins", "task_handler")
    /\ UNCHANGED <<task, retries, queue, config>>

Operation ==
    \/ \E ok \in BOOLEAN : \/ FetchFinish(ok) \/ RolesFinish(ok)
                           \/ PackageFinish(ok) \/ DependencyFinish(ok)
    \/ TaskFetchRetry \/ RefreshRoleRetry \/ RolesRejected \/ MetadataFinish
    \/ \E exit \in {"zero", "nonzero", "watchdog"} : TaskFinish(exit)
    \/ PluginsFinish

----------------------------------------------------------------------------
(* The message at the head of the queue and its reply.                    *)
ServerApplies(m) ==
    /\ srv' = IF m.kind \in StatusKinds
              THEN [srv EXCEPT ![m.task] = m.kind] ELSE srv
    /\ ewd' = IF m.kind = "watchdog" THEN ewd \cup {m.task} ELSE ewd
    /\ UNCHANGED refused

(* server_msg_complete reads app_data->tasks->data before it does         *)
(* anything else, and for a result the env of that task.                  *)
NullInReply(m) == \/ m.kind \in ForwardKinds /\ tasks = 0
                  \/ m.kind = "report" /\ ~task.env

Answered(m) ==
    \/ /\ NullInReply(m) /\ Dies("down") /\ UNCHANGED <<stdin, config>>
    \/ /\ ~NullInReply(m)
       /\ queue' = Tail(queue)
       /\ src' = IF m.kind \in CallbackKinds THEN src \cup {"task_handler"}
                                              ELSE src
       /\ UNCHANGED <<stdin, daemon, recipeVars, retries, tasks, finished,
                      task, cancelVars, config>>

Sending == daemon = "up" /\ queue # <<>>

Accept ==
    /\ Sending /\ ServerApplies(Head(queue)) /\ Answered(Head(queue))
    /\ UNCHANGED <<runs, boundVars>>

(* A 4xx is an answer too: the message is dropped and its callback runs.  *)
Refuse ==
    /\ Sending /\ Head(queue).task \in Refusable
    /\ refused' = refused \cup {Head(queue).task}
    /\ Answered(Head(queue))
    /\ UNCHANGED <<srv, ewd, runs, boundVars>>

(* The reply is lost: the message stays at the head to be sent again.     *)
LoseReply ==
    /\ Sending /\ ServerApplies(Head(queue))
    /\ UNCHANGED <<stdin, daemon, recipeVars, retries, tasks, finished, task,
                   src, cancelVars, queue, config, runs, boundVars>>

----------------------------------------------------------------------------
(* server_recipe_callback: requests of the rstrnt commands.  Every one    *)
(* reads the current task before it looks at the path.                    *)
Request ==
    /\ daemon = "up" /\ rstate # "RECIPE_IDLE" /\ nreqs < MaxRequests
    /\ nreqs' = nreqs + 1
    /\ UNCHANGED <<stdin, config, serverVars, runs, nboots>>

Served == UNCHANGED <<daemon, recipeVars, retries, tasks, finished, src>>

RequestWithoutTask == Request /\ tasks = 0 /\ Dies("down")

AbortRecipe ==
    /\ Request /\ tasks # 0 /\ Served
    /\ aborted' = "RECIPE" /\ cancelled' = TRUE
    /\ abortedAt' = IF aborted = "RECIPE" THEN abortedAt ELSE tasks
    /\ UNCHANGED <<task, queue>>

AbortTask ==
    /\ Request /\ tasks # 0 /\ Served
    /\ aborted' = "TASK" /\ cancelled' = TRUE
    /\ UNCHANGED <<task, queue, abortedAt>>

Report ==
    /\ Request /\ tasks # 0 /\ Served
    /\ task' = [task EXCEPT !.results_reported = TRUE]
    /\ Enqueue(Msg("report"))
    /\ UNCHANGED cancelVars

(* A log upload, or a result reported by a plugin itself.                 *)
Forward ==
    /\ Request /\ tasks # 0 /\ Served
    /\ Enqueue(Msg("forward"))
    /\ \/ UNCHANGED task
       \/ task' = [task EXCEPT !.results_reported = TRUE]
    /\ UNCHANGED cancelVars

AdjustWatchdog ==
    /\ Request /\ tasks # 0
    /\ \/ ~task.metadata /\ Dies("down")
       \/ /\ task.metadata /\ Served
          /\ Enqueue(Msg("forward"))
          /\ UNCHANGED <<task, cancelVars>>

Requests == RequestWithoutTask \/ AbortRecipe \/ AbortTask \/ Report
            \/ Forward \/ AdjustWatchdog

----------------------------------------------------------------------------
(* The machine reboots and restraintd is started again; under --stdin it  *)
(* is the client that starts it again and feeds it the XML.               *)
Boot ==
    /\ nboots < MaxBoots /\ nboots' = nboots + 1
    /\ daemon' = "up" /\ Forget
    /\ rstate' = BootState(stdin) /\ rsrc' = BootSources(stdin)
    /\ UNCHANGED <<stdin, ewd, refused, nreqs>>

Reboot == daemon # "exited" /\ Boot /\ UNCHANGED <<srv, config, runs>>

(* It may go down inside the task handler, in the middle of a state.      *)
RebootIn(state) ==
    /\ daemon = "up" /\ "task_handler" \in src /\ task.state = state
    /\ ~("recipe_handler" \in rsrc /\ rstate = "RECIPE_RUNNING")
    /\ Boot

(* In TASK_RUN, after n of the two writes.                                *)
RebootInTaskRun(n) ==
    /\ RebootIn("TASK_RUN")
    /\ MayRun /\ Forked /\ config' = Written(n)
    /\ UNCHANGED srv

(* In TASK_COMPLETED, before the section is removed.  A message to the    *)
(* lab controller is then only queued, and lost; under --stdin the end    *)
(* has been printed and the client has read it.                           *)
RebootInTaskCompleted ==
    /\ RebootIn("TASK_COMPLETED") /\ stdin
    /\ srv' = [srv EXCEPT ![tasks] = EndStatus]
    /\ UNCHANGED <<config, runs>>

Restart == \/ Reboot \/ RebootInTaskCompleted
           \/ \E n \in 0 .. 1 : RebootInTaskRun(n)

----------------------------------------------------------------------------
DaemonStep == RecipeNext \/ TaskHandler \/ Operation \/ Accept

Next ==
    DaemonStep \/ Refuse \/ LoseReply \/ Requests \/ Restart

Spec == Init /\ [][Next]_vars

(* The main loop dispatches what is ready, operations end (a task at the  *)
(* latest by its local watchdog) and the lab controller answers in the    *)
(* end: message.c retries for ever.                                       *)
FairSpec == Spec /\ WF_vars(DaemonStep)

----------------------------------------------------------------------------
(* Every variable has its type.                                           *)
TypeOK ==
    /\ stdin \in BOOLEAN /\ daemon \in {"up", "down", "exited"}
    /\ rstate \in RecipeStates /\ rsrc \in SUBSET RecipeSources
    /\ rerror \in BOOLEAN /\ retries \in Nat
    /\ tasks \in 0 .. NTasks /\ finished \in SUBSET Tasks
    /\ task \in Task /\ src \in SUBSET TaskSources
    /\ cancelled \in BOOLEAN /\ aborted \in {"NONE", "TASK", "RECIPE"}
    /\ abortedAt \in 0 .. NTasks
    /\ queue \in Seq(Message)
    /\ config \in [Tasks -> Section]
    /\ srv \in [Tasks -> {"New"} \cup StatusKinds]
    /\ ewd \in SUBSET Tasks /\ refused \in SUBSET Tasks
    /\ runs \in [Tasks -> Nat] /\ nboots \in Nat /\ nreqs \in Nat

IsCallback(i) == queue[i].kind \in CallbackKinds

(* While the recipe runs exactly one thing moves it on: task_handler, one *)
(* operation, or one queued message whose callback re-adds task_handler.  *)
(* With none the recipe would hang, with two task_handler would be a      *)
(* source twice and a state would be entered again while its operation is *)
(* under way.  Before and after the recipe runs there is none.            *)
OneSource == \E op \in TaskSources : src = {op}
OneCallback == \E i \in 1 .. Len(queue) :
                 \A j \in 1 .. Len(queue) : IsCallback(j) <=> j = i
NoCallback == \A i \in 1 .. Len(queue) : ~IsCallback(i)

Baton == IF rstate = "RECIPE_RUNNING"
         THEN (OneSource /\ NoCallback) \/ (src = {} /\ OneCallback)
         ELSE src = {} /\ NoCallback

(* The result restraintd derives from the exit code of a task is sent     *)
(* before the end of that task: the controller accepts none afterwards.   *)
ResultBeforeEnd ==
    \A i, j \in 1 .. Len(queue) :
        (i < j /\ queue[i].kind \in Terminal /\ queue[j].kind = "result")
            => queue[i].task # queue[j].task

(* Once the recipe is aborted, and for as long as that abort is recorded, *)
(* the tasks after the one it met are only ever reported "Aborted".       *)
LaterTasksAborted ==
    \A i \in 1 .. Len(queue) :
        (abortedAt # 0 /\ queue[i].task > abortedAt /\ IsCallback(i))
            => queue[i].kind = "Aborted"

AbortReachesLaterTasks == aborted = "RECIPE" => LaterTasksAborted

(* When the lab controller has closed a task the section of the task is   *)
(* gone from the config file, so that no later boot takes the task for    *)
(* one that was started.  Under --stdin the end is printed before the     *)
(* section is removed, and a reboot in between leaves it there.           *)
FinishedLeavesNoSection ==
    ~stdin => \A t \in Tasks : srv[t] \in Terminal => config[t] = EmptySection

(* A task the config file knows as started is continued after a reboot:   *)
(* it is neither fetched over its running state nor its dependencies      *)
(* installed again.                                                       *)
StartedNeverRefetched ==
    (tasks # 0 /\ config[tasks].started)
        => src \cap {"fetch", "task_fetch_retry", "package",
                     "dependencies"} = {}

(* After the recipe was aborted no command of any task is forked.         *)
AbortStops == [][aborted = "RECIPE" => UNCHANGED runs]_vars

(* No command is forked before the controller was told (or refused to     *)
(* hear) the external watchdog of its task, whatever was lost in between. *)
RunAfterExternalWatchdog ==
    [][\A t \in Tasks : runs'[t] # runs[t] => t \in ewd \cup refused]_vars

(* A task whose local watchdog expired is not run again by the boot the   *)
(* localwatchdog plugins cause.                                           *)
LwdNeverReruns ==
    [][\A t \in Tasks : config[t].localwatchdog => runs'[t] = runs[t]]_vars

(* A recipe is over only when every task was closed at the controller, or *)
(* the controller refused to be told.                                     *)
EndReported ==
    [][rstate = "RECIPE_RUNNING" /\ rstate' = "RECIPE_COMPLETE"
         => \A t \in Tasks : srv[t] \in Terminal \/ t \in refused]_vars

(* What the controller sees is a ledger of tasks opened and closed in     *)
(* order, each closed once, through reboots and lost replies.             *)
Ledger == INSTANCE RecipeLedger WITH status <- srv, lost <- refused
LedgerSpec == Ledger!Spec

(* Every recipe ends, or the process is gone.                             *)
RecipeEnds == <>[](daemon # "up" \/ rstate = "RECIPE_IDLE")

(* docs/commands.rst:156: the tasks after the aborted one are marked      *)
(* aborted.  A later abort of one task takes the place of the recipe's.   *)
AbortOutlivesTaskAbort == LaterTasksAborted

=============================================================================
