# Restraint: a verification project

TLA+ models of `restraintd`, the daemon that runs the tasks of a recipe on a
lab machine, with the TLC instances that check them and the TLAPS proofs that
hold for every instance. Paths like `task.c:1109` are relative to `src/`.

## 1. Inventory

`restraintd` is one process with one GLib main loop. Nothing runs in parallel
inside it: what is concurrent is the order in which the loop dispatches its
sources (idle handlers, timeouts, child watches, io watches, HTTP replies, HTTP
requests), the children it forks, the lab controller, the user's `rstrnt-*`
commands, and reboots of the machine, which are ordinary events for a test
harness.

| Component | State it keeps | Operations | Correct when | Model |
|---|---|---|---|---|
| recipe handler (`recipe.c`) | `app_data->state`, error, `fetch_retries`, the recipe | an idle source, one state per dispatch; fetch and parse the recipe XML with retries | the recipe is run once, and ends only with every task reported | `TaskRunner` |
| task runner (`task.c`) | current task, its struct, the pending operation | an idle source, one state per dispatch; a dozen asynchronous operations whose callbacks re-add it | exactly one thing moves the recipe on; a task is opened, run and closed in order; nothing is rerun that must not be | `TaskRunner`, `RecipeLedger` |
| requests (`server.c`) | abort kind, cancellable, `results_reported` | abort, result, log, watchdog | they never disturb the order above; an abort reaches every later task | `TaskRunner`, `Process` |
| message queue (`message.c`) | queue, `queue_active`, a static delay | queue, handle, reply, push back | in order, at least once, no lost wakeup, growing waits | `MessageQueue`, `FifoDelivery` |
| process execution (`process.c`) | pid, four GLib sources, a cancellation hook | run, io, child exit, timeout, cancel, finish | finished with once, nothing reaches freed data, the watchdog is neither late nor early | `Process` |
| configuration (`config.c`) | two groups per task in a key file: `task_id` and `offsets_task_id` | set, get, remove | what a reboot finds leads to the right state | `task_id` in `TaskRunner`, the offsets in `TaskLog` |
| host synchronisation (`cmd_sync.c`) | set of states, waiting clients, a socket | set, block | a blocked host is released when the state is set, and not before | `RstrntSync` |
| dependencies (`dependency.c`) | nested copies of list cursors, two batches of packages, the repodeps met before | fetch a repodep and install its own dependencies, remove and install in batches, one by one, soft ones last | the answer is true, repodeps come before packages, cycles are cut | `Dependencies` |
| fetching (`fetch_git.c`, `fetch_uri.c`, `fetch.c`) | an archive being unpacked in idle steps, the sources of curl, what is in the task's directory | open, transfer, one entry per dispatch, finish, retry | one finish per attempt, and then the files the task asked for or an error | `TaskFetch` |
| logging (`logging.c`, `upload.c`) | a thread with its queue, cache files, offsets in memory and in the config file, a periodic uploader, mapped chunks | append, upload what is new, upload the rest at the end, unmap | the ranges that are sent join, through retries and reboots; the log is there before the end of its task | `TaskLog` |
| restraint client (`client.c`) | the XML of the job in memory and in job.xml, ssh children, retries, a lab watchdog per recipe | start, read what restraintd prints, retry, give up, finish, continue a job | a recipe says what its tasks say, no result is forgotten, the client ends | `Client` |
| metadata, params, env, xml, roles, utils | pure data | parse, merge, print | what the parsers return | reading metadata is an operation of `Dependencies` and `TaskRunner` |
| commands and plugins | none | one request each; shell scripts | - | inputs of `TaskRunner` |

How they interact: the recipe handler adds the task handler; the task handler
starts an operation and removes itself; the operation's callback, or the
callback of a message it queued, adds it again. Requests read and write the
current task between two dispatches. The config file is the only memory that
survives a reboot, the lab controller the only witness of what happened.

The fetch and the dependencies of a task are operations of the task handler with
a main-loop life of their own; the output of a task goes around it, through a
thread and the message queue, and must be ahead of the task's end. The client is
another process, on another machine: it starts `restraintd --stdin` over ssh and
reads from its output what a lab controller would have been sent.

What is hard here: the order of callbacks; requests in the middle of anything;
the three writes (config file, controller, memory) that a reboot can separate;
lost and refused messages; one retry counter, one static delay and one abort
field shared by several users; time kept by a timer that changes its period.
The `hazards` of `PROJECT.json` list them line by line.

## 2. Modules

**`TaskRunner`** models the recipe and task handlers with all they start. One
action is one dispatch of one source, from the top of the handler to its return.
`rsrc` and `src` say which source or pending operation will move the recipe and
the task handler on; a message with a callback is in `queue`. `queue` is a FIFO
here, which is what `MessageQueue` is shown to provide. `config` is the group
`task_id` of each task in the key file, its section: it is written when the task
is forked (`Saved`: first `started`, then `reboots`, and a reboot may come between
the two), when its local watchdog expires, and removed in TASK_COMPLETED. (The
group `offsets_task_id` is never removed; it is `saved` in `TaskLog`.) `Boot` empties
memory and the queue, and leaves `config` and the controller. It may come between
two dispatches (`Reboot`), between the fork and the writes (`RebootInTaskRun`), and
between the end of a task that `--stdin` prints at once and the removal of its section
(`RebootInTaskCompleted`). `srv`, `ewd` and `refused` are the
controller; a reply may be lost after it acted (`LoseReply`) or be a 4xx
(`Refuse`). `Dies` is the process dereferencing a NULL current task. `runs` and
`abortedAt` are history.

**`RecipeLedger`** is the abstract specification of the runner: seen from the
controller, tasks are opened and closed one after the other, each closed once, and
only an opened one as Completed. `TaskRunner` implements it with `status <- srv`,
`lost <- refused`, across reboots and lost replies.

**`MessageQueue`** models `message.c`: `idle` and `timer` count the sources of
`message_handler`, so a second handler or none can be seen, and `flight` is the
message given to libsoup. **`FifoDelivery`** is what it promises.

**`Process`** models one `process_run`: the child (`pid`), the sources that hold
a pointer to the process data, the idle source of `process_pid_finish` with
`finish_handler_id`, and the time that `task_heartbeat_callback` and the
watchdog request keep. The model begins when the metadata of the task is parsed:
from there on the user may set the time, before the fork (`MaxBefore` bounds that
part of the clock) as well as after it. The clock stands still while a source is
ready.

**`RstrntSync`** models `cmd_sync.c` on one host: the `set` commands, the server
each of them may fork (named after it), and the block scripts of other hosts,
which ask for one state after the other over connections that last ten seconds.
What they share is the path of the local socket (`path`, which may be left over
from a server that was killed), the TCP port, and the connections, each with
what the server can find out of its client by a send (`peer`). PINGs a client has
not read yet are one, because it looks at the first string of its buffer only.

**`Dependencies`** models `dependency.c`. `stack` holds the `DependencyData`: the
copy of the main task, and one for each repodep that is being dealt with inside
it; its lists are cursors, as in the code. A step is the callback of what was
started last, up to where something else is started: the end of a nested copy
moves the cursor of the one around it, so one step may end several (`GoOn`).
`requires` is a graph of repodeps chosen at the start.

**`TaskLog`** models the way of a task's output: `pool` is what the thread of
`logging.c` has not written, `file` the length of the cache file, `offset` and
`saved` the two copies of the offset, `queue` the chunks and ends of tasks
(delivered as `FifoDelivery` promises), `mapped` the files that chunks refer to.
Without the log manager each piece is queued at once. `Boot` keeps `file` and
`saved` and loses the rest. TASK_IDLE reads `saved` back; when that fails, or
something before it in `parse_task_config`, the task goes on with what is in memory
(0 after a reboot) and its log is sent again. `owed` and `lost` are history: what
was logged, and what a reboot or a refusal took; `again` are the tasks that went on
without their saved offset.

**`Client`** models `client.c` with the hosts it is connected to: `conn`,
`cancelled` and `timer` are what a recipe has in the main loop, `link` and `pipe`
its child and what that printed and nobody read yet, `doc` and `saved` the XML in
memory and job.xml. The child watch drops what was not read. `Kill` and
`Restart` are a client that dies and is run again with `--run`. `host` is
external: it runs the tasks the XML does not call finished.

**`TaskFetch`** models `fetch_git.c` and `fetch_uri.c` under the retries of
`task.c`. `sources` are the main-loop sources that refer to the `FetchData` of
the attempt (`timer` and `socket` of curl, `unpack` for `start_unpack`, `read` for the
idle read of entries, `finish`); `files` says of each entry what is in the
directory: nothing, something of the user's, a part or the whole of it. `stream` is
what the server sent: the whole archive, one that is cut with an error, one that
ends early where libarchive takes it for the end of the archive (`short`: a flush
packet of git, a download that broke off between two entries), or no archive. `Removed`
is `rmrf`, which may fail to remove something, and is not asked. `stale`
says that a source was left that refers to freed data; from there on the process
may die (`UsedAfterFree`), as it does when a failed open left no `private_data`
(`NullDereferenced`).

`MC` and the name of a module are its instance for TLC, with one `.cfg` for each
run.
Operators whose name ends in a fault (`Start_handlerKept`, `IdleState_noCancel`)
are mutated forms of the one they are named after: putting one in its place must
break the property `PROJECT.json` pairs it with.

## 3. What is checked

| Run | Instance | What it shows |
|---|---|---|
| `runner_safety` | 2 tasks, one fetched by URL and one package in rhts_compat mode, lab and `--stdin` mode, one retry of each kind, one reboot, two requests, messages of task 2 refused, its section unreadable (1.1 million states) | one thing moves the recipe on (`Baton`); results precede ends; an abort reaches later tasks and stops all commands; the section of a task closed at the lab controller is gone; a started task is never fetched again; no command before its external watchdog; no recipe over with an unreported task |
| `runner_ends` | the same in lab mode with one request | the runner implements `RecipeLedger`, and the recipe ends |
| `queue` | 3 messages, 4 failures, delays 2 to 7 | one handler, a wait that stays in its range, `FifoDelivery` (in order, at least once), every message answered |
| `process` | heartbeat 3, budgets 0, 2, 3, 5, adjusted to 0, 1, 4 or 7 twice, up to 3 before the fork, clock to 17, fork and kill may fail (440 000 states) | freed data is unreachable, the watchdog is late at most until it looks at a request (a heartbeat after the request or the fork), and early only for a time set in a short period |
| `sync` | two sets of different states, each of which may start a server, one script that waits for the first and may be aborted, one that waits for the second or the first; servers may be stopped (250 000 states) | a script returns only when a state of its own was set; no client is parked for a state its server has; none is dropped without being closed; clients that gave up are swept; with a server that knows its state a script returns |
| `dependencies` | a task with one package to install, one to remove, a soft one and two repodeps, each of which requires any list of up to two tasks, itself included; every fetch, make and command ends well or not; an abort at any time (46 000 states) | success means everything was dealt with, failure has a cause; no repodep is dealt with twice at a time, and the packages of an unpacked task, the main one included, wait for its repodeps; the installation ends, whatever the graph |
| `log` | 2 tasks with logs of up to three pieces, chunks of two, with and without the log manager, lost replies, refusals, an abort, late plugins, one reboot, an offset that cannot be read (1.4 million states) | ranges join, but for a task that went on without its offset; the log is there before the end of the task; a chunk is mapped as long as it is needed; there is one uploader and it comes; the log arrives |
| `client` | 2 recipes of two tasks and one, one retry, two events (a report, a lost connection or a kill of the client), lab watchdogs (490 000 states) | results and states sum up, in memory and in job.xml; no result that was read is forgotten; success means good results; the client ends |
| `fetch` | an archive of three entries from git or with curl, any fragment, keepchanges or not, any directory, streams that are cut or short, files that cannot be removed, one retry, one reboot (1 million states) | one finish, unless curl itself failed; after success the right files, with the three exceptions below; the fetch ends |

Two tasks are enough for everything the runner says of "later" and "earlier"
tasks; one retry each, because the counter is only compared with a limit; one
reboot, because `Boot` forgets all but `config` and the controller, whose
contents one reboot can combine with every state of the runner; two requests,
for one abort that overtakes another. A queue of three has a first, a middle
and a last message, and four losses push the delay to its cap and keep it there (in
the code 625 seconds: a little more than the ten minutes of its comment).

Two sets are the first one and the one that races it or follows it; two scripts
have every position relative to a set and to each other's PINGs, and one with two
states reconnects for ever. What queues up is bounded by them.

Two repodeps make a chain, a cycle of one, two or three tasks, and a repodep
required twice. A log of three pieces is a full chunk and a partial one, uploaded
in one go or in up to three with a reboot between them; two tasks are one whose
plugins still print while the other one is current. Two recipes are one that ends while the
other runs; with two events a connection is lost after a message that reset the
retries, or a client killed after a report; one unread message per host is
enough to be lost with its connection. Three entries are one before, one at and
one behind the place where a stream breaks; one retry and one reboot give the
three attempts that find what two earlier ones left. Three ticks before the fork are a
whole heartbeat: a time set there can be over, or half over, at the first timeout.

Three runs show where the code departs from its documents. `runner_abort`: an
abort of the current task forgets an earlier abort of the recipe. `client_skip`: a
task whose only result is SKIP ends without a result, because the client knows
it as SKIPPED. `fetch_keep`: with keepchanges a fetch with curl that finds every
file in place fails.

More departures are part of the models, without a run of their own. The code takes
three things for a good fetch that `FetchedTree` therefore excepts: a stream that ends
early between two entries (of curl with at least one, of git also before the first,
because only `fetch_uri.c:178` asks for a match), what `rmrf` could not remove, and,
with keepchanges, the part of a file that an earlier attempt left. Under `--stdin` a
reboot just after the end of a task was printed leaves its section, so
`FinishedLeavesNoSection` speaks of the lab controller only. After an offset that
could not be read a log is sent again from the beginning (`RangesJoin` excepts the
overlap). An abort
accepted just after a task ended aborts the next one. An unreadable
section turns a completed task into an aborted one (so the refinement of the
ledger is checked and proved without one). After a failed fork the callback of
a process is never called. A time set in a short period of the watchdog is counted
down too fast. An aborted command is marked as expired. Of two first sets at once,
the second removes the socket of the first one's server. The hazards of
`PROJECT.json` say where each is.

### Fairness and deadlock

`TaskRunner!FairSpec` has weak fairness of `DaemonStep`: the main loop dispatches
what is ready, operations end (a command at the latest by its watchdog, see
`Process`), and the controller accepts a message in the end (`message.c` retries
for ever). Requests, refusals, lost replies and reboots are not fair.
`RecipeEnds` is checked in lab mode: under `--stdin` a retry has no URL to fetch
and never calls back. `MessageQueue!FairSpec` is the same for the handler and
the replies, the number of losses being bounded. `Process!FairSpec` is fair to the
sources, the clock and the first step, and not to the child, which need not
exit; `WatchedEnds` excepts a kill that failed. `RstrntSync!FairSpec` lets every
command and server run; the main loop takes its two sockets in turn, hence
fairness of each handler; a client gives up in the end (strong fairness of
`GivesUp`) because a PING does not extend its ten seconds, and not before the
server has looked at it: the model assumes a server that is not slower than that.
Nobody has to set a state or stop a server.

`Dependencies!FairSpec` is fair to `Callback`: what was started calls back, as
`TaskFetch` and `Process` show of a fetch and a command. `TaskLog!FairSpec` is
fair to `DaemonStep`, the main loop, the thread and a controller that answers
in the end; nothing has to be logged. `Client!Spec` is fair to each source of each
recipe, since GLib starves none of equal priority, its timers included, and to
no host: a host may hang, and the lab watchdog ends it. `TaskFetch!Spec` is fair to the
main-loop sources and strongly fair to the end of a transfer: between two
dispatches of curl's sources it may end or not, and nothing but the server sees
to it, because curl is given no time limit and the loop blocks in the reads of git. That
is an assumption on the server, not a fact of the code.

Deadlock is not checked: a daemon whose recipe is over, or whose process died or
exited, stops, as do a client that exited and a fetch that ended, and the bounds
stop the rest.

## 4. What is proved

Every safety property that a passing run checks is proved too, for every value of
the constants, under the assumptions `RunnerAssumption`, `DelayAssumption`,
`ProcessAssumption`, `SyncAssumption`, `DependencyAssumption`, `FetchAssumption`,
`LogAssumption` and `ClientAssumption` of the modules. They give the constants
their types (tasks, lengths and bounds) and little else: a graph of repodeps may
have cycles, a bound may be 0. Each proof rests on an inductive
invariant, called `IInv` where there is one per module. Those of `Dependencies`,
`TaskLog` and `Client` were model-checked on a small instance before they were
proved.

`TaskRunner_proofs` proves every safety property of the runner, the refinement of
`RecipeLedger` included, in four parts that build on each other:

- Part 1: `TypeOK` and `Baton`. Neither is inductive: messages are
  about the current task, so there has to be one, and the fetch of the recipe
  must not come back while the recipe runs. The inductive invariant `IInv` adds
  `InRecipe` (a current task exists exactly in RECIPE_RUN and RECIPE_RUNNING) and
  `Fetching` (the XML or its retry is awaited, never both, only in
  RECIPE_FETCHING).
- Part 2: `AbortStops`, `RunAfterExternalWatchdog`,
  `LwdNeverReruns`, `StartedNeverRefetched`. What is forked depends on the state,
  on what TASK_IDLE read from the config file and on the operation under way.
  `RInv` says how they agree: the state fits the source (`SourceState`) or the
  message awaited (`CallbackState`); what was read is still what the file says
  (`Resumed`); where the external watchdog is known to be set (`Watched`); the
  cancellable stays cancelled while an abort is recorded (`AbortCancels`).
- Part 3: `ResultBeforeEnd`, from the baton alone, and
  `AbortReachesLaterTasks`, with `Skipped`: a task behind the abort goes from
  TASK_IDLE to its end, and has an error when it gets there.
- Part 4: `FinishedLeavesNoSection`, `EndReported` and
  `LedgerSpec`. `LInv` relates three places that a reboot tears apart, memory, the
  config file and the controller: earlier tasks are closed (`ClosedBefore`), what
  the XML said is true (`KnownClosed`), the current task is open until its end is
  answered (`StillOpen`, `EndPending`), a task closed at the lab controller left no
  section (`NoTrace`),
  a task that got past TASK_IDLE was opened (`WasOpened`). The refinement
  assumes `Unreadable = {}`, and has to: see section 3.

In each there is one lemma per group of actions, over lemmas that say what
appending and answering do to the one message with a callback.

`MessageQueue_proofs` proves all safety properties of the queue and that it
implements `FifoDelivery`. `OneHandler` is inductive with `TypeOK` and carries the
rest: because there is one handler, nothing is in flight when it is dispatched,
so the push back to the head restores the order.

`Process_proofs` proves the safety of `Process`. `Phases` says which sources
there are before the fork, after a failed one and once the child was reaped;
with it `FreedIsUnreachable` and `OneFinish` are inductive. `Timing` compares the
end of the timeout's period, `now + timer.left`, which a tick does not change,
with the deadline: while an adjusted time waits to be looked at (`Asked`: it counts
from its request, also before the fork) the period ends at most a heartbeat after the
request or the fork (`Pending`), otherwise at or before the deadline, and a whole
number of heartbeats before it if no time was set in a short period (`Counted`).
`NeverLate` and `NotEarly` follow.

`RstrntSync_proofs` proves the safety of `RstrntSync` for any number of sets, scripts
and states. One invariant, `IInv`, has three parts beside the types. `Truth`
follows a state on its way: what is in the queue of a socket, in the events of a
server or in what a client has to read was set by a command that is done; hence
no early return. `Remembered` strengthens `NobodyForgotten`, which is not
inductive because a PING may be all there is to read and is then gone: a
client that waits is in the queue of a socket, listed by a server that runs, or
has the end of its connection to read. With it goes `Forked`, that a server is
forked once, so that one that runs leaves that state only by `Quit`. `Lines` is why
a sweep is enough: a client has one open connection (`Alive`), the last of its own
in a queue (`InTurn`) and behind the listed ones (`ListedFirst`), so of its own a
server lists at most one that was not found gone (`OneLive`) and one that was
(`OneReset`). `NeverParked` is inductive with the types. The lemmas before say what
each action does to each element of the queues, lists and inboxes.

`TaskFetch_proofs` proves `FinishedOnce` and `FetchedTree`. `Staged` says that an
attempt in which curl did not fail has exactly one source on the way to its
finish (`OneStage`), and that curl's own are there only while `start_unpack` waits
for it (`Waiting`). `Unpacked` is the loop invariant of the unpacking: the entries read so
far are as they should be (`Right`), the others as they were when the attempt began
(`Before`), and a finish without an error comes after the last one, or where a short
stream ended; with curl, after at least one match.

`Dependencies_proofs` proves `Truthful` and `RepodepOrder` for any graph. Neither
says anything of the copies on the stack, which is where it is decided. `Stacked`
does: a copy that is not the innermost waits at its cursor for the one inside it
(`Nesting`); what it has behind the cursor is done with, or on the stack
(`Passed`), and so is all it has in `processed_deps` (`Known`); every name on the
stack is in the innermost's `processed_deps` (`Marked`), which is why a repodep
on the stack is not entered again (`Apart`); a hard dependency is settled or still
ahead, in the batches or at the cursor (`Fits`). One callback can end any number of
copies. `Cut` says what is left then, from the greatest position that is not done,
without induction: each copy above it is at the end of its lists, so its own
dependencies are settled and its repodeps done with or on what is left of the
stack. Around `Cut` there is one lemma for a copy that changes (`Replaced`), one
for a copy that is added (`Entered`), and one that turns both into `IInv'`
(`Resumed`). `NestingBounded` follows: the nested copies are never more than there
are tasks, which is why a cycle of repodeps comes to an end.

`TaskLog_proofs` proves `RangesJoin`, `LogBeforeEnd`, `ChunksStayMapped` and
`UploaderComing`. What is queued of one log is a chain (`Chains`): its chunks are in
order, each begins where the one before ended, the first where the controller's
part ends and the last ends at the saved offset. An upload extends it, an answer
shortens it, a reboot empties it and adds what was in it to `lost`. `Owed` follows
each piece of output that no reboot or refusal took: it is with the controller, or it
belongs to the current task and is in the chain before its end, or beyond the offset.
`Offsets` says when the offset in memory is the saved one, and that nothing of the
log is queued when it is 0 because the saved one was not read; `Uploading` says where the
uploader is, `Ends` that the only end in the queue is that of the current task,
`Maps` that a file is mapped exactly while the chain refers to it.

`Client_proofs` proves `RecipeSumsUp`, `ResultsKept` and `NoHiddenFailure`, and two
more: the tasks of a recipe finish in order, in memory and in job.xml
(`TasksFinishInOrder`), and a finished task is finished for good, though the host may
run it again after a lost connection (`FinishedForGood`). That a recipe sums up its tasks is not
inductive: an aborted task must not get another status, so no message about a
finished task may be left to read. That is a fact of order: the tasks a host was
given are the last ones of the recipe (`InOrder`), it prints about one after the
other and ends each once (`Printed`, `AtTask`). The same order keeps the results,
because nothing about a task is left to read behind its end (`Behind`).

Only model-checked: what is promised to happen in the end (`RecipeEnds`,
`EveryMessageAnswered`, `WatchedEnds`, `Released`, `DependenciesEnd`, `LogArrives`,
`ClientEnds`, `FetchEnds`), since fairness is out of the prover's reach; and the three
departures, which are counterexamples.

## 5. What is left out, and why

- Writes of the config file always succeed; only a read may fail (`Unreadable` in
  `TaskRunner`, the second disjunct of TASK_IDLE in `TaskLog`).
- The wait for the Beaker health check is a stutter; in `TaskRunner` log chunks
  and what commands print are left to `TaskLog`.
- A failed fork is in `Process` only; `TaskRunner` assumes that operations end.
- `rstrnt-sync`: `--any`, several machines and the script's own timeout; the
  backlog of the sockets (5) is not reached; the file that restores the states
  after a reboot belongs to scripts that are not modelled.
- `Dependencies`: what rstrnt-package and make do; a fetch is one operation.
- `TaskLog`: taskout.log and harness.log are one log, a byte is a piece of output
  of any length, and a chunk carries a range and no content; a cache file that a
  crash truncated, writes that fail, a cache file that cannot be mapped
  (`logging.c:447`) and the reading back of chunks (`upload.c`). That the controller
  refuses the end of a task is left to `TaskRunner`.
  The id of the uploader that stays set when the recipe is over, and is looked at
  by the next recipe, is outside the one recipe of the model.
- `Client`: the job template and the roles of the hosts, the logs it writes, the
  message it prints when a recipe starts, and the pretty results. Modelled, and
  excepted by `NoHiddenFailure`: a continued job with nothing to do exits with
  success whatever its results (`client.c:1895`), and the client quits as soon as
  every task is finished, with another recipe's process unfinished
  (`client.c:1019`). The watchdog of a finished recipe still sets the error.
  Writing job.xml is one step: `put_doc` truncates the file before it writes
  (`client.c:312`), so a kill in between leaves no job to continue, and an open that
  fails is only a warning; neither is modelled.
- `TaskFetch`: the wire protocol of git (that the start may fail is kept), the name an
  entry gets below the directory, and the fetch of a package, which is one command.
- Under `--stdin` the code prints a message when it is made and calls its callback
  from an idle source; here it goes through the same queue. The difference that a
  property could see, the end printed before the section is removed, is an action of
  its own (`RebootInTaskCompleted`).
- Not modelled at all: the parsers of metadata, parameters and the recipe XML,
  which are pure and would need their texts; the rstrnt commands, which send one
  request each and are inputs; the plugins, which are shell scripts; helpers.

## 6. Plan

1. Done: `TaskRunner` with `RecipeLedger`, `MessageQueue` with `FifoDelivery`,
   `Process`, `RstrntSync`, `TaskFetch`, `Dependencies`, `TaskLog` and `Client`.
2. Done: proofs of all their safety properties.
3. To do: safety lemmas behind the liveness properties, a measure that each
   callback of `Dependencies` makes smaller being the first. An abstract
   specification of a log at the controller, whose parts received and lost grow by
   ranges that join, implemented by `TaskLog`: `Chains` is the invariant it needs.
4. To do: an abstract specification of a block that returns after its states were
   set; the client composed with the runner under `--stdin`; metadata and
   parameter parsing as operators checked against reference definitions.
