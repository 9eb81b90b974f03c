------------------------------ MODULE TaskLog -------------------------------
(***************************************************************************)
(* logging.c and what task.c does with it: the output of a task on its way *)
(* to the lab controller.  With the log manager it is pushed to a thread   *)
(* that appends it to a cache file; a periodic uploader, and TASK_COMPLETED*)
(* for the last time, map the file and queue what it has beyond the offset *)
(* in chunks.  Without it (interval 0 or --stdin) each piece is queued at  *)
(* once.  The offset is kept in memory and in the config file, which a     *)
(* reboot leaves, as it leaves the cache; the queue and what the thread    *)
(* was not done with are lost.  The queue is FifoDelivery.  The offsets    *)
(* have a group of their own in the config file, offsets_<task id>, which  *)
(* is never removed; reading it back may fail.                             *)
(*                                                                         *)
(* A byte here is a piece of output of any length; taskout.log and         *)
(* harness.log are treated alike, so a task has one log.                   *)
(***************************************************************************)
EXTENDS Naturals, Sequences

CONSTANTS N,               (* tasks of the recipe                          *)
          ChunkLength,     (* BKR_MAX_CONTENT_LENGTH                       *)
          MaxBytes,        (* bound: length of a log                       *)
          MaxLate,         (* bound: pieces of output of late plugins      *)
          MaxBoots         (* bound: reboots                               *)

ASSUME LogAssumption ==
    /\ N \in Nat \ {0} /\ ChunkLength \in Nat \ {0}
    /\ MaxBytes \in Nat /\ MaxLate \in Nat /\ MaxBoots \in Nat

VARIABLES
    manager,    (* rstrnt_log_manager_enabled                              *)
    tasks,      (* app_data->tasks: the current task, N + 1 for NULL       *)
    state,      (* its state; TASK_RUN stands for all that may log         *)
    cancelled,  (* the cancellable                                         *)
    alive,      (* FALSE once the process dereferenced a NULL task         *)
    source,     (* uploader_func timeouts in the main loop                 *)
    id,         (* uploader_source_id is not 0                             *)
    pool,       (* bytes of each task pushed and not written yet           *)
    file,       (* length of its cache file                                *)
    offset,     (* task->offsets                                           *)
    saved,      (* the offsets section of the config file                  *)
    queue,      (* messages to the controller: chunks, and ends of tasks   *)
    mapped,     (* cache files mapped, with the length they had            *)
    received,   (* what the controller has of each log                     *)
    over,       (* tasks whose end the controller has                      *)
    first,      (* the task this boot began with                           *)
    boots, late, (* counters for the bounds                                *)
    again,      (* history: tasks that went on without their saved offset  *)
    owed,       (* history: bytes logged by running tasks and not lost     *)
    lost        (* history: bytes queued that a reboot or a 4xx took       *)

logVars == <<source, id, pool, file, offset, saved, mapped>>
bootVars == <<first, boots, late, again>>
vars == <<manager, tasks, state, cancelled, alive, logVars, queue, received,
          over, bootVars, owed, lost>>

Task == 1 .. N
Bytes(from, to) == {b \in 0 .. MaxBytes : from <= b /\ b < to}
Elements(s) == {s[i] : i \in 1 .. Len(s)}

(* A chunk keeps the file it is part of mapped: SOUP_MEMORY_TEMPORARY.     *)
(* map is the length of that file, and 0 for a copy.                       *)
Chunk(t, from, to, map) ==
    [task |-> t, end |-> FALSE, from |-> from, to |-> to, map |-> map]
End(t) == [task |-> t, end |-> TRUE, from |-> 0, to |-> 0, map |-> 0]

Least(m, n) == IF m < n THEN m ELSE n

(* rstrnt_chunk_log.                                                       *)
Chunks(t, from, length) ==
    [i \in 1 .. (length - from + ChunkLength - 1) \div ChunkLength |->
        Chunk(t, from + (i - 1) * ChunkLength,
              Least(from + i * ChunkLength, length), length)]

Init ==
    /\ manager \in BOOLEAN
    /\ tasks = 1 /\ state = "TASK_IDLE" /\ cancelled = FALSE /\ alive = TRUE
    /\ source = 0 /\ id = FALSE
    /\ pool = [t \in Task |-> 0] /\ file = [t \in Task |-> 0]
    /\ offset = [t \in Task |-> 0] /\ saved = [t \in Task |-> 0]
    /\ queue = <<>> /\ mapped = {}
    /\ received = [t \in Task |-> {}] /\ over = 0
    /\ first = 1 /\ boots = 0 /\ late = 0 /\ again = {}
    /\ owed = [t \in Task |-> {}] /\ lost = [t \in Task |-> {}]

ConfigOffset_memoryOnly(t, n) ==
    offset' = [offset EXCEPT ![t] = n] /\ UNCHANGED saved

(* The offset, and task_config_set_offset.                                 *)
ConfigOffset(t, n) ==
    offset' = [offset EXCEPT ![t] = n] /\ saved' = [saved EXCEPT ![t] = n]

Flushed_notAwaited(t) == file[t]

(* rstrnt_flush_logs waits for the sentinel it pushed: one thread writes   *)
(* in order, so what was pushed before is in the file.                     *)
Flushed(t) == file[t] + pool[t]

(* rstrnt_upload_logs: the log of t as it goes to the queue, before the    *)
(* messages in rest.  The last chunk unmaps the file when it is answered.  *)
(* The file can always be mapped here.                                     *)
Upload(t, rest) ==
    LET length == Flushed(t)
    IN /\ file' = [file EXCEPT ![t] = length]
       /\ pool' = [pool EXCEPT ![t] = file[t] + @ - length]
       /\ IF length > offset[t]
          THEN /\ queue' = queue \o Chunks(t, offset[t], length) \o rest
               /\ mapped' = mapped \cup {<<t, length>>}
               /\ ConfigOffset(t, length)
          ELSE /\ queue' = queue \o rest
               /\ UNCHANGED <<mapped, offset, saved>>

StopUploader_idKept == source' = 0 /\ UNCHANGED id

(* stop_uploader, if there is one.                                         *)
StopUploader ==
    IF id THEN source' = source - 1 /\ id' = FALSE
          ELSE UNCHANGED <<source, id>>

(* start_uploader, if there is none.                                       *)
StartUploader ==
    IF id THEN UNCHANGED <<source, id>>
          ELSE source' = source + 1 /\ id' = TRUE

(* restraint_log_task with the log manager: a byte to the thread pool.     *)
LogBytes ==
    /\ pool' = [pool EXCEPT ![tasks] = @ + 1]
    /\ StartUploader
    /\ UNCHANGED <<file, offset, saved, mapped, queue>>

(* connections_write: nothing is sent once the cancellable is cancelled.   *)
ConnectionsWrite ==
    /\ queue' = Append(queue, Chunk(tasks, offset[tasks],
                                    offset[tasks] + 1, 0))
    /\ ConfigOffset(tasks, offset[tasks] + 1)
    /\ UNCHANGED <<source, id, pool, file, mapped>>

(* Where the next byte of the current task goes.                           *)
Position == IF manager THEN file[tasks] + pool[tasks] ELSE offset[tasks]

(* Output of the commands of a task and messages of its handler.           *)
TaskLogs ==
    /\ state = "TASK_RUN" /\ Position < MaxBytes
    /\ manager \/ ~cancelled
    /\ IF manager THEN LogBytes ELSE ConnectionsWrite
    /\ owed' = [owed EXCEPT ![tasks] = @ \cup {Position}]
    /\ UNCHANGED <<manager, tasks, state, cancelled, alive, received, over,
                   bootVars, lost>>

(* server_io_callback: plugins that run for the result of a task go on     *)
(* when it has ended.  What they print goes to the current task, and is    *)
(* the end of the process if there is none.  No plugin outlives a reboot,  *)
(* so a task ends in this boot before there is one that is late.           *)
PluginLogs ==
    /\ state = "TASK_NEXT" \/ (state = "TASK_IDLE" /\ tasks > first)
    /\ manager \/ ~cancelled
    /\ late < MaxLate /\ late' = late + 1
    /\ \/ /\ tasks <= N /\ Position < MaxBytes
          /\ IF manager THEN LogBytes ELSE ConnectionsWrite
          /\ UNCHANGED alive
       \/ /\ tasks = N + 1 /\ manager /\ alive' = FALSE
          /\ UNCHANGED <<logVars, queue>>
    /\ UNCHANGED <<manager, tasks, state, cancelled, received, over, first,
                   boots, again, owed, lost>>

(* The thread: rstrnt_write_log_func.                                      *)
WriteLog(t) ==
    /\ pool[t] > 0
    /\ pool' = [pool EXCEPT ![t] = @ - 1]
    /\ file' = [file EXCEPT ![t] = @ + 1]
    /\ UNCHANGED <<manager, tasks, state, cancelled, alive, source, id,
                   offset, saved, mapped, queue, received, over, bootVars,
                   owed, lost>>

(* The timeout goes on, unless there is no task: its id is kept then.      *)
UploaderFunc ==
    /\ source > 0
    /\ IF tasks <= N
       THEN Upload(tasks, <<>>) /\ UNCHANGED source
       ELSE source' = source - 1
            /\ UNCHANGED <<pool, file, offset, saved, mapped, queue>>
    /\ UNCHANGED <<manager, tasks, state, cancelled, alive, id, received,
                   over, bootVars, owed, lost>>

(* TASK_IDLE: task_config_get_offsets.  parse_task_config may fail before  *)
(* that: the task is then over (TaskRunner), but what its handler has to   *)
(* say of that is logged as ever, and the cache uploaded, at the offset in *)
(* memory.                                                                 *)
Restored == IF saved[tasks] > 0 THEN saved[tasks] ELSE offset[tasks]

TaskIdle ==
    /\ tasks <= N /\ state = "TASK_IDLE" /\ state' = "TASK_RUN"
    /\ \/ offset' = [offset EXCEPT ![tasks] = Restored] /\ UNCHANGED again
       \/ /\ again' = again \cup {t \in {tasks} : offset[t] # Restored}
          /\ UNCHANGED offset
    /\ UNCHANGED <<manager, tasks, cancelled, alive, source, id, pool, file,
                   saved, mapped, queue, received, over, first, boots, late,
                   owed, lost>>

(* The queue has the last chunk before the status.                         *)
TaskCompleted ==
    /\ state = "TASK_RUN" /\ state' = "TASK_NEXT"
    /\ IF manager
       THEN StopUploader /\ Upload(tasks, <<End(tasks)>>)
       ELSE /\ queue' = Append(queue, End(tasks))
            /\ UNCHANGED logVars
    /\ cancelled' \in {cancelled, FALSE}
    /\ UNCHANGED <<manager, tasks, alive, received, over, bootVars, owed,
                   lost>>

Unmapped_first(m) == mapped \ {<<m.task, m.map>>}

(* rstrnt_on_log_uploaded is the callback of the last chunk only.          *)
Unmapped(m) == IF m.to = m.map THEN mapped \ {<<m.task, m.map>>} ELSE mapped

Receive(m) ==
    /\ received' = [received EXCEPT ![m.task] = @ \cup Bytes(m.from, m.to)]
    /\ over' = IF m.end THEN m.task ELSE over

(* The head of the queue is answered, with a 4xx if it is refused; the     *)
(* answer to the end of a task makes the next one the current one.  That   *)
(* an end is refused is left to TaskRunner.                                *)
Answered(refused) ==
    /\ queue # <<>>
    /\ LET m == Head(queue)
       IN /\ queue' = Tail(queue) /\ mapped' = Unmapped(m)
          /\ \/ /\ refused /\ ~m.end
                /\ lost' = [lost EXCEPT ![m.task] = @ \cup Bytes(m.from, m.to)]
                /\ owed' = [owed EXCEPT ![m.task] = @ \ Bytes(m.from, m.to)]
                /\ UNCHANGED <<received, over>>
             \/ ~refused /\ Receive(m) /\ UNCHANGED <<lost, owed>>
          /\ IF m.end THEN tasks' = tasks + 1 /\ state' = "TASK_IDLE"
                      ELSE UNCHANGED <<tasks, state>>
    /\ UNCHANGED <<manager, cancelled, alive, source, id, pool, file, offset,
                   saved, bootVars>>

(* The controller acted on the head, but its reply was lost: it is sent    *)
(* again.                                                                  *)
ReplyLost ==
    /\ queue # <<>> /\ Receive(Head(queue))
    /\ UNCHANGED <<manager, tasks, state, cancelled, alive, logVars, queue,
                   bootVars, owed, lost>>

Abort ==
    /\ ~cancelled /\ tasks <= N /\ cancelled' = TRUE
    /\ UNCHANGED <<manager, tasks, state, alive, logVars, queue, received,
                   over, bootVars, owed, lost>>

(* The config file and the cache files are left; the first task that is    *)
(* not over is run.                                                        *)
Boot ==
    /\ boots < MaxBoots /\ boots' = boots + 1
    /\ tasks' = over + 1 /\ first' = over + 1 /\ state' = "TASK_IDLE"
    /\ cancelled' = FALSE /\ alive' = TRUE
    /\ source' = 0 /\ id' = FALSE /\ queue' = <<>> /\ mapped' = {}
    /\ pool' = [t \in Task |-> 0] /\ offset' = [t \in Task |-> 0]
    /\ LET queued(t) == UNION {Bytes(m.from, m.to) :
                                  m \in {q \in Elements(queue) : q.task = t}}
           unwritten(t) == Bytes(file[t], file[t] + pool[t])
       IN /\ lost' = [t \in Task |-> lost[t] \cup (queued(t) \ received[t])]
          /\ owed' = [t \in Task |->
                         owed[t] \ ((queued(t) \ received[t])
                                    \cup unwritten(t))]
    /\ UNCHANGED <<manager, file, saved, received, over, late, again>>

DaemonStep ==
    /\ alive
    /\ \/ UploaderFunc \/ TaskIdle \/ TaskCompleted \/ Answered(FALSE)
       \/ \E t \in Task : WriteLog(t)

Next == \/ DaemonStep
        \/ alive /\ (TaskLogs \/ PluginLogs \/ Answered(TRUE) \/ ReplyLost
                     \/ Abort)
        \/ Boot

Spec == Init /\ [][Next]_vars

(* The main loop and the thread go on, a task ends (see TaskRunner), and   *)
(* the controller answers in the end.                                      *)
FairSpec == Spec /\ WF_vars(DaemonStep)

----------------------------------------------------------------------------
MessageType == [task : Task, end : BOOLEAN, from : Nat, to : Nat, map : Nat]

(* Every variable has its type, and the offset in memory is never beyond   *)
(* the file it is an offset in (checked with RangesJoin).                  *)
TypeOK ==
    /\ manager \in BOOLEAN /\ tasks \in 1 .. N + 1
    /\ state \in {"TASK_IDLE", "TASK_RUN", "TASK_NEXT"}
    /\ cancelled \in BOOLEAN /\ alive \in BOOLEAN
    /\ source \in Nat /\ id \in BOOLEAN
    /\ pool \in [Task -> Nat] /\ file \in [Task -> Nat]
    /\ offset \in [Task -> Nat] /\ saved \in [Task -> Nat]
    /\ manager => \A t \in Task : offset[t] <= file[t]
    /\ queue \in Seq(MessageType) /\ mapped \subseteq Task \X Nat
    /\ received \in [Task -> SUBSET Nat] /\ over \in 0 .. N
    /\ first \in 1 .. N + 1 /\ boots \in Nat /\ late \in Nat
    /\ again \subseteq Task
    /\ owed \in [Task -> SUBSET Nat] /\ lost \in [Task -> SUBSET Nat]

(* The ranges of the PUTs join: what is queued of a log begins where the   *)
(* controller's part ends and nothing in between is skipped, also after a  *)
(* reboot.  Nothing but a chunk whose reply was lost is sent twice, except *)
(* of a task that went on without its saved offset: its log goes out from  *)
(* the beginning again.                                                    *)
Joined(i) ==
    LET m == queue[i]
        before == {j \in 1 .. i - 1 : ~queue[j].end /\ queue[j].task = m.task}
    IN /\ m.from < m.to
       /\ IF before = {}
          THEN Bytes(0, m.from) \subseteq received[m.task] \cup lost[m.task]
          ELSE \E j \in before : queue[j].to = m.from
       /\ i > 1 /\ m.task \notin again
             => Bytes(m.from, m.to) \cap received[m.task] = {}
RangesJoin ==
    /\ TypeOK
    /\ \A i \in 1 .. Len(queue) : ~queue[i].end => Joined(i)

(* When the controller learns that a task has ended it has all of its log  *)
(* but what a reboot or a refusal took: the thread is waited for, and the  *)
(* last chunk is in front of the status.                                   *)
LogBeforeEnd == \A t \in 1 .. over : owed[t] \subseteq received[t]

(* A chunk is sent from the mapped file: it is mapped until the last       *)
(* chunk of it was answered, and not longer.                               *)
ChunksStayMapped ==
    mapped = {<<m.task, m.map>> : m \in {q \in Elements(queue) : q.map > 0}}

(* There is never a second uploader, and output of a running task that is  *)
(* not queued yet has one coming, unless a reboot stopped it.  The tasks   *)
(* behind the one the reboot met are not concerned.                        *)
UploaderComing ==
    /\ source <= 1 /\ (tasks <= N => (source = 1) = id)
    /\ (/\ manager /\ state = "TASK_RUN"
        /\ file[tasks] + pool[tasks] > offset[tasks])
          => source = 1 \/ (boots > 0 /\ tasks = first)

(* Again and again everything running tasks have logged has arrived, but   *)
(* what a reboot or a 4xx took, unless the process died.  Output of late   *)
(* plugins may stay in the cache.                                          *)
LogArrives ==
    []<>(~alive \/ \A t \in Task : owed[t] \subseteq received[t])

=============================================================================
