------------------------------- MODULE Process -------------------------------
(***************************************************************************)
(* process.c: one process_run of a command, from the fork to the single    *)
(* call of its finish callback, with the GLib sources that hold a pointer  *)
(* to its ProcessData: the child watch, the IO watch, the timeout of the   *)
(* local watchdog and the idle source of process_pid_finish; and the time  *)
(* that task_heartbeat_callback (task.c) and the watchdog request          *)
(* (server.c) keep for it.                                                 *)
(*                                                                         *)
(* Time is counted in seconds of a small HEARTBEAT.  The main loop is      *)
(* prompt: the clock stands still while a source is ready.                 *)
(***************************************************************************)
EXTENDS Naturals

CONSTANTS HEARTBEAT,       (* 60 in the code                               *)
          Budgets,         (* max_time of process_run; 0: no watchdog      *)
          Adjustments,     (* times given to rstrnt-adjust-watchdog        *)
          ForkFails,       (* fork may return -1                           *)
          KillFails,       (* kill may fail (the child changed its user)   *)
          MaxBefore,       (* bound: the clock before the fork             *)
          MaxNow,          (* bound: the clock                             *)
          MaxAdjusts       (* bound: watchdog requests                     *)

ASSUME ProcessAssumption ==
    /\ HEARTBEAT \in Nat \ {0} /\ Budgets \subseteq Nat
    /\ Adjustments \subseteq Nat
    /\ ForkFails \in BOOLEAN /\ KillFails \in BOOLEAN
    /\ MaxBefore \in Nat /\ MaxNow \in Nat /\ MaxAdjusts \in Nat

VARIABLES
    pid,        (* the child; process_data->pid is 0 once "reaped" and -1  *)
                (* when "failed"                                           *)
    pidWatch,   (* pid_handler_id # 0                                      *)
    io,         (* io_handler_id # 0                                       *)
    ioReady,    (* the pipe is closed, by the child or by the pid callback *)
    finishes,   (* idle sources of process_pid_finish                      *)
    finishId,   (* finish_handler_id # 0                                   *)
    timer,      (* the timeout source: seconds left, and its period        *)
    hooked,     (* process_cancelled_cb is connected                       *)
    cancelled,  (* the cancellable                                         *)
    lwd,        (* process_data->localwatchdog                             *)
    called,     (* calls of finish_callback; process_data is then freed    *)
    remaining,  (* task->remaining_time                                    *)
    adjusted,   (* task->time_chged # NULL                                 *)
    changedAt,  (* *task->time_chged                                       *)
    now,        (* the clock                                               *)
    deadline,   (* history: when the watchdog is due                       *)
    forkedAt,   (* history: when the command was forked                    *)
    hurried,    (* history: adjusted during a period not of a HEARTBEAT    *)
    expired,    (* history: the local watchdog killed the child            *)
    nadjusts    (* counter for the bound                                   *)

sourceVars == <<pidWatch, io, finishes, finishId>>
taskVars   == <<remaining, adjusted, changedAt>>
historyVars == <<deadline, forkedAt, hurried, expired, nadjusts>>
vars == <<pid, sourceVars, ioReady, timer, hooked, cancelled, lwd, called,
          taskVars, now, historyVars>>

Off == [on |-> FALSE, left |-> 0, every |-> 0]
Every(n) == [on |-> TRUE, left |-> n, every |-> n]

(* The metadata of the task was parsed (metadata_finish_cb), which sets   *)
(* the time there is; from now on watchdog requests are accepted.         *)
Init ==
    /\ pid = "none" /\ pidWatch = FALSE /\ io = FALSE /\ ioReady = FALSE
    /\ finishes = 0 /\ finishId = FALSE /\ timer = Off
    /\ hooked = FALSE /\ cancelled \in BOOLEAN /\ lwd = FALSE /\ called = 0
    /\ remaining \in Budgets /\ adjusted = FALSE /\ changedAt = 0
    /\ now = 0 /\ deadline = 0 /\ forkedAt = 0 /\ hurried = FALSE
    /\ expired = FALSE /\ nadjusts = 0

----------------------------------------------------------------------------
(* kill(pid, SIGKILL): the child becomes a zombie and the process is      *)
(* marked; if kill fails the child watch is removed.                      *)
Kill ==
    \/ /\ pid \in {"running", "zombie"}
       /\ pid' = "zombie" /\ lwd' = TRUE /\ UNCHANGED pidWatch
    \/ /\ KillFails /\ pid = "running"
       /\ pidWatch' = FALSE /\ UNCHANGED <<pid, lwd>>

(* The first timeout: a whole heartbeat or what there is.                 *)
Period(n) == IF n < HEARTBEAT THEN n ELSE HEARTBEAT

FirstTimer == IF remaining = 0 THEN Off ELSE Every(Period(remaining))

(* process_run.  A cancellable that is already cancelled calls            *)
(* process_cancelled_cb at once; the timeout is armed after that.  A time *)
(* the user set before the fork keeps counting from its request: the mark *)
(* of the request is looked at, and removed, at the first timeout only.   *)
Run ==
    /\ pid = "none"
    /\ io' = TRUE /\ hooked' = TRUE /\ timer' = FirstTimer
    /\ forkedAt' = now
    /\ deadline' = IF adjusted THEN deadline ELSE now + remaining
    /\ IF cancelled
       THEN \/ pid' = "zombie" /\ lwd' = TRUE /\ pidWatch' = TRUE
            \/ /\ KillFails /\ pid' = "running" /\ pidWatch' = TRUE
               /\ UNCHANGED lwd
       ELSE pid' = "running" /\ pidWatch' = TRUE /\ UNCHANGED lwd
    /\ UNCHANGED <<ioReady, finishes, finishId, cancelled, called, taskVars,
                   now, hurried, expired, nadjusts>>

(* The fork fails: an error is set and process_pid_finish scheduled.      *)
RunFails ==
    /\ pid = "none" /\ ForkFails
    /\ pid' = "failed" /\ finishes' = 1
    /\ UNCHANGED <<pidWatch, io, finishId, ioReady, timer, hooked, cancelled,
                   lwd, called, taskVars, now, historyVars>>

(* The child closes its end of the pipe, or exits and perhaps leaves the  *)
(* pipe open in a descendant.                                             *)
ChildClosesOutput ==
    /\ pid = "running" /\ io /\ ~ioReady /\ ioReady' = TRUE
    /\ UNCHANGED <<pid, sourceVars, timer, hooked, cancelled, lwd, called,
                   taskVars, now, historyVars>>

ChildExits ==
    /\ pid = "running" /\ pid' = "zombie"
    /\ ioReady' \in {ioReady, TRUE}
    /\ UNCHANGED <<sourceVars, timer, hooked, cancelled, lwd, called, taskVars,
                   now, historyVars>>

----------------------------------------------------------------------------
(* The sources.                                                           *)
AddFinish ==
    IF finishId THEN UNCHANGED <<finishes, finishId>>
                ELSE finishes' = finishes + 1 /\ finishId' = TRUE

(* process_io_finish, when the io callback saw the end of the output.     *)
IoFinish ==
    /\ io /\ ioReady
    /\ io' = FALSE /\ AddFinish
    /\ UNCHANGED <<pid, pidWatch, ioReady, timer, hooked, cancelled, lwd,
                   called, taskVars, now, historyVars>>

(* The descriptors are closed: the io watch finds an invalid one.         *)
PidCallback ==
    /\ pid = "zombie" /\ pidWatch
    /\ pid' = "reaped" /\ pidWatch' = FALSE /\ ioReady' = TRUE
    /\ AddFinish
    /\ UNCHANGED <<io, timer, hooked, cancelled, lwd, called, taskVars, now,
                   historyVars>>

NotYet_idKept == UNCHANGED finishId

NotYet == finishId' = FALSE

StopTimer_forgotten == UNCHANGED timer

StopTimer == timer' = Off

PidFinish ==
    /\ finishes > 0 /\ finishes' = finishes - 1
    /\ \/ /\ pid # "reaped" \/ io
          /\ NotYet
          /\ UNCHANGED <<timer, hooked, called>>
       \/ /\ pid = "reaped" /\ ~io
          /\ StopTimer /\ hooked' = FALSE /\ called' = called + 1
          /\ UNCHANGED finishId
    /\ UNCHANGED <<pid, pidWatch, io, ioReady, cancelled, lwd, taskVars, now,
                   historyVars>>

(* task_heartbeat_callback: what is left of the time the user set, or of  *)
(* the time there was a heartbeat ago.                                    *)
Minus(a, b) == IF a > b THEN a - b ELSE 0

SinceChange_ignored(r) == r

SinceChange(r) == Minus(r, now - changedAt)

SinceHeartbeat_unsigned(r) == r - HEARTBEAT

SinceHeartbeat_twice(r) == Minus(Minus(r, HEARTBEAT), HEARTBEAT)

SinceHeartbeat(r) == Minus(r, HEARTBEAT)

Heartbeat(r) == IF adjusted THEN SinceChange(r) ELSE SinceHeartbeat(r)

(* process_timeout_callback: a short rest gets a timeout of its own, a    *)
(* longer one keeps the period there is, no rest kills the child.         *)
Timeout ==
    /\ timer.on /\ timer.left = 0
    /\ IF pid = "reaped"
       THEN timer' = Off /\ UNCHANGED <<pid, pidWatch, lwd, taskVars, expired>>
       ELSE LET left == Heartbeat(remaining) IN
            /\ remaining' = left /\ adjusted' = FALSE
            /\ UNCHANGED changedAt
            /\ IF left > 0
               THEN /\ timer' = IF left < HEARTBEAT THEN Every(left)
                                ELSE [timer EXCEPT !.left = timer.every]
                    /\ UNCHANGED <<pid, pidWatch, lwd, expired>>
               ELSE timer' = Off /\ Kill /\ expired' = TRUE
    /\ UNCHANGED <<io, finishes, finishId, ioReady, hooked, cancelled, called,
                   now, deadline, forkedAt, hurried, nadjusts>>

(* process_cancelled_cb, on rstrnt-abort.                                 *)
Cancel ==
    /\ ~cancelled /\ cancelled' = TRUE
    /\ IF hooked
       THEN /\ timer' = Off
            /\ IF pid = "reaped" THEN UNCHANGED <<pid, pidWatch, lwd>> ELSE Kill
       ELSE UNCHANGED <<timer, pid, pidWatch, lwd>>
    /\ UNCHANGED <<io, finishes, finishId, ioReady, hooked, called, taskVars,
                   now, historyVars>>

(* The watchdog request: server_recipe_callback.  It may come before the  *)
(* fork, while roles and dependencies are seen to, and 0 is a time too.   *)
Adjust(n) ==
    /\ called = 0 /\ nadjusts < MaxAdjusts
    /\ nadjusts' = nadjusts + 1
    /\ remaining' = n /\ adjusted' = TRUE /\ changedAt' = now
    /\ deadline' = now + n
    /\ hurried' = (hurried \/ (timer.on /\ timer.every # HEARTBEAT))
    /\ UNCHANGED <<pid, sourceVars, ioReady, timer, hooked, cancelled, lwd,
                   called, now, forkedAt, expired>>

----------------------------------------------------------------------------
Sources == IoFinish \/ PidCallback \/ PidFinish \/ Timeout

Ready == \/ finishes > 0 \/ (io /\ ioReady) \/ (pid = "zombie" /\ pidWatch)
         \/ (timer.on /\ timer.left = 0)

Tick ==
    /\ ~Ready /\ called = 0
    /\ now < IF pid = "none" THEN MaxBefore ELSE MaxNow
    /\ now' = now + 1
    /\ timer' = [timer EXCEPT !.left = IF timer.on THEN timer.left - 1 ELSE 0]
    /\ UNCHANGED <<pid, sourceVars, ioReady, hooked, cancelled, lwd, called,
                   taskVars, historyVars>>

Next == \/ Run \/ RunFails \/ ChildClosesOutput \/ ChildExits
        \/ Sources \/ Cancel
        \/ \E n \in Adjustments : Adjust(n)
        \/ Tick

Spec == Init /\ [][Next]_vars

(* The loop dispatches and time passes; the child need not ever exit.     *)
FairSpec == Spec /\ WF_vars(Sources) /\ WF_vars(Tick) /\ WF_vars(Run)

----------------------------------------------------------------------------
(* Every variable has its type.                                           *)
TypeOK ==
    /\ pid \in {"none", "running", "zombie", "reaped", "failed"}
    /\ pidWatch \in BOOLEAN /\ io \in BOOLEAN /\ ioReady \in BOOLEAN
    /\ finishes \in Nat /\ finishId \in BOOLEAN
    /\ timer \in [on : BOOLEAN, left : 0 .. HEARTBEAT, every : 0 .. HEARTBEAT]
    /\ hooked \in BOOLEAN /\ cancelled \in BOOLEAN /\ lwd \in BOOLEAN
    /\ called \in Nat /\ remaining \in Nat /\ adjusted \in BOOLEAN
    /\ changedAt \in Nat /\ now \in Nat /\ deadline \in Nat
    /\ forkedAt \in Nat /\ hurried \in BOOLEAN /\ expired \in BOOLEAN
    /\ nadjusts \in Nat

(* process_data is freed when the finish callback has run: from then on   *)
(* no source, and no cancellation, may reach it, and it is freed once.    *)
FreedIsUnreachable ==
    /\ called <= 1
    /\ called = 1 => /\ pid = "reaped" /\ ~pidWatch /\ ~io /\ finishes = 0
                     /\ ~timer.on /\ ~hooked

(* While the child runs there is at most one process_pid_finish pending   *)
(* and finish_handler_id knows of it.                                     *)
OneFinish == pid # "failed" /\ called = 0 => finishes = IF finishId THEN 1 ELSE 0

(* The local watchdog never lets a child run past its time, which counts  *)
(* from the fork or from the last request of the user, before the fork or *)
(* after it.  A request is seen at the next timeout only: till then the   *)
(* child may run on, a heartbeat after the request and the fork at most.  *)
SeenBy == HEARTBEAT + (IF changedAt > forkedAt THEN changedAt ELSE forkedAt)
NeverLate ==
    (pid = "running" /\ timer.on)
        => now <= deadline \/ (adjusted /\ now <= SeenBy)

(* It kills no child before that time, except when the time was set       *)
(* during a period shorter than a heartbeat.                              *)
NotEarly ==
    [][expired' /\ ~expired => now >= deadline \/ hurried]_vars

(* A command that a watchdog guards is finished with, even if it never    *)
(* exits, unless the kill fails: then the child watch is gone for good.   *)
Unwatched == pid \in {"running", "zombie"} /\ ~pidWatch
WatchedEnds == timer.on ~> (called = 1 \/ Unwatched)

=============================================================================
