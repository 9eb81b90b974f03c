--------------------------- MODULE Process_proofs ---------------------------
(***************************************************************************)
(* The safety of Process.tla, for every heartbeat, budget and adjustment.  *)
(*                                                                         *)
(* Two invariants.  Phases says which sources there are in each phase of   *)
(* the child: that is what makes freeing the process data safe.  Timing    *)
(* says when the timeout is due: now + timer.left never changes while the  *)
(* clock ticks, so it is compared with the deadline once and for all when  *)
(* a period begins.                                                        *)
(***************************************************************************)
EXTENDS Process, TLAPS

Phases ==
    /\ pid \in {"none", "failed"} => /\ ~pidWatch /\ ~io /\ ~finishId
                                     /\ ~timer.on /\ ~hooked /\ called = 0
    /\ pid = "none" => finishes = 0
    /\ pid = "reaped" => ~pidWatch

Safe == TypeOK /\ Phases /\ FreedIsUnreachable /\ OneFinish

(* A time of the user counts from its request, until it is looked at.      *)
Asked == adjusted => changedAt <= now /\ deadline = changedAt + remaining

(* A period ends at now + timer.left and began timer.every before.  While  *)
(* the user's time has not been looked at it ends within a heartbeat of    *)
(* the request or of the fork, whichever is later; a shorter period was    *)
(* either there when the time was set, or it is the whole of that time and *)
(* ends when that is over.  Once the time was looked at no period goes     *)
(* past the deadline, and if no time was set in a short period it ends a   *)
(* whole number of heartbeats before it, or at it.                         *)
Due == now + timer.left

Pending == /\ Due <= SeenBy
           /\ ~hurried => timer.every = HEARTBEAT \/ deadline <= Due

Counted == /\ timer.every <= remaining
           /\ Due + remaining <= deadline + timer.every
           /\ ~hurried => /\ Due + remaining = deadline + timer.every
                          /\ \/ timer.every = HEARTBEAT
                             \/ timer.every = remaining

Timing == /\ Asked
          /\ timer.on => /\ timer.left <= timer.every
                         /\ IF adjusted THEN Pending ELSE Counted

Timers == [on : BOOLEAN, left : 0 .. HEARTBEAT, every : 0 .. HEARTBEAT]

USE DEF sourceVars, taskVars, historyVars

----------------------------------------------------------------------------
(* A timeout of at most a heartbeat.                                       *)
LEMMA Timed ==
    ASSUME NEW n \in Nat, n <= HEARTBEAT
    PROVE  /\ Every(n) \in Timers /\ Every(n).on /\ Every(n).left = n
           /\ Every(n).every = n
BY ProcessAssumption DEF Every, Timers

LEMMA NotTimed == Off \in Timers /\ ~Off.on
BY ProcessAssumption DEF Off, Timers

LEMMA FirstPeriod ==
    ASSUME TypeOK
    PROVE  /\ FirstTimer \in Timers
           /\ FirstTimer.on => /\ FirstTimer.left = FirstTimer.every
                               /\ FirstTimer.every <= remaining
                               /\ \/ FirstTimer.every = HEARTBEAT
                                  \/ FirstTimer.every = remaining
<1>1. /\ Period(remaining) \in Nat /\ Period(remaining) <= HEARTBEAT
      /\ Period(remaining) <= remaining
      /\ Period(remaining) = HEARTBEAT \/ Period(remaining) = remaining
    BY ProcessAssumption DEF TypeOK, Period
<1> QED
    BY <1>1, Timed, NotTimed DEF FirstTimer

LEMMA Left ==
    ASSUME TypeOK
    PROVE  /\ Heartbeat(remaining) \in Nat
           /\ adjusted => Heartbeat(remaining) = IF remaining > now - changedAt
                                     THEN remaining - (now - changedAt) ELSE 0
           /\ ~adjusted => Heartbeat(remaining) = IF remaining > HEARTBEAT
                                     THEN remaining - HEARTBEAT ELSE 0
BY ProcessAssumption
DEF TypeOK, Heartbeat, SinceChange, SinceHeartbeat, Minus

LEMMA Killed ==
    ASSUME Kill, TypeOK
    PROVE  /\ pid' \in {"running", "zombie"} /\ (pidWatch' => pidWatch)
           /\ pidWatch' \in BOOLEAN /\ lwd' \in BOOLEAN
<1>1. CASE /\ pid \in {"running", "zombie"}
           /\ pid' = "zombie" /\ lwd' = TRUE /\ pidWatch' = pidWatch
    BY <1>1 DEF TypeOK
<1>2. CASE /\ pid = "running"
           /\ pidWatch' = FALSE /\ pid' = pid /\ lwd' = lwd
    BY <1>2 DEF TypeOK
<1> QED
    BY <1>1, <1>2 DEF Kill

----------------------------------------------------------------------------
LEMMA SafeInit == Init => Safe
<1> SUFFICES ASSUME Init PROVE Safe
    OBVIOUS
<1>1. timer \in Timers /\ ~timer.on
    BY NotTimed DEF Init
<1>2. TypeOK
    BY <1>1, ProcessAssumption DEF Init, TypeOK, Timers
<1> QED
    BY <1>1, <1>2 DEF Init, Safe, Phases, FreedIsUnreachable, OneFinish

(* The two sources that call process_pid_finish later add one idle source  *)
(* between them.                                                           *)
LEMMA FinishAdded ==
    ASSUME Safe, AddFinish, pid # "failed", called = 0
    PROVE  finishes' = 1 /\ finishId'
BY DEF Safe, TypeOK, OneFinish, AddFinish

LEMMA SafeStep == Safe /\ [Next]_vars => Safe'
<1> SUFFICES ASSUME Safe, [Next]_vars PROVE Safe'
    OBVIOUS
<1> USE DEF Safe
<1>1. CASE UNCHANGED vars
    BY <1>1 DEF vars, TypeOK, Phases, FreedIsUnreachable, OneFinish
<1>2. CASE Run
  <2>1. timer' \in Timers /\ deadline' \in Nat
      BY <1>2, FirstPeriod DEF Run, TypeOK
  <2>2. pid' \in {"running", "zombie"} /\ pidWatch' = TRUE
        /\ (lwd' = lwd \/ lwd' = TRUE)
      BY <1>2 DEF Run
  <2>3. pidWatch' \in BOOLEAN /\ lwd' \in BOOLEAN
      BY <2>2, Zenon DEF TypeOK
  <2>4. TypeOK'
      BY <1>2, <2>1, <2>2, <2>3 DEF Run, TypeOK, Timers
  <2>5. called' = 0 /\ finishes' = 0 /\ ~finishId'
      BY <1>2 DEF Run, Phases, OneFinish, TypeOK
  <2> QED
      BY <2>2, <2>4, <2>5 DEF Phases, FreedIsUnreachable, OneFinish
<1>3. CASE RunFails
    BY <1>3 DEF RunFails, TypeOK, Phases, FreedIsUnreachable, OneFinish
<1>4. CASE ChildClosesOutput
    BY <1>4
    DEF ChildClosesOutput, TypeOK, Phases, FreedIsUnreachable, OneFinish
<1>5. CASE ChildExits
  <2>1. ioReady' \in BOOLEAN
      BY <1>5, Zenon DEF ChildExits, TypeOK
  <2>2. /\ pid = "running" /\ pid' = "zombie"
        /\ UNCHANGED <<sourceVars, timer, hooked, cancelled, lwd, called,
                       taskVars, now, historyVars>>
      BY <1>5 DEF ChildExits
  <2>3. TypeOK'
      BY <2>1, <2>2 DEF TypeOK
  <2> QED
      BY <2>2, <2>3 DEF TypeOK, Phases, FreedIsUnreachable, OneFinish
<1>6. CASE IoFinish
  <2>1. pid \notin {"none", "failed"} /\ called = 0
      BY <1>6 DEF IoFinish, Phases, FreedIsUnreachable, TypeOK
  <2>2. finishes' = 1 /\ finishId'
      BY <1>6, <2>1, FinishAdded DEF IoFinish
  <2> QED
      BY <1>6, <2>1, <2>2
      DEF IoFinish, TypeOK, Phases, FreedIsUnreachable, OneFinish
<1>7. CASE PidCallback
  <2>1. pid = "zombie" /\ called = 0
      BY <1>7 DEF PidCallback, FreedIsUnreachable, TypeOK
  <2>2. finishes' = 1 /\ finishId'
      BY <1>7, <2>1, FinishAdded DEF PidCallback
  <2> QED
      BY <1>7, <2>1, <2>2
      DEF PidCallback, TypeOK, Phases, FreedIsUnreachable, OneFinish
<1>8. CASE PidFinish
  <2>1. called = 0 /\ finishes' \in Nat /\ finishes > 0
      BY <1>8 DEF PidFinish, FreedIsUnreachable, TypeOK
  <2>2. pid # "failed" => finishes' = 0
      BY <1>8, <2>1 DEF PidFinish, OneFinish, TypeOK
  <2>3. CASE pid = "reaped" /\ ~io
    <3>1. timer' = Off /\ called' = 1 /\ hooked' = FALSE
          /\ UNCHANGED <<pidWatch, io>>
          /\ finishId' = finishId /\ pid' = pid
          /\ UNCHANGED <<ioReady, cancelled, lwd, taskVars, now, historyVars>>
        BY <1>8, <2>1, <2>3 DEF PidFinish, StopTimer
    <3>2. timer' \in Timers /\ ~timer'.on
        BY <3>1, NotTimed
    <3>3. hooked' \in BOOLEAN /\ called' \in Nat
        BY <3>1
    <3>4. TypeOK'
        BY <2>1, <3>1, <3>2, <3>3 DEF TypeOK, Timers
    <3> QED
        BY <2>2, <2>3, <3>1, <3>2, <3>4
        DEF Phases, FreedIsUnreachable, OneFinish
  <2>4. CASE pid # "reaped" \/ io
    <3>1. /\ finishId' = FALSE
          /\ UNCHANGED <<timer, hooked, called, pid, pidWatch, io, ioReady,
                         cancelled, lwd, taskVars, now, historyVars>>
        BY <1>8, <2>4 DEF PidFinish, NotYet
    <3>2. TypeOK'
        BY <2>1, <3>1, ZenonT(30) DEF TypeOK
    <3>3. pid # "none"
        BY <2>1 DEF Phases, TypeOK
    <3> QED
        BY <2>1, <2>2, <3>1, <3>2, <3>3
        DEF Phases, FreedIsUnreachable, OneFinish
  <2> QED
      BY <2>3, <2>4 DEF TypeOK
<1>9. CASE Timeout
  <2>1. pid \notin {"none", "failed"} /\ called = 0
      BY <1>9 DEF Timeout, Phases, FreedIsUnreachable, TypeOK
  <2>2. /\ UNCHANGED <<io, finishes, finishId, hooked, called>>
        /\ pid' \in {"running", "zombie", "reaped"}
        /\ pidWatch' => pidWatch
        /\ pid' = "reaped" => pid = "reaped"
        /\ pidWatch' \in BOOLEAN /\ lwd' \in BOOLEAN /\ expired' \in BOOLEAN
    <3>1. CASE UNCHANGED <<pid, pidWatch, lwd, expired>>
        BY <1>9, <2>1, <3>1 DEF Timeout, TypeOK
    <3>2. CASE Kill /\ expired' = TRUE
        BY <1>9, <3>2, Killed DEF Timeout
    <3> QED
        BY <1>9, <3>1, <3>2 DEF Timeout
  <2>3. timer' \in Timers /\ remaining' \in Nat /\ adjusted' \in BOOLEAN
    <3>1. CASE pid = "reaped"
        BY <1>9, <3>1, NotTimed DEF Timeout, TypeOK
    <3>2. CASE pid # "reaped"
      <4>1. [timer EXCEPT !.left = timer.every] \in Timers
          BY DEF TypeOK, Timers
      <4>2. Heartbeat(remaining) < HEARTBEAT
                => Every(Heartbeat(remaining)) \in Timers
          BY Left, Timed, ProcessAssumption
      <4> QED
          BY <1>9, <3>2, <4>1, <4>2, Left, NotTimed DEF Timeout
    <3> QED
        BY <3>1, <3>2
  <2>4. TypeOK'
    <3>1. changedAt' = changedAt
        BY <1>9 DEF Timeout
    <3> QED
        BY <1>9, <2>2, <2>3, <3>1 DEF Timeout, TypeOK, Timers
  <2> QED
      BY <2>1, <2>2, <2>4 DEF Phases, FreedIsUnreachable, OneFinish
<1>10. CASE Cancel
  <2>1. CASE hooked
    <3>1. pid \in {"running", "zombie", "reaped"} /\ called = 0
        BY <2>1 DEF Phases, FreedIsUnreachable, TypeOK
    <3>2. /\ UNCHANGED <<io, finishes, finishId, hooked, called>>
          /\ pid' \in {"running", "zombie", "reaped"}
          /\ pidWatch' => pidWatch
          /\ pid' = "reaped" => pid = "reaped"
          /\ pidWatch' \in BOOLEAN /\ lwd' \in BOOLEAN
          /\ timer' = Off /\ cancelled' = TRUE
      <4>1. CASE UNCHANGED <<pid, pidWatch, lwd>>
          BY <1>10, <2>1, <3>1, <4>1 DEF Cancel, TypeOK
      <4>2. CASE Kill
          BY <1>10, <2>1, <4>2, Killed DEF Cancel
      <4> QED
          BY <1>10, <2>1, <4>1, <4>2 DEF Cancel
    <3>3. TypeOK'
        BY <1>10, <3>2, NotTimed DEF Cancel, TypeOK, Timers
    <3> QED
        BY <3>1, <3>2, <3>3 DEF Phases, FreedIsUnreachable, OneFinish
  <2>2. CASE ~hooked
      BY <1>10, <2>2 DEF Cancel, TypeOK, Phases, FreedIsUnreachable, OneFinish
  <2> QED
      BY <2>1, <2>2
<1>11. ASSUME NEW n \in Adjustments, Adjust(n) PROVE Safe'
  <2>1. n \in Nat
      BY ProcessAssumption
  <2> QED
      BY <1>11, <2>1 DEF Adjust, TypeOK, Phases, FreedIsUnreachable, OneFinish
<1>12. CASE Tick
  <2>1. timer' \in Timers /\ timer'.on = timer.on
      BY <1>12, ProcessAssumption DEF Tick, Ready, TypeOK, Timers
  <2>2. TypeOK'
      BY <1>12, <2>1 DEF Tick, TypeOK, Timers
  <2> QED
      BY <1>12, <2>1, <2>2 DEF Tick, Phases, FreedIsUnreachable, OneFinish
<1> QED
    BY <1>1, <1>2, <1>3, <1>4, <1>5, <1>6, <1>7, <1>8, <1>9, <1>10, <1>11,
       <1>12
    DEF Next, Sources

----------------------------------------------------------------------------
(* The phases of a command and the state of its timeout, step by step.     *)
TInv == Safe /\ Timing

LEMMA TimingInit == Init => Timing
BY NotTimed DEF Init, Timing, Asked

(* A step that leaves the times alone, and the timeout, or ends it.        *)
LEMMA TimingKept ==
    ASSUME Timing, UNCHANGED <<taskVars, now, deadline, forkedAt, hurried>>,
           timer' = Off \/ timer' = timer
    PROVE  Timing'
<1>1. Asked'
    BY DEF Timing, Asked
<1>2. CASE timer' = Off
    BY <1>1, <1>2, NotTimed DEF Timing
<1>3. CASE timer' = timer
    BY <1>1, <1>3 DEF Timing, Pending, Counted, Due, SeenBy
<1> QED
    BY <1>2, <1>3

LEMMA TimeoutTimed == TInv /\ Timeout => Timing'
<1> SUFFICES ASSUME Safe, TypeOK, Timing, Timeout PROVE Timing'
    BY DEF TInv, Safe
<1> DEFINE left == Heartbeat(remaining)
<1>1. /\ timer.on /\ timer.left = 0 /\ timer.every \in 0 .. HEARTBEAT
      /\ remaining \in Nat /\ now \in Nat /\ changedAt \in Nat
      /\ deadline \in Nat /\ left \in Nat /\ HEARTBEAT \in Nat \ {0}
    BY Left, ProcessAssumption DEF Timeout, TypeOK
<1>2. /\ adjusted => left = IF remaining > now - changedAt
                            THEN remaining - (now - changedAt) ELSE 0
      /\ ~adjusted => left = IF remaining > HEARTBEAT
                             THEN remaining - HEARTBEAT ELSE 0
    BY Left
<1> HIDE DEF left
<1>3. CASE timer' = Off
  <2>1. ~adjusted' \/ UNCHANGED <<taskVars, now, deadline>>
      BY DEF Timeout
  <2>2. Asked'
      BY <2>1 DEF Timing, Asked
  <2> QED
      BY <1>3, <2>2, NotTimed DEF Timing
<1>4. CASE timer' # Off
  <2>1. /\ remaining' = left /\ ~adjusted' /\ left > 0
        /\ timer' = IF left < HEARTBEAT THEN Every(left)
                    ELSE [timer EXCEPT !.left = timer.every]
        /\ UNCHANGED <<now, deadline, hurried>>
      BY <1>4 DEF Timeout, left
  <2>2. IF left < HEARTBEAT
        THEN timer'.left = left /\ timer'.every = left
        ELSE timer'.left = timer.every /\ timer'.every = timer.every
      BY <1>1, <2>1, Timed DEF TypeOK
  <2>3. left <= deadline - now
    <3>1. CASE adjusted
        BY <1>1, <1>2, <2>1, <3>1 DEF Timing, Asked
    <3>2. CASE ~adjusted
        BY <1>1, <1>2, <2>1, <3>2 DEF Timing, Counted, Due
    <3> QED
        BY <3>1, <3>2
  <2>4. ~hurried => left = deadline - now
    <3>1. CASE adjusted
        BY <1>1, <1>2, <2>1, <3>1 DEF Timing, Asked
    <3>2. CASE ~adjusted
        BY <1>1, <1>2, <2>1, <3>2 DEF Timing, Counted, Due
    <3> QED
        BY <3>1, <3>2
  <2>5. ~hurried /\ left >= HEARTBEAT => timer.every = HEARTBEAT
    <3>1. CASE adjusted
        BY <1>1, <1>2, <2>1, <3>1 DEF Timing, Asked, Pending, Due
    <3>2. CASE ~adjusted
        BY <1>1, <1>2, <3>2 DEF Timing, Counted
    <3> QED
        BY <3>1, <3>2
  <2>6. timer'.left = timer'.every /\ timer'.every <= left
      BY <1>1, <2>2
  <2>7. timer'.every \in Nat
      BY <1>1, <2>2
  <2>8. Counted'
      BY <1>1, <2>1, <2>2, <2>3, <2>4, <2>5, <2>6, <2>7 DEF Counted, Due
  <2> QED
      BY <2>1, <2>6, <2>7, <2>8 DEF Timing, Asked
<1> QED
    BY <1>3, <1>4

LEMMA TimingStep == TInv /\ [Next]_vars => Timing'
<1> SUFFICES ASSUME Safe, TypeOK, Timing, [Next]_vars PROVE Timing'
    BY DEF TInv, Safe
<1>1. CASE UNCHANGED vars
    BY <1>1, TimingKept DEF vars
<1>2. CASE Run
  <2>1. /\ timer' = FirstTimer /\ forkedAt' = now
        /\ deadline' = IF adjusted THEN deadline ELSE now + remaining
        /\ UNCHANGED <<taskVars, now, hurried>>
      BY <1>2 DEF Run
  <2>2. /\ remaining \in Nat /\ now \in Nat /\ changedAt \in Nat
        /\ FirstTimer.every \in 0 .. HEARTBEAT /\ HEARTBEAT \in Nat
      BY FirstPeriod, ProcessAssumption DEF TypeOK, Timers
  <2>3. Asked'
      BY <2>1 DEF Timing, Asked
  <2>4. CASE adjusted
    <3>1. timer'.on => Pending' /\ timer'.left <= timer'.every
        BY <2>1, <2>2, <2>4, FirstPeriod DEF Timing, Asked, Pending, Due, SeenBy
    <3> QED
        BY <2>1, <2>3, <2>4, <3>1 DEF Timing
  <2>5. CASE ~adjusted
    <3>1. timer'.on => Counted' /\ timer'.left <= timer'.every
        BY <2>1, <2>2, <2>5, FirstPeriod, ProcessAssumption DEF Counted, Due
    <3> QED
        BY <2>1, <2>3, <2>5, <3>1 DEF Timing
  <2> QED
      BY <2>4, <2>5
<1>3. CASE RunFails \/ ChildClosesOutput \/ ChildExits \/ IoFinish
           \/ PidCallback
    BY <1>3, TimingKept
    DEF RunFails, ChildClosesOutput, ChildExits, IoFinish, PidCallback
<1>4. CASE PidFinish
    BY <1>4, TimingKept DEF PidFinish, StopTimer
<1>5. CASE Timeout
    BY <1>5, TimeoutTimed DEF TInv
<1>6. CASE Cancel
    BY <1>6, TimingKept DEF Cancel
<1>7. ASSUME NEW n \in Adjustments, Adjust(n) PROVE Timing'
  <2>1. /\ remaining' = n /\ adjusted' /\ changedAt' = now
        /\ deadline' = now + n /\ UNCHANGED <<timer, now, forkedAt>>
        /\ timer.on /\ ~hurried' => timer.every = HEARTBEAT
        /\ n \in Nat /\ now \in Nat /\ HEARTBEAT \in Nat
        /\ forkedAt \in Nat /\ timer.left \in 0 .. HEARTBEAT
      BY <1>7, ProcessAssumption DEF Adjust, TypeOK
  <2>2. Asked'
      BY <2>1 DEF Asked
  <2>3. timer.on => Pending'
      BY <2>1 DEF Pending, Due, SeenBy
  <2> QED
      BY <2>1, <2>2, <2>3 DEF Timing
<1>8. CASE Tick
  <2>1. /\ UNCHANGED <<taskVars, deadline, forkedAt, hurried>>
        /\ now' = now + 1
        /\ timer'.on = timer.on /\ timer'.every = timer.every
        /\ timer.on => timer'.left = timer.left - 1 /\ timer.left # 0
        /\ timer.left \in Nat /\ timer.every \in Nat /\ now \in Nat
      BY <1>8, ProcessAssumption DEF Tick, Ready, TypeOK
  <2>2. timer.on => Due' = Due /\ timer'.left <= timer.left
      BY <2>1 DEF Due
  <2>3. changedAt \in Nat /\ forkedAt \in Nat /\ HEARTBEAT \in Nat
        /\ SeenBy' = SeenBy
      BY <2>1, ProcessAssumption DEF TypeOK, SeenBy
  <2>4. Asked'
      BY <2>1, <2>3 DEF Timing, Asked
  <2> QED
      BY <2>1, <2>2, <2>3, <2>4 DEF Timing, Pending, Counted
<1> QED
    BY <1>1, <1>2, <1>3, <1>4, <1>5, <1>6, <1>7, <1>8 DEF Next, Sources

----------------------------------------------------------------------------
THEOREM Inductive == Spec => []TInv
<1>1. Init => TInv
    BY SafeInit, TimingInit DEF TInv
<1>2. TInv /\ [Next]_vars => TInv'
    BY SafeStep, TimingStep DEF TInv
<1> QED
    BY <1>1, <1>2, PTL DEF Spec

(* Every variable of a command has its type: no count goes below zero, and *)
(* the timeout is never longer than a heartbeat.                           *)
THEOREM TypeCorrect == Spec => []TypeOK
<1>1. TInv => TypeOK
    BY DEF TInv, Safe
<1> QED
    BY <1>1, Inductive, PTL

(* The process data is freed once, and then no child watch, io watch, idle *)
(* source, timeout or cancellation can reach it.                           *)
THEOREM FreedOnce == Spec => []FreedIsUnreachable
<1>1. TInv => FreedIsUnreachable
    BY DEF TInv, Safe
<1> QED
    BY <1>1, Inductive, PTL

(* The end of the output and the exit of the child, in either order, leave *)
(* one idle source of process_pid_finish.                                  *)
THEOREM AtMostOneFinish == Spec => []OneFinish
<1>1. TInv => OneFinish
    BY DEF TInv, Safe
<1> QED
    BY <1>1, Inductive, PTL

(* No child outlives its time, counted from the fork or the last request,  *)
(* or the timeout that sees a request: a heartbeat at most.                *)
THEOREM WatchdogInTime == Spec => []NeverLate
<1>1. TInv => NeverLate
  <2> SUFFICES ASSUME TInv, timer.on
               PROVE  now <= deadline \/ (adjusted /\ now <= SeenBy)
      BY DEF NeverLate
  <2>1. /\ timer.left \in Nat /\ timer.every \in Nat /\ now \in Nat
        /\ remaining \in Nat /\ deadline \in Nat /\ changedAt \in Nat
        /\ HEARTBEAT \in Nat /\ SeenBy \in Nat
      BY ProcessAssumption DEF TInv, Safe, TypeOK, SeenBy
  <2>2. CASE adjusted
      BY <2>1, <2>2 DEF TInv, Timing, Pending, Due
  <2>3. CASE ~adjusted
      BY <2>1, <2>3 DEF TInv, Timing, Counted, Due
  <2> QED
      BY <2>2, <2>3
<1> QED
    BY <1>1, Inductive, PTL

(* The watchdog kills no child before its time, unless that time was set   *)
(* in a period shorter than a heartbeat.                                   *)
THEOREM WatchdogNotEarly == Spec => NotEarly
<1>1. ASSUME TInv, [Next]_vars, expired', ~expired
      PROVE  now >= deadline \/ hurried
  <2>1. Timeout /\ timer' = Off /\ pid # "reaped"
      BY <1>1
      DEF Next, Sources, vars, Run, RunFails, ChildClosesOutput, ChildExits,
          IoFinish, PidCallback, PidFinish, Timeout, Cancel, Adjust, Tick
  <2>2. Heartbeat(remaining) = 0
    <3>1. ~(Heartbeat(remaining) > 0)
        BY <1>1, <2>1 DEF Timeout
    <3> QED
        BY <1>1, <3>1, Left DEF TInv, Safe
  <2>3. /\ timer.on /\ timer.left = 0 /\ timer.every \in 0 .. HEARTBEAT
        /\ remaining \in Nat /\ now \in Nat /\ changedAt \in Nat
        /\ deadline \in Nat /\ HEARTBEAT \in Nat
      BY <1>1, <2>1, ProcessAssumption DEF Timeout, TInv, Safe, TypeOK
  <2>4. CASE adjusted
      BY <1>1, <2>2, <2>3, <2>4, Left DEF TInv, Safe, Timing, Asked
  <2>5. CASE ~adjusted
      BY <1>1, <2>2, <2>3, <2>5, Left DEF TInv, Safe, Timing, Counted, Due
  <2> QED
      BY <2>4, <2>5
<1>2. TInv /\ [Next]_vars
          => [expired' /\ ~expired => now >= deadline \/ hurried]_vars
    BY <1>1
<1> QED
    BY <1>2, Inductive, PTL DEF Spec, NotEarly

=============================================================================
