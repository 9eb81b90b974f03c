------------------------- MODULE TaskRunner_proofs -------------------------
(***************************************************************************)
(* The safety of TaskRunner.tla and its refinement of RecipeLedger.tla,    *)
(* for any number of tasks, retries, reboots and requests, in four parts.  *)
(* Each has an inductive invariant of its own, which builds on the ones    *)
(* before it:                                                              *)
(*                                                                         *)
(*   1. IInv     the types and the baton;                                  *)
(*   2. RInv     what an abort, a local watchdog and a reboot may not      *)
(*               cause;                                                    *)
(*   3. Skipped  two orders of messages;                                   *)
(*   4. LInv     what the lab controller sees of the recipe.               *)
(***************************************************************************)
EXTENDS TaskRunner, SequenceTheorems, TLAPS

(***************************************************************************)
(* Part 1.  Type correctness and the baton.                                *)
(*                                                                         *)
(* TypeOK is not inductive: the messages of task_handler are about the     *)
(* current task, so there must be one whenever the handler runs.  That is  *)
(* so because task_handler and its operations are only there while the     *)
(* recipe is RECIPE_RUNNING (Baton), and app_data->tasks is not NULL then  *)
(* (InRecipe), and because the fetch of the recipe cannot come back while  *)
(* the recipe runs (Fetching).  The four are inductive together.           *)
(***************************************************************************)


(* The recipe's XML is awaited, or its retry, only in RECIPE_FETCHING, and *)
(* never both.                                                             *)
Fetching ==
    /\ ("recipe_xml" \in rsrc \/ "fetch_retry" \in rsrc)
            => rstate = "RECIPE_FETCHING"
    /\ ~("recipe_xml" \in rsrc /\ "fetch_retry" \in rsrc)

(* There is a current task exactly while the recipe runs.                  *)
InRecipe == tasks # 0 <=> rstate \in {"RECIPE_RUN", "RECIPE_RUNNING"}

IInv == TypeOK /\ Baton /\ Fetching /\ InRecipe

USE DEF recipeVars, cancelVars, serverVars, boundVars

----------------------------------------------------------------------------
(* Callbacks in a queue q: messages whose answer re-adds task_handler.     *)
CallbackIn(q, i) == q[i].kind \in CallbackKinds
OneCallbackIn(q) == \E i \in 1 .. Len(q) :
                        \A j \in 1 .. Len(q) : CallbackIn(q, j) <=> j = i
NoCallbackIn(q) == \A i \in 1 .. Len(q) : ~CallbackIn(q, i)

LEMMA CallbacksInQueue ==
    /\ OneCallback <=> OneCallbackIn(queue)
    /\ NoCallback <=> NoCallbackIn(queue)
    /\ OneCallback' <=> OneCallbackIn(queue')
    /\ NoCallback' <=> NoCallbackIn(queue')
BY DEF OneCallback, NoCallback, IsCallback, OneCallbackIn, NoCallbackIn,
       CallbackIn

(* Queueing a message with a callback where there is none makes it the     *)
(* only one; queueing one without changes nothing.                         *)
LEMMA CallbackQueued ==
    ASSUME NEW q \in Seq(Message), NEW m \in Message
    PROVE  /\ m.kind \in CallbackKinds /\ NoCallbackIn(q)
                  => OneCallbackIn(Append(q, m))
           /\ m.kind \notin CallbackKinds /\ NoCallbackIn(q)
                  => NoCallbackIn(Append(q, m))
           /\ m.kind \notin CallbackKinds /\ OneCallbackIn(q)
                  => OneCallbackIn(Append(q, m))
<1> DEFINE a == Append(q, m)
<1>1. /\ Len(q) \in Nat /\ Len(a) = Len(q) + 1
      /\ a[Len(q) + 1] = m /\ \A i \in 1 .. Len(q) : a[i] = q[i]
    BY AppendProperties, LenProperties
<1> HIDE DEF a
<1>2. /\ CallbackIn(a, Len(a)) <=> m.kind \in CallbackKinds
      /\ \A i \in 1 .. Len(q) : CallbackIn(a, i) <=> CallbackIn(q, i)
    BY <1>1 DEF CallbackIn
<1>3. \A i \in 1 .. Len(a) : i \in 1 .. Len(q) \/ i = Len(a)
    BY <1>1
<1>4. /\ \A i \in 1 .. Len(q) : i \in 1 .. Len(a) /\ i # Len(a)
      /\ Len(a) \in 1 .. Len(a)
    BY <1>1
<1>5. ASSUME m.kind \in CallbackKinds, NoCallbackIn(q)
      PROVE  OneCallbackIn(a)
  <2>1. \A j \in 1 .. Len(a) : CallbackIn(a, j) <=> j = Len(a)
      BY <1>2, <1>3, <1>4, <1>5 DEF NoCallbackIn
  <2> QED
      BY <1>4, <2>1 DEF OneCallbackIn
<1>6. ASSUME m.kind \notin CallbackKinds, NoCallbackIn(q)
      PROVE  NoCallbackIn(a)
    BY <1>2, <1>3, <1>6 DEF NoCallbackIn
<1>7. ASSUME m.kind \notin CallbackKinds, OneCallbackIn(q)
      PROVE  OneCallbackIn(a)
  <2>1. PICK i \in 1 .. Len(q) :
            \A j \in 1 .. Len(q) : CallbackIn(q, j) <=> j = i
      BY <1>7 DEF OneCallbackIn
  <2>2. ASSUME NEW j \in 1 .. Len(a) PROVE CallbackIn(a, j) <=> j = i
    <3>1. CASE j \in 1 .. Len(q)
        BY <1>2, <2>1, <3>1
    <3>2. CASE j = Len(a)
      <4>1. ~CallbackIn(a, j) /\ j # i
          BY <1>2, <1>4, <1>7, <3>2
      <4> QED
          BY <4>1
    <3> QED
        BY <1>3, <3>1, <3>2
  <2> QED
      BY <1>4, <2>2 DEF OneCallbackIn
<1> QED
    BY <1>5, <1>6, <1>7 DEF a

(* Answering the message with the callback leaves none, answering another  *)
(* leaves them as they are.                                                *)
LEMMA CallbackAnswered ==
    ASSUME NEW q \in Seq(Message), q # <<>>
    PROVE  /\ Head(q).kind \in CallbackKinds /\ OneCallbackIn(q)
                  => NoCallbackIn(Tail(q))
           /\ Head(q).kind \in CallbackKinds => ~NoCallbackIn(q)
           /\ NoCallbackIn(q) => NoCallbackIn(Tail(q))
           /\ Head(q).kind \notin CallbackKinds /\ OneCallbackIn(q)
                  => OneCallbackIn(Tail(q))
<1> DEFINE t == Tail(q)
<1>1. /\ Len(q) \in Nat \ {0} /\ Len(t) = Len(q) - 1 /\ Head(q) = q[1]
      /\ \A i \in 1 .. Len(t) : t[i] = q[i + 1]
    BY HeadTailProperties, EmptySeq
<1> HIDE DEF t
<1>2. /\ 1 \in 1 .. Len(q)
      /\ \A i \in 1 .. Len(t) : i + 1 \in 1 .. Len(q) /\ i + 1 # 1
      /\ \A i \in 1 .. Len(q) : i # 1 => i - 1 \in 1 .. Len(t)
      /\ \A i, j \in 1 .. Len(q) : i - 1 = j - 1 => i = j
    BY <1>1
<1>3. /\ CallbackIn(q, 1) <=> Head(q).kind \in CallbackKinds
      /\ \A i \in 1 .. Len(t) : CallbackIn(t, i) <=> CallbackIn(q, i + 1)
    BY <1>1 DEF CallbackIn
<1>4. Head(q).kind \in CallbackKinds => ~NoCallbackIn(q)
    BY <1>2, <1>3 DEF NoCallbackIn
<1>5. NoCallbackIn(q) => NoCallbackIn(t)
    BY <1>2, <1>3 DEF NoCallbackIn
<1>6. ASSUME Head(q).kind \in CallbackKinds, OneCallbackIn(q)
      PROVE  NoCallbackIn(t)
  <2>1. PICK i \in 1 .. Len(q) :
            \A j \in 1 .. Len(q) : CallbackIn(q, j) <=> j = i
      BY <1>6 DEF OneCallbackIn
  <2>2. i = 1
      BY <1>2, <1>3, <1>6, <2>1
  <2> QED
      BY <1>2, <1>3, <2>1, <2>2 DEF NoCallbackIn
<1>7. ASSUME Head(q).kind \notin CallbackKinds, OneCallbackIn(q)
      PROVE  OneCallbackIn(t)
  <2>1. PICK i \in 1 .. Len(q) :
            \A j \in 1 .. Len(q) : CallbackIn(q, j) <=> j = i
      BY <1>7 DEF OneCallbackIn
  <2>2. i # 1 /\ i - 1 \in 1 .. Len(t)
      BY <1>2, <1>3, <1>7, <2>1
  <2>3. \A j \in 1 .. Len(t) : j + 1 = i <=> j = i - 1
      BY <1>1
  <2>4. \A j \in 1 .. Len(t) : CallbackIn(t, j) <=> j = i - 1
      BY <1>2, <1>3, <2>1, <2>3
  <2> QED
      BY <2>2, <2>4 DEF OneCallbackIn
<1> QED
    BY <1>4, <1>5, <1>6, <1>7 DEF t

----------------------------------------------------------------------------
(* While anything moves the recipe on it is running, there is one such     *)
(* thing, a current task, and no message whose answer is waited for.       *)
LEMMA Running ==
    ASSUME IInv, src # {}
    PROVE  /\ rstate = "RECIPE_RUNNING" /\ tasks \in Tasks
           /\ \A op \in src : src = {op}
           /\ NoCallbackIn(queue)
<1>1. rstate = "RECIPE_RUNNING" /\ OneSource /\ NoCallback
    BY DEF IInv, Baton
<1>2. tasks # 0 /\ tasks \in 0 .. NTasks
    BY <1>1 DEF IInv, InRecipe, TypeOK
<1>3. tasks \in Tasks
    BY <1>2, RunnerAssumption DEF Tasks
<1> QED
    BY <1>1, <1>3, CallbacksInQueue DEF OneSource

LEMMA NewTaskTyped == NewTask \in Task
BY DEF NewTask, Task, TaskStates

LEMMA MsgTyped ==
    ASSUME tasks \in Tasks,
           NEW k \in CallbackKinds \cup {"result"} \cup ForwardKinds
    PROVE  Msg(k) \in Message /\ Msg(k).kind = k
BY DEF Msg, Message

(* What the process keeps in memory has its type when it starts anew.      *)
LEMMA ForgetTyped ==
    ASSUME Forget
    PROVE  /\ rerror' \in BOOLEAN /\ retries' \in Nat
           /\ tasks' \in 0 .. NTasks /\ finished' \in SUBSET Tasks
           /\ task' \in Task /\ src' \in SUBSET TaskSources
           /\ queue' \in Seq(Message) /\ cancelled' \in BOOLEAN
           /\ aborted' \in {"NONE", "TASK", "RECIPE"}
           /\ abortedAt' \in 0 .. NTasks
<1>1. rerror' \in BOOLEAN
    BY DEF Forget
<1>2. cancelled' \in BOOLEAN
    BY DEF Forget
<1>3. queue' \in Seq(Message)
    BY EmptySeq DEF Forget
<1>4. task' \in Task
    BY NewTaskTyped DEF Forget
<1> QED
    BY <1>1, <1>2, <1>3, <1>4, RunnerAssumption DEF Forget

(* ... and then nothing waits and nothing is queued.                       *)
LEMMA ForgetIdle == Forget => src' = {} /\ NoCallback' /\ tasks' = 0
<1> SUFFICES ASSUME Forget PROVE src' = {} /\ NoCallback' /\ tasks' = 0
    OBVIOUS
<1>1. src' = {} /\ queue' = <<>> /\ tasks' = 0
    BY DEF Forget
<1>2. NoCallbackIn(<<>>)
    BY EmptySeq DEF NoCallbackIn
<1> QED
    BY <1>1, <1>2, CallbacksInQueue

LEMMA DiesTyped ==
    ASSUME TypeOK, NEW how \in {"down", "exited"}, Dies(how),
           UNCHANGED <<stdin, config, runs, nboots>>,
           nreqs' \in Nat, srv' \in [Tasks -> {"New"} \cup StatusKinds],
           ewd' \in SUBSET Tasks, refused' \in SUBSET Tasks
    PROVE  TypeOK'
BY ForgetTyped DEF Dies, TypeOK, RecipeStates, RecipeSources

LEMMA DiesKeeps ==
    ASSUME NEW how, Dies(how)
    PROVE  Baton' /\ Fetching' /\ InRecipe'
BY ForgetIdle DEF Dies, Baton, Fetching, InRecipe

(* The recipe handler and the fetch of the recipe.                         *)
LEMMA RecipeTypes == TypeOK /\ RecipeNext => TypeOK'
<1> SUFFICES ASSUME TypeOK, RecipeNext PROVE TypeOK'
    OBVIOUS
<1> USE DEF TypeOK
<1>1. CASE RecipeFetch
    BY <1>1 DEF RecipeFetch, RecipeStep, RecipeStates, RecipeSources
<1>2. CASE RecipeFetchRetry
    BY <1>2 DEF RecipeFetchRetry, RecipeStates, RecipeSources
<1>3. CASE RecipeRun
    BY <1>3 DEF RecipeRun, RecipeStates, TaskSources
<1>4. CASE RecipeRunning
    BY <1>4 DEF RecipeRunning, RecipeStep
<1>5. CASE RecipeComplete
  <2>1. CASE /\ RecipeStep("RECIPE_COMPLETE")
             /\ rstate' = "RECIPE_IDLE" /\ rsrc' = rsrc \ {"recipe_handler"}
             /\ rerror' = FALSE /\ cancelled' = FALSE /\ tasks' = 0
             /\ UNCHANGED <<daemon, retries, finished, task>>
    <3>1. rerror' \in BOOLEAN /\ cancelled' \in BOOLEAN
        BY <2>1
    <3> QED
        BY <2>1, <3>1, RunnerAssumption DEF RecipeStep, RecipeStates
  <2> QED
      BY <1>5, <2>1, DiesTyped DEF RecipeComplete
<1>6. ASSUME NEW ok \in BOOLEAN, RecipeFetchCompleted(ok) PROVE TypeOK'
  <2>1. rerror' \in BOOLEAN
      BY <1>6 DEF RecipeFetchCompleted
  <2>2. rstate' \in RecipeStates /\ rsrc' \in SUBSET RecipeSources
      BY <1>6 DEF RecipeFetchCompleted, RecipeStates, RecipeSources
  <2>3. retries' = retries \/ retries' = retries + 1
      BY <1>6 DEF RecipeFetchCompleted
  <2>4. retries' \in Nat
      BY <2>3
  <2> QED
      BY <1>6, <2>1, <2>2, <2>4 DEF RecipeFetchCompleted
<1>7. ASSUME NEW ok \in BOOLEAN, RecipeParse(ok) PROVE TypeOK'
  <2>1. rerror' \in BOOLEAN
      BY <1>7 DEF RecipeParse
  <2>2. tasks' \in {1, tasks}
      BY <1>7 DEF RecipeParse
  <2>3. tasks' \in 0 .. NTasks
      BY <2>2, RunnerAssumption
  <2>4. finished' \in SUBSET Tasks /\ task' \in Task
      BY <1>7, NewTaskTyped DEF RecipeParse, FinishedInXml
  <2> QED
      BY <1>7, <2>1, <2>3, <2>4 DEF RecipeParse, RecipeStep, RecipeStates
<1> QED
    BY <1>1, <1>2, <1>3, <1>4, <1>5, <1>6, <1>7 DEF RecipeNext

----------------------------------------------------------------------------
(* Records of the task and of the config file.                             *)
LEMMA GotoTyped ==
    ASSUME TypeOK, NEW s \in TaskStates, Goto(s)
    PROVE  task' \in Task
BY DEF TypeOK, Goto, Task

LEMMA FailTyped == TypeOK /\ Fail => task' \in Task
BY DEF TypeOK, Fail, Task, TaskStates

LEMMA RestoredTyped ==
    ASSUME TypeOK, NEW c \in Section
    PROVE  Restored(c) \in Task
BY DEF TypeOK, Section, Restored, Task, IdleState, TaskStates

LEMMA WrittenTyped ==
    ASSUME TypeOK, NEW n \in 0 .. 2
    PROVE  Written(n) \in [Tasks -> Section]
<1>1. task.reboots + 1 \in Nat
    BY DEF TypeOK, Task
<1>2. ASSUME NEW c \in Section PROVE Saved(c, n) \in Section
    BY <1>1 DEF Section, Saved
<1> QED
    BY <1>2 DEF TypeOK, Written

LEMMA ForkedTyped == TypeOK /\ Forked => runs' \in [Tasks -> Nat]
<1> SUFFICES ASSUME TypeOK, Forked PROVE runs' \in [Tasks -> Nat]
    OBVIOUS
<1>1. \A t \in Tasks : runs[t] + 1 \in Nat
    BY DEF TypeOK
<1> QED
    BY <1>1 DEF TypeOK, Forked

LEMMA StartTyped ==
    ASSUME TypeOK, NEW op \in TaskSources, Start(op)
    PROVE  src' \in SUBSET TaskSources
BY DEF TypeOK, Start

LEMMA EnqueueTyped ==
    ASSUME TypeOK, NEW m \in Message, Enqueue(m)
    PROVE  queue' \in Seq(Message)
BY AppendProperties DEF TypeOK, Enqueue

(* The task handler.  Its messages are about the current task.             *)
LEMMA TaskTypes == IInv /\ TaskHandler => TypeOK'
<1> SUFFICES ASSUME IInv, TaskHandler PROVE TypeOK'
    OBVIOUS
<1>1. TypeOK
    BY DEF IInv
<1>2. ASSUME NEW state, TaskStep(state) PROVE tasks \in Tasks
    BY <1>2, Running DEF TaskStep
<1>3. ASSUME NEW k \in CallbackKinds, tasks \in Tasks, StartMessage(Msg(k))
      PROVE  src' \in SUBSET TaskSources /\ queue' \in Seq(Message)
    BY <1>1, <1>3, MsgTyped, EnqueueTyped DEF StartMessage, TypeOK
<1>4. ASSUME NEW readable \in BOOLEAN, TaskIdle(readable) PROVE TypeOK'
  <2>1. tasks \in Tasks /\ config[tasks] \in Section
      BY <1>1, <1>2, <1>4 DEF TaskIdle, TypeOK
  <2>2. task' \in Task
      BY <1>1, <1>4, <2>1, RestoredTyped, FailTyped DEF TaskIdle
  <2>3. /\ src' \in SUBSET TaskSources /\ queue' \in Seq(Message)
        /\ retries' \in Nat
      BY <1>1, <1>3, <1>4, <2>1
      DEF TaskIdle, TypeOK, CallbackKinds, StatusKinds
  <2> QED
      BY <1>1, <1>4, <2>2, <2>3 DEF TaskIdle, TaskStep, SameTask, TypeOK
<1>5. CASE TaskFetch
    BY <1>1, <1>5, StartTyped
    DEF TaskFetch, TaskStep, SameTask, TypeOK, TaskSources
<1>6. CASE TaskMetadataParse
    BY <1>1, <1>6, StartTyped
    DEF TaskMetadataParse, TaskStep, SameTask, TypeOK, TaskSources
<1>7. CASE TaskRefreshRoles
  <2>1. task' \in Task /\ src' \in SUBSET TaskSources /\ UNCHANGED queue
      BY <1>1, <1>7, StartTyped, GotoTyped
      DEF TaskRefreshRoles, Continue, TypeOK, TaskSources, TaskStates
  <2> QED
      BY <1>1, <1>7, <2>1 DEF TaskRefreshRoles, TaskStep, SameTask, TypeOK
<1>8. CASE TaskEnv
    BY <1>1, <1>8 DEF TaskEnv, TaskStep, SameTask, TypeOK, Task, TaskStates
<1>9. CASE TaskWatchdog
  <2>1. tasks \in Tasks /\ task' \in Task
      BY <1>1, <1>2, <1>9, GotoTyped DEF TaskWatchdog, TaskStates
  <2>2. src' \in SUBSET TaskSources /\ queue' \in Seq(Message)
      BY <1>1, <1>3, <1>9, <2>1 DEF TaskWatchdog, TypeOK, CallbackKinds
  <2> QED
      BY <1>1, <1>9, <2>1, <2>2 DEF TaskWatchdog, TaskStep, SameTask, TypeOK
<1>10. CASE TaskDependencies
  <2>1. task' \in Task /\ src' \in SUBSET TaskSources
      BY <1>1, <1>10, StartTyped, GotoTyped
      DEF TaskDependencies, TypeOK, TaskSources, TaskStates
  <2> QED
      BY <1>1, <1>10, <2>1 DEF TaskDependencies, TaskStep, SameTask, TypeOK
<1>11. CASE TaskRun
  <2>1. CASE MayRun
    <3>1. /\ runs' \in [Tasks -> Nat] /\ config' \in [Tasks -> Section]
          /\ src' \in SUBSET TaskSources /\ UNCHANGED queue
        BY <1>1, <1>11, <2>1, ForkedTyped, WrittenTyped, StartTyped
        DEF TaskRun, TaskSources
    <3>2. task' \in Task
        BY <1>1, <1>11, <2>1 DEF TaskRun, TypeOK, Task
    <3> QED
        BY <1>1, <1>11, <3>1, <3>2 DEF TaskRun, TaskStep, SameTask, TypeOK
  <2>2. CASE ~MayRun
    <3>1. task' \in Task /\ UNCHANGED <<src, queue, config, runs>>
        BY <1>1, <1>11, <2>2, GotoTyped DEF TaskRun, Continue, TaskStates
    <3> QED
        BY <1>1, <1>11, <3>1 DEF TaskRun, TaskStep, SameTask, TypeOK
  <2> QED
      BY <2>1, <2>2
<1>12. CASE TaskComplete
  <2>1. task' \in Task
      BY <1>1, <1>12 DEF TaskComplete, TypeOK, Task, TaskStates
  <2> QED
      BY <1>1, <1>12, <2>1 DEF TaskComplete, TaskStep, SameTask, TypeOK
<1>13. CASE TaskCompleted
  <2>1. tasks \in Tasks
      BY <1>2, <1>13 DEF TaskCompleted
  <2>2. src' \in SUBSET TaskSources /\ queue' \in Seq(Message)
      BY <1>3, <1>13, <2>1
      DEF TaskCompleted, EndStatus, CallbackKinds, StatusKinds, Terminal
  <2>3. task' \in Task
      BY <1>1, <1>13 DEF TaskCompleted, TypeOK, Task, TaskStates
  <2>4. config' \in [Tasks -> Section]
      BY <1>1, <1>13
      DEF TaskCompleted, ClearSection, TypeOK, Section, EmptySection
  <2>5. cancelled' \in BOOLEAN /\ aborted' \in {"NONE", "TASK", "RECIPE"}
    <3>1. cancelled' \in BOOLEAN
        BY <1>1, <1>13 DEF TaskCompleted, TypeOK
    <3>2. aborted' \in {"NONE", aborted}
        BY <1>13 DEF TaskCompleted
    <3> QED
        BY <1>1, <3>1, <3>2 DEF TypeOK
  <2> QED
      BY <1>1, <1>13, <2>2, <2>3, <2>4, <2>5
      DEF TaskCompleted, TaskStep, TypeOK
<1>14. CASE TaskNext
  <2>1. tasks \in Tasks
      BY <1>2, <1>14 DEF TaskNext
  <2>2. task' \in Task
      BY <1>14, NewTaskTyped DEF TaskNext
  <2>3. tasks' \in 0 .. NTasks
      BY <1>14, <2>1, RunnerAssumption DEF TaskNext, HasNext, Tasks
  <2>4. /\ rstate' \in RecipeStates /\ rsrc' \in SUBSET RecipeSources
        /\ src' \in SUBSET TaskSources
        /\ aborted' \in {"NONE", "TASK", "RECIPE"}
      BY <1>1, <1>14 DEF TaskNext, TypeOK, RecipeStates, RecipeSources
  <2> QED
      BY <1>1, <1>14, <2>2, <2>3, <2>4 DEF TaskNext, TaskStep, TypeOK
<1> QED
    BY <1>4, <1>5, <1>6, <1>7, <1>8, <1>9, <1>10, <1>11, <1>12, <1>13, <1>14
    DEF TaskHandler

(* The operations of a task: they run only while there is a task.          *)
LEMMA OperationTypes == IInv /\ Operation => TypeOK'
<1> SUFFICES ASSUME IInv, Operation PROVE TypeOK'
    OBVIOUS
<1>1. TypeOK
    BY DEF IInv
<1>2. ASSUME NEW op, NEW next \in TaskSources, Becomes(op, next)
      PROVE  src' \in SUBSET TaskSources
    BY <1>1, <1>2 DEF Becomes, TypeOK
<1>3. ASSUME NEW op, Finish(op), src' \in SUBSET TaskSources,
             task' \in Task, retries' \in Nat, queue' \in Seq(Message),
             config' \in [Tasks -> Section]
      PROVE  TypeOK'
    BY <1>1, <1>3 DEF Finish, TypeOK
<1>4. ASSUME NEW op, NEW retry \in TaskSources, NEW n, NEW ok \in BOOLEAN,
             NEW next \in TaskStates, Attempted(op, retry, n, ok, next)
      PROVE  TypeOK'
  <2>1. task' \in Task
      BY <1>1, <1>4, GotoTyped, FailTyped DEF Attempted, TypeOK
  <2>2. src' \in SUBSET TaskSources
      BY <1>2, <1>4 DEF Attempted, TaskSources
  <2>3. retries' = retries \/ retries' = retries + 1
      BY <1>4 DEF Attempted, Retrying
  <2>4. retries' \in Nat
      BY <1>1, <2>3 DEF TypeOK
  <2> QED
      BY <1>1, <1>3, <1>4, <2>1, <2>2, <2>4 DEF Attempted, TypeOK
<1>5. ASSUME NEW op, NEW state \in TaskStates, Retried(op, state)
      PROVE  TypeOK'
  <2>1. task' \in Task /\ src' \in SUBSET TaskSources
      BY <1>1, <1>2, <1>5, GotoTyped DEF Retried, TaskSources
  <2> QED
      BY <1>1, <1>3, <1>5, <2>1 DEF Retried, TypeOK
<1>6. CASE \E ok \in BOOLEAN : FetchFinish(ok) \/ RolesFinish(ok)
    BY <1>4, <1>6 DEF FetchFinish, RolesFinish, TaskSources, TaskStates
<1>7. CASE TaskFetchRetry \/ RefreshRoleRetry
    BY <1>5, <1>7 DEF TaskFetchRetry, RefreshRoleRetry, TaskStates
<1>8. CASE RolesRejected
  <2>1. task' \in Task /\ src' \in SUBSET TaskSources
      BY <1>1, <1>2, <1>8, FailTyped DEF RolesRejected, TaskSources
  <2> QED
      BY <1>1, <1>3, <1>8, <2>1 DEF RolesRejected, TypeOK
<1>9. ASSUME NEW ok \in BOOLEAN, PackageFinish(ok) \/ DependencyFinish(ok)
      PROVE  TypeOK'
  <2>1. task' \in Task
      BY <1>1, <1>9, FailTyped, GotoTyped
      DEF PackageFinish, DependencyFinish, TaskStates
  <2>2. src' \in SUBSET TaskSources
      BY <1>2, <1>9 DEF PackageFinish, DependencyFinish, TaskSources
  <2> QED
      BY <1>1, <1>3, <1>9, <2>1, <2>2
      DEF PackageFinish, DependencyFinish, TypeOK
<1>10. CASE MetadataFinish
  <2>1. ASSUME task' = [task EXCEPT !.state = "TASK_REFRESH_ROLES",
                                    !.metadata = TRUE]
        PROVE  task' \in Task
      BY <1>1, <2>1 DEF TypeOK, Task, TaskStates
  <2>2. task' \in Task
      BY <1>1, <1>10, <2>1, FailTyped, GotoTyped DEF MetadataFinish, TaskStates
  <2>3. src' \in SUBSET TaskSources /\ retries' \in Nat
      BY <1>1, <1>2, <1>10 DEF MetadataFinish, TaskSources, TypeOK
  <2> QED
      BY <1>1, <1>3, <1>10, <2>2, <2>3 DEF MetadataFinish, TypeOK
<1>11. ASSUME NEW exit, TaskFinish(exit) PROVE TypeOK'
  <2>1. tasks \in Tasks
      BY <1>11, Running DEF TaskFinish, Finish
  <2>2. task' \in Task
      BY <1>1, <1>11 DEF TaskFinish, TypeOK, Task, TaskStates
  <2>3. src' \in SUBSET TaskSources
      BY <1>2, <1>11 DEF TaskFinish, TaskSources
  <2>4. config' \in [Tasks -> Section]
      BY <1>1, <1>11, <2>1, ZenonT(30) DEF TaskFinish, TypeOK, Section
  <2>5. Msg("result") \in Message
      BY <2>1, MsgTyped
  <2>6. queue' \in Seq(Message)
      BY <1>1, <1>11, <2>5, EnqueueTyped DEF TaskFinish, TypeOK
  <2> QED
      BY <1>1, <1>3, <1>11, <2>2, <2>3, <2>4, <2>6 DEF TaskFinish, TypeOK
<1>12. CASE PluginsFinish
  <2>1. src' \in SUBSET TaskSources
      BY <1>2, <1>12 DEF PluginsFinish, TaskSources
  <2> QED
      BY <1>1, <1>3, <1>12, <2>1 DEF PluginsFinish, TypeOK
<1> QED
    BY <1>6, <1>7, <1>8, <1>9, <1>10, <1>11, <1>12 DEF Operation

(* The oldest message is about some task, and so is the rest of the queue. *)
LEMMA OldestMessage ==
    ASSUME TypeOK, queue # <<>>
    PROVE  /\ Head(queue) \in Message /\ Head(queue).task \in Tasks
           /\ Tail(queue) \in Seq(Message)
<1>1. Head(queue) \in Message /\ Tail(queue) \in Seq(Message)
    BY HeadTailProperties DEF TypeOK
<1> QED
    BY <1>1 DEF Message

(* The replies of the controller.                                          *)
LEMMA ReplyTypes == TypeOK /\ (Accept \/ Refuse \/ LoseReply) => TypeOK'
<1> SUFFICES ASSUME TypeOK, Accept \/ Refuse \/ LoseReply PROVE TypeOK'
    OBVIOUS
<1> DEFINE m == Head(queue)
<1>1. /\ m \in Message /\ m.task \in Tasks
      /\ Tail(queue) \in Seq(Message)
    BY OldestMessage DEF Accept, Refuse, LoseReply, Sending
<1> HIDE DEF m
<1>2. ASSUME ServerApplies(m)
      PROVE  /\ srv' \in [Tasks -> {"New"} \cup StatusKinds]
             /\ ewd' \in SUBSET Tasks /\ UNCHANGED refused
    BY <1>1, <1>2 DEF ServerApplies, TypeOK
<1>3. ASSUME Answered(m), UNCHANGED <<runs, boundVars>>,
             srv' \in [Tasks -> {"New"} \cup StatusKinds],
             ewd' \in SUBSET Tasks, refused' \in SUBSET Tasks
      PROVE  TypeOK'
  <2>1. CASE /\ queue' = Tail(queue)
             /\ src' = IF m.kind \in CallbackKinds THEN src \cup {"task_handler"}
                                                   ELSE src
             /\ UNCHANGED <<stdin, daemon, recipeVars, retries, tasks, finished,
                            task, cancelVars, config>>
      BY <1>1, <1>3, <2>1 DEF TypeOK, TaskSources
  <2>2. CASE Dies("down") /\ UNCHANGED <<stdin, config>>
    <3>1. nreqs' \in Nat
        BY <1>3 DEF TypeOK
    <3> QED
        BY <1>3, <2>2, <3>1, DiesTyped
  <2> QED
      BY <1>3, <2>1, <2>2 DEF Answered
<1>4. CASE Accept
    BY <1>2, <1>3, <1>4 DEF Accept, TypeOK, m
<1>5. CASE Refuse
    BY <1>1, <1>3, <1>5 DEF Refuse, TypeOK, m
<1>6. CASE LoseReply
    BY <1>2, <1>6 DEF LoseReply, TypeOK, m
<1> QED
    BY <1>4, <1>5, <1>6

(* The requests of the rstrnt commands.                                    *)
LEMMA RequestTypes == TypeOK /\ Requests => TypeOK'
<1> SUFFICES ASSUME TypeOK, Requests PROVE TypeOK'
    OBVIOUS
<1>1. Request
    BY DEF Requests, RequestWithoutTask, AbortRecipe, AbortTask, Report,
           Forward, AdjustWatchdog
<1>2. nreqs' \in Nat
  <2>1. nreqs' = nreqs + 1 /\ nreqs \in Nat
      BY <1>1 DEF Request, TypeOK
  <2> QED
      BY <2>1
<1>3. ASSUME Dies("down") PROVE TypeOK'
  <2>1. /\ UNCHANGED <<stdin, config, runs, nboots>>
        /\ srv' \in [Tasks -> {"New"} \cup StatusKinds]
        /\ ewd' \in SUBSET Tasks /\ refused' \in SUBSET Tasks
      BY <1>1 DEF Request, TypeOK
  <2> QED
      BY <1>2, <1>3, <2>1, DiesTyped
<1>4. tasks # 0 => tasks \in Tasks
    BY RunnerAssumption DEF Tasks, TypeOK
<1>5. ASSUME Served, cancelled' \in BOOLEAN, task' \in Task,
             aborted' \in {"NONE", "TASK", "RECIPE"},
             abortedAt' \in 0 .. NTasks, queue' \in Seq(Message)
      PROVE  TypeOK'
    BY <1>1, <1>2, <1>5 DEF Request, Served, TypeOK
<1>6. ASSUME tasks # 0, NEW k \in ForwardKinds, Enqueue(Msg(k))
      PROVE  queue' \in Seq(Message)
    BY <1>4, <1>6, MsgTyped, EnqueueTyped
<1>7. ASSUME task' = [task EXCEPT !.results_reported = TRUE]
      PROVE  task' \in Task
    BY <1>7 DEF TypeOK, Task
<1>8. CASE AbortRecipe \/ AbortTask
  <2>1. cancelled' \in BOOLEAN
      BY <1>8 DEF AbortRecipe, AbortTask
  <2>2. aborted' \in {"NONE", "TASK", "RECIPE"} /\ abortedAt' \in 0 .. NTasks
      BY <1>8 DEF AbortRecipe, AbortTask, TypeOK
  <2>3. Served /\ UNCHANGED <<task, queue>>
      BY <1>8 DEF AbortRecipe, AbortTask
  <2> QED
      BY <1>5, <2>1, <2>2, <2>3 DEF TypeOK
<1>9. CASE Report
    BY <1>5, <1>6, <1>7, <1>9 DEF Report, TypeOK, ForwardKinds
<1>10. CASE Forward
    BY <1>5, <1>6, <1>7, <1>10 DEF Forward, TypeOK, ForwardKinds
<1>11. CASE AdjustWatchdog
    BY <1>3, <1>5, <1>6, <1>11 DEF AdjustWatchdog, TypeOK, ForwardKinds
<1>12. CASE RequestWithoutTask
    BY <1>3, <1>12 DEF RequestWithoutTask
<1> QED
    BY <1>8, <1>9, <1>10, <1>11, <1>12 DEF Requests

(* Reboots, also in the middle of TASK_RUN and of TASK_COMPLETED.          *)
LEMMA Boots == Restart => Boot
BY DEF Restart, Reboot, RebootInTaskCompleted, RebootInTaskRun, RebootIn

(* TASK_RUN as far as a reboot lets it come.                               *)
LEMMA RunInterrupted ==
    ASSUME IInv, NEW n \in 0 .. 1, RebootInTaskRun(n)
    PROVE  /\ tasks \in Tasks /\ task.state = "TASK_RUN" /\ ~cancelled
           /\ config' = Written(n) /\ UNCHANGED srv
           /\ runs' = [runs EXCEPT ![tasks] = @ + 1]
BY Running DEF RebootInTaskRun, RebootIn, MayRun, Forked

(* ... and TASK_COMPLETED.                                                 *)
LEMMA EndInterrupted ==
    ASSUME IInv, RebootInTaskCompleted
    PROVE  /\ stdin /\ tasks \in Tasks /\ task.state = "TASK_COMPLETED"
           /\ EndStatus \in Terminal
           /\ srv' = [srv EXCEPT ![tasks] = EndStatus]
           /\ UNCHANGED <<config, runs, refused>>
<1>1. tasks \in Tasks
    BY Running DEF RebootInTaskCompleted, RebootIn
<1> QED
    BY <1>1 DEF RebootInTaskCompleted, RebootIn, Boot, EndStatus, Terminal

LEMMA BootTypes ==
    ASSUME IInv, Restart
    PROVE  TypeOK'
<1>1. Boot /\ TypeOK
    BY Boots DEF IInv
<1>2. /\ config' \in [Tasks -> Section] /\ runs' \in [Tasks -> Nat]
      /\ srv' \in [Tasks -> {"New"} \cup StatusKinds]
  <2>1. CASE Reboot
      BY <1>1, <2>1 DEF Reboot, TypeOK
  <2>2. ASSUME NEW n \in 0 .. 1, RebootInTaskRun(n)
        PROVE  /\ config' \in [Tasks -> Section] /\ runs' \in [Tasks -> Nat]
               /\ UNCHANGED srv
    <3>1. n \in 0 .. 2
        OBVIOUS
    <3> QED
        BY <1>1, <2>2, <3>1, WrittenTyped, ForkedTyped DEF RebootInTaskRun
  <2>3. CASE RebootInTaskCompleted
    <3>1. EndStatus \in {"New"} \cup StatusKinds
        BY DEF EndStatus, StatusKinds, Terminal
    <3> QED
        BY <1>1, <2>3, <3>1, EndInterrupted DEF TypeOK
  <2> QED
      BY <1>1, <2>1, <2>2, <2>3 DEF Restart, TypeOK
<1>3. nboots' \in Nat
  <2>1. nboots' = nboots + 1 /\ nboots \in Nat
      BY <1>1 DEF Boot, TypeOK
  <2> QED
      BY <2>1
<1>4. Forget /\ UNCHANGED <<stdin, ewd, refused, nreqs>>
    BY <1>1 DEF Boot
<1>5. /\ daemon' = "up" /\ rstate' \in RecipeStates
      /\ rsrc' \in SUBSET RecipeSources
    BY <1>1 DEF Boot, BootState, BootSources, RecipeStates, RecipeSources
<1> QED
    BY <1>1, <1>2, <1>3, <1>4, <1>5, ForgetTyped DEF TypeOK

(* Every step leaves every variable in its type.                           *)
LEMMA TypeStep == IInv /\ [Next]_vars => TypeOK'
<1> SUFFICES ASSUME IInv, [Next]_vars PROVE TypeOK'
    OBVIOUS
<1>1. TypeOK
    BY DEF IInv
<1>2. CASE UNCHANGED vars
    BY <1>1, <1>2 DEF vars, TypeOK
<1>3. CASE DaemonStep
    BY <1>1, <1>3, RecipeTypes, TaskTypes, OperationTypes, ReplyTypes
    DEF DaemonStep
<1> QED
    BY <1>1, <1>2, <1>3, ReplyTypes, RequestTypes, BootTypes DEF Next

LEMMA TypeInit == Init => TypeOK
<1> SUFFICES ASSUME Init PROVE TypeOK
    OBVIOUS
<1>1. stdin \in BOOLEAN
    BY RunnerAssumption DEF Init
<1>2. rerror \in BOOLEAN /\ cancelled \in BOOLEAN
    BY DEF Init
<1>3. queue \in Seq(Message)
    BY EmptySeq DEF Init
<1>4. rstate \in RecipeStates /\ rsrc \in SUBSET RecipeSources
    BY DEF Init, BootState, BootSources, RecipeStates, RecipeSources
<1>5. task \in Task /\ config \in [Tasks -> Section]
    BY NewTaskTyped DEF Init, EmptySection, Section
<1>6. /\ tasks \in 0 .. NTasks /\ abortedAt \in 0 .. NTasks
      /\ runs \in [Tasks -> Nat] /\ retries \in Nat /\ nboots \in Nat
      /\ nreqs \in Nat
    BY RunnerAssumption DEF Init
<1>7. srv \in [Tasks -> {"New"} \cup StatusKinds]
    BY DEF Init
<1> QED
    BY <1>1, <1>2, <1>3, <1>4, <1>5, <1>6, <1>7 DEF Init, TypeOK

----------------------------------------------------------------------------
(* The baton, held by one source, or by one message with a callback.       *)
LEMMA BatonIn ==
    /\ Baton <=> IF rstate = "RECIPE_RUNNING"
                 THEN \/ OneSource /\ NoCallbackIn(queue)
                      \/ src = {} /\ OneCallbackIn(queue)
                 ELSE src = {} /\ NoCallbackIn(queue)
    /\ Baton' <=> IF rstate' = "RECIPE_RUNNING"
                  THEN \/ OneSource' /\ NoCallbackIn(queue')
                       \/ src' = {} /\ OneCallbackIn(queue')
                  ELSE src' = {} /\ NoCallbackIn(queue')
BY CallbacksInQueue DEF Baton

(* The recipe handler hands the baton to task_handler, once.               *)
LEMMA RecipeKeeps == IInv /\ RecipeNext => Baton' /\ Fetching' /\ InRecipe'
<1> SUFFICES ASSUME IInv, RecipeNext PROVE Baton' /\ Fetching' /\ InRecipe'
    OBVIOUS
<1> USE DEF IInv
<1>1. ASSUME UNCHANGED <<src, queue>>, rstate # "RECIPE_RUNNING",
             rstate' # "RECIPE_RUNNING"
      PROVE  Baton'
    BY <1>1, BatonIn
<1>2. CASE RecipeFetch
    BY <1>1, <1>2 DEF RecipeFetch, RecipeStep, Fetching, InRecipe
<1>3. CASE RecipeFetchRetry
    BY <1>1, <1>3 DEF RecipeFetchRetry, Fetching, InRecipe
<1>4. CASE RecipeRun
  <2>1. Baton'
    <3>1. src' = {"task_handler"} /\ NoCallbackIn(queue')
        BY <1>4, BatonIn DEF RecipeRun
    <3> QED
        BY <1>4, <3>1, BatonIn DEF RecipeRun, OneSource, TaskSources
  <2> QED
      BY <1>4, <2>1 DEF RecipeRun, Fetching, InRecipe
<1>5. CASE RecipeRunning
  <2>1. UNCHANGED <<src, queue, rstate, tasks>> /\ rsrc' \subseteq rsrc
      BY <1>5 DEF RecipeRunning, RecipeStep
  <2> QED
      BY <2>1, BatonIn DEF Fetching, InRecipe, OneSource
<1>6. CASE RecipeComplete
  <2>1. CASE /\ RecipeStep("RECIPE_COMPLETE")
             /\ rstate' = "RECIPE_IDLE" /\ rsrc' = rsrc \ {"recipe_handler"}
             /\ tasks' = 0
      BY <1>1, <2>1 DEF RecipeStep, Fetching, InRecipe
  <2> QED
      BY <1>6, <2>1, DiesKeeps DEF RecipeComplete
<1>7. ASSUME NEW ok \in BOOLEAN, RecipeFetchCompleted(ok)
      PROVE  Baton' /\ Fetching' /\ InRecipe'
    BY <1>1, <1>7 DEF RecipeFetchCompleted, Fetching, InRecipe
<1>8. ASSUME NEW ok \in BOOLEAN, RecipeParse(ok)
      PROVE  Baton' /\ Fetching' /\ InRecipe'
    BY <1>1, <1>8 DEF RecipeParse, RecipeStep, Fetching, InRecipe
<1> QED
    BY <1>2, <1>3, <1>4, <1>5, <1>6, <1>7, <1>8 DEF RecipeNext

(* Each state of the task handler keeps the baton, hands it to one         *)
(* operation, hands it to one message, or (the last TASK_NEXT) gives it    *)
(* back to the recipe handler.                                             *)
LEMMA TaskKeeps == IInv /\ TaskHandler => Baton' /\ Fetching' /\ InRecipe'
<1> SUFFICES ASSUME IInv, TaskHandler PROVE Baton' /\ Fetching' /\ InRecipe'
    OBVIOUS
<1> USE DEF IInv
<1>1. ASSUME NEW state, TaskStep(state)
      PROVE  /\ rstate = "RECIPE_RUNNING" /\ tasks \in Tasks
             /\ src = {"task_handler"} /\ NoCallbackIn(queue)
    BY <1>1, Running DEF TaskStep
<1>2. ASSUME NEW state, TaskStep(state), UNCHANGED <<src, queue>>,
             UNCHANGED rstate
      PROVE  Baton'
    BY <1>1, <1>2, BatonIn DEF OneSource, TaskSources
<1>3. ASSUME NEW state, TaskStep(state), NEW op \in TaskSources, Start(op),
             UNCHANGED <<rstate, queue>>
      PROVE  Baton'
  <2>1. src' = {op}
      BY <1>1, <1>3 DEF Start
  <2> QED
      BY <1>1, <1>3, <2>1, BatonIn DEF OneSource
<1>4. ASSUME NEW state, TaskStep(state), NEW k \in CallbackKinds,
             StartMessage(Msg(k)), UNCHANGED rstate
      PROVE  Baton'
  <2>1. src' = {} /\ queue' = Append(queue, Msg(k))
      BY <1>1, <1>4 DEF StartMessage, Enqueue
  <2>2. OneCallbackIn(queue')
      BY <1>1, <1>4, <2>1, MsgTyped, CallbackQueued DEF TypeOK
  <2> QED
      BY <1>1, <1>4, <2>1, <2>2, BatonIn
<1>5. ASSUME NEW state, TaskStep(state), UNCHANGED <<rstate, rsrc, tasks>>
      PROVE  Fetching' /\ InRecipe'
    BY <1>5 DEF Fetching, InRecipe
<1>6. ASSUME NEW readable \in BOOLEAN, TaskIdle(readable)
      PROVE  Baton' /\ Fetching' /\ InRecipe'
  <2>1. \/ UNCHANGED <<src, queue>>
        \/ StartMessage(Msg("Running"))
      BY <1>6 DEF TaskIdle
  <2> QED
      BY <1>2, <1>4, <1>5, <1>6, <2>1
      DEF TaskIdle, SameTask, CallbackKinds, StatusKinds
<1>7. CASE TaskFetch \/ TaskMetadataParse
    BY <1>3, <1>5, <1>7
    DEF TaskFetch, TaskMetadataParse, SameTask, TaskSources
<1>8. CASE TaskRefreshRoles
    BY <1>2, <1>3, <1>5, <1>8
    DEF TaskRefreshRoles, SameTask, Continue, TaskSources
<1>9. CASE TaskEnv \/ TaskComplete
    BY <1>2, <1>5, <1>9 DEF TaskEnv, TaskComplete, SameTask
<1>10. CASE TaskWatchdog
    BY <1>2, <1>4, <1>5, <1>10 DEF TaskWatchdog, SameTask, CallbackKinds
<1>11. CASE TaskDependencies
    BY <1>2, <1>3, <1>5, <1>11 DEF TaskDependencies, SameTask, TaskSources
<1>12. CASE TaskRun
    BY <1>2, <1>3, <1>5, <1>12 DEF TaskRun, SameTask, Continue, TaskSources
<1>13. CASE TaskCompleted
  <2>1. EndStatus \in CallbackKinds
      BY DEF EndStatus, CallbackKinds, StatusKinds, Terminal
  <2> QED
      BY <1>4, <1>5, <1>13, <2>1 DEF TaskCompleted
<1>14. CASE TaskNext
  <2>1. rstate = "RECIPE_RUNNING" /\ tasks \in Tasks /\ UNCHANGED queue
      BY <1>1, <1>14 DEF TaskNext
  <2>2. CASE HasNext
    <3>1. UNCHANGED <<rstate, rsrc, src>> /\ tasks' = tasks + 1
        BY <1>14, <2>2 DEF TaskNext
    <3>2. Baton'
        BY <1>2, <1>14, <3>1 DEF TaskNext
    <3>3. tasks' # 0
        BY <2>1, <3>1, RunnerAssumption DEF Tasks
    <3> QED
        BY <2>1, <3>1, <3>2, <3>3 DEF Fetching, InRecipe
  <2>3. CASE ~HasNext
    <3>1. /\ tasks' = 0 /\ rstate' = "RECIPE_COMPLETE"
          /\ src' = {} /\ rsrc' = rsrc \cup {"recipe_handler"}
        BY <1>1, <1>14, <2>3 DEF TaskNext
    <3>2. Baton'
        BY <1>1, <1>14, <2>1, <3>1, BatonIn DEF TaskNext
    <3> QED
        BY <2>1, <3>1, <3>2 DEF Fetching, InRecipe
  <2> QED
      BY <2>2, <2>3
<1> QED
    BY <1>6, <1>7, <1>8, <1>9, <1>10, <1>11, <1>12, <1>13, <1>14
    DEF TaskHandler

(* An operation hands the baton to the source that comes after it.         *)
LEMMA OperationKeeps ==
    IInv /\ Operation => Baton' /\ Fetching' /\ InRecipe'
<1> SUFFICES ASSUME IInv, Operation PROVE Baton' /\ Fetching' /\ InRecipe'
    OBVIOUS
<1> USE DEF IInv
<1>1. ASSUME NEW op, Finish(op), NEW next \in TaskSources, Becomes(op, next),
             UNCHANGED queue \/ Enqueue(Msg("result"))
      PROVE  Baton' /\ Fetching' /\ InRecipe'
  <2>1. /\ rstate = "RECIPE_RUNNING" /\ tasks \in Tasks
        /\ src = {op} /\ NoCallbackIn(queue)
        /\ UNCHANGED <<rstate, rsrc, tasks>>
      BY <1>1, Running DEF Finish
  <2>2. src' = {next}
      BY <1>1, <2>1 DEF Becomes
  <2>3. NoCallbackIn(queue')
    <3>1. CASE UNCHANGED queue
        BY <2>1, <3>1
    <3>2. CASE Enqueue(Msg("result"))
      <4>1. Msg("result") \in Message /\ Msg("result").kind \notin CallbackKinds
          BY <2>1, MsgTyped DEF CallbackKinds, StatusKinds, Terminal
      <4> QED
          BY <2>1, <3>2, <4>1, CallbackQueued DEF Enqueue, TypeOK
    <3> QED
        BY <1>1, <3>1, <3>2
  <2>4. Baton'
      BY <2>1, <2>2, <2>3, BatonIn DEF OneSource
  <2> QED
      BY <2>1, <2>4 DEF Fetching, InRecipe
<1>2. ASSUME NEW op, NEW retry \in TaskSources, NEW n, NEW ok, NEW next,
             Attempted(op, retry, n, ok, next)
      PROVE  Baton' /\ Fetching' /\ InRecipe'
  <2>1. Becomes(op, "task_handler") \/ Becomes(op, retry)
      BY <1>2 DEF Attempted
  <2> QED
      BY <1>1, <1>2, <2>1 DEF Attempted, TaskSources
<1>3. CASE \E ok \in BOOLEAN : \/ FetchFinish(ok) \/ RolesFinish(ok)
                               \/ PackageFinish(ok) \/ DependencyFinish(ok)
    BY <1>1, <1>2, <1>3
    DEF FetchFinish, RolesFinish, PackageFinish, DependencyFinish, TaskSources
<1>4. CASE TaskFetchRetry \/ RefreshRoleRetry \/ RolesRejected
           \/ MetadataFinish \/ PluginsFinish
    BY <1>1, <1>4
    DEF TaskFetchRetry, RefreshRoleRetry, RolesRejected, MetadataFinish,
        PluginsFinish, Retried, TaskSources
<1>5. ASSUME NEW exit, TaskFinish(exit)
      PROVE  Baton' /\ Fetching' /\ InRecipe'
    BY <1>1, <1>5 DEF TaskFinish, TaskSources
<1> QED
    BY <1>3, <1>4, <1>5 DEF Operation

(* Only the answer to the message that holds the baton gives it back.      *)
LEMMA ReplyKeeps ==
    IInv /\ (Accept \/ Refuse \/ LoseReply)
        => Baton' /\ Fetching' /\ InRecipe'
<1> SUFFICES ASSUME IInv, Accept \/ Refuse \/ LoseReply
             PROVE  Baton' /\ Fetching' /\ InRecipe'
    OBVIOUS
<1> USE DEF IInv
<1> DEFINE m == Head(queue)
<1>1. queue \in Seq(Message) /\ queue # <<>>
    BY DEF Accept, Refuse, LoseReply, Sending, TypeOK
<1>2. CASE LoseReply
  <2>1. UNCHANGED <<rstate, rsrc, tasks, src, queue>>
      BY <1>2 DEF LoseReply
  <2> QED
      BY <2>1, BatonIn DEF Fetching, InRecipe, OneSource
<1>3. ASSUME queue' = Tail(queue), UNCHANGED <<recipeVars, tasks>>,
             src' = IF m.kind \in CallbackKinds THEN src \cup {"task_handler"}
                                               ELSE src
      PROVE  Baton' /\ Fetching' /\ InRecipe'
  <2>1. Fetching' /\ InRecipe'
      BY <1>3 DEF Fetching, InRecipe
  <2>2. CASE m.kind \in CallbackKinds
    <3>1. ~NoCallbackIn(queue)
        BY <1>1, <2>2, CallbackAnswered
    <3>2. rstate = "RECIPE_RUNNING" /\ src = {} /\ OneCallbackIn(queue)
        BY <3>1, BatonIn
    <3>3. src' = {"task_handler"} /\ NoCallbackIn(queue')
        BY <1>1, <1>3, <2>2, <3>2, CallbackAnswered
    <3>4. rstate' = "RECIPE_RUNNING" /\ OneSource'
        BY <1>3, <3>2, <3>3 DEF OneSource, TaskSources
    <3> QED
        BY <2>1, <3>3, <3>4, BatonIn
  <2>3. CASE m.kind \notin CallbackKinds
    <3>1. /\ NoCallbackIn(queue) => NoCallbackIn(queue')
          /\ OneCallbackIn(queue) => OneCallbackIn(queue')
        BY <1>1, <1>3, <2>3, CallbackAnswered
    <3>2. UNCHANGED <<rstate, src>>
        BY <1>3, <2>3
    <3> QED
        BY <2>1, <3>1, <3>2, BatonIn DEF OneSource
  <2> QED
      BY <2>2, <2>3
<1>4. ASSUME Answered(m) PROVE Baton' /\ Fetching' /\ InRecipe'
    BY <1>3, <1>4, DiesKeeps DEF Answered
<1> QED
    BY <1>2, <1>4 DEF Accept, Refuse

(* A request leaves the baton where it is, or ends the process.            *)
LEMMA RequestKeeps == IInv /\ Requests => Baton' /\ Fetching' /\ InRecipe'
<1> SUFFICES ASSUME IInv, Requests PROVE Baton' /\ Fetching' /\ InRecipe'
    OBVIOUS
<1> USE DEF IInv
<1>1. ASSUME Served, UNCHANGED queue \/ \E k \in ForwardKinds : Enqueue(Msg(k)),
             tasks # 0
      PROVE  Baton' /\ Fetching' /\ InRecipe'
  <2>1. UNCHANGED <<rstate, rsrc, tasks, src>>
      BY <1>1 DEF Served
  <2>2. /\ NoCallbackIn(queue) => NoCallbackIn(queue')
        /\ OneCallbackIn(queue) => OneCallbackIn(queue')
    <3>1. CASE UNCHANGED queue
        BY <3>1
    <3>2. ASSUME NEW k \in ForwardKinds, Enqueue(Msg(k))
          PROVE  /\ NoCallbackIn(queue) => NoCallbackIn(queue')
                 /\ OneCallbackIn(queue) => OneCallbackIn(queue')
      <4>1. tasks \in Tasks
          BY <1>1, RunnerAssumption DEF TypeOK, Tasks
      <4>2. Msg(k) \in Message /\ Msg(k).kind \notin CallbackKinds
          BY <4>1, MsgTyped
          DEF ForwardKinds, CallbackKinds, StatusKinds, Terminal
      <4> QED
          BY <3>2, <4>2, CallbackQueued DEF Enqueue, TypeOK
    <3> QED
        BY <1>1, <3>1, <3>2
  <2>3. Baton'
      BY <2>1, <2>2, BatonIn DEF OneSource
  <2> QED
      BY <2>1, <2>3 DEF Fetching, InRecipe
<1>2. CASE AbortRecipe \/ AbortTask
    BY <1>1, <1>2 DEF AbortRecipe, AbortTask
<1>3. CASE Report \/ Forward
    BY <1>1, <1>3 DEF Report, Forward, ForwardKinds
<1>4. CASE AdjustWatchdog
    BY <1>1, <1>4, DiesKeeps DEF AdjustWatchdog, ForwardKinds
<1>5. CASE RequestWithoutTask
    BY <1>5, DiesKeeps DEF RequestWithoutTask
<1> QED
    BY <1>2, <1>3, <1>4, <1>5 DEF Requests

LEMMA BootKeeps == Boot => Baton' /\ Fetching' /\ InRecipe'
<1> SUFFICES ASSUME Boot PROVE Baton' /\ Fetching' /\ InRecipe'
    OBVIOUS
<1>1. Forget /\ rstate' = BootState(stdin) /\ rsrc' = BootSources(stdin)
    BY DEF Boot
<1>2. /\ rstate' \in {"RECIPE_FETCH", "RECIPE_FETCHING"}
      /\ "fetch_retry" \notin rsrc'
      /\ "recipe_xml" \in rsrc' => rstate' = "RECIPE_FETCHING"
    BY <1>1 DEF BootState, BootSources
<1> QED
    BY <1>1, <1>2, ForgetIdle DEF Baton, Fetching, InRecipe

----------------------------------------------------------------------------
LEMMA IInvInit == Init => IInv
<1> SUFFICES ASSUME Init PROVE IInv
    OBVIOUS
<1>1. /\ rstate \in {"RECIPE_FETCH", "RECIPE_FETCHING"}
      /\ "fetch_retry" \notin rsrc
      /\ "recipe_xml" \in rsrc => rstate = "RECIPE_FETCHING"
    BY DEF Init, BootState, BootSources
<1>2. NoCallbackIn(queue) /\ src = {} /\ tasks = 0
    BY EmptySeq DEF Init, NoCallbackIn
<1>3. Baton
    BY <1>1, <1>2, BatonIn
<1> QED
    BY <1>1, <1>2, <1>3, TypeInit DEF IInv, Fetching, InRecipe

(* The types, the baton and the two facts about the recipe handler they    *)
(* rest on are preserved by every step.                                    *)
LEMMA IInvStep == IInv /\ [Next]_vars => IInv'
<1> SUFFICES ASSUME IInv, [Next]_vars PROVE Baton' /\ Fetching' /\ InRecipe'
    BY TypeStep DEF IInv
<1>1. CASE UNCHANGED vars
  <2>1. UNCHANGED <<rstate, rsrc, tasks, src, queue>>
      BY <1>1 DEF vars
  <2> QED
      BY <2>1, BatonIn DEF IInv, Fetching, InRecipe, OneSource
<1>2. CASE DaemonStep
    BY <1>2, RecipeKeeps, TaskKeeps, OperationKeeps, ReplyKeeps DEF DaemonStep
<1>3. CASE Refuse \/ LoseReply \/ Requests
    BY <1>3, ReplyKeeps, RequestKeeps
<1>4. CASE Restart
    BY <1>4, Boots, BootKeeps
<1> QED
    BY <1>1, <1>2, <1>3, <1>4 DEF Next

THEOREM Inductive == Spec => []IInv
BY IInvInit, IInvStep, PTL DEF Spec

(* Every variable of the runner always has its type: no handler runs       *)
(* without a current task, app_data->tasks never points past the recipe,   *)
(* and every message is about a task of it.                                *)
THEOREM TypeCorrect == Spec => []TypeOK
<1>1. IInv => TypeOK
    BY DEF IInv
<1> QED
    BY <1>1, Inductive, PTL

(* Through every callback, retry, reply, request and reboot exactly one    *)
(* thing moves a running recipe on.                                        *)
THEOREM OneBaton == Spec => []Baton
<1>1. IInv => Baton
    BY DEF IInv
<1> QED
    BY <1>1, Inductive, PTL

-----------------------------------------------------------------------------
(***************************************************************************)
(* Part 2.  What an abort, a local watchdog and a reboot may not cause.    *)
(*                                                                         *)
(* Which command is forked is decided by task.state, by what TASK_IDLE     *)
(* read from the config file when the task began, and by the source that   *)
(* holds the baton; none of the properties is inductive without saying     *)
(* how these agree.  SourceState ties the state to the operation under     *)
(* way, CallbackState ties it to the message whose answer is awaited,      *)
(* Resumed says that what was read from the config file is still what it   *)
(* says, Watched where the external watchdog is known to be set, and       *)
(* AbortCancels that the cancellable stays cancelled while an abort is     *)
(* recorded.                                                               *)
(***************************************************************************)

(* The states in which the source op may be there.                         *)
StatesOf(op) ==
    CASE op \in {"fetch", "task_fetch_retry", "package"} -> {"TASK_FETCH"}
      [] op = "metadata" -> {"TASK_METADATA_PARSE"}
      [] op \in {"roles", "refresh_role_retry"} -> {"TASK_REFRESH_ROLES"}
      [] op \in {"dependencies", "task_run"} -> {"TASK_RUN"}
      [] op = "plugins" -> {"TASK_COMPLETE"}
      [] OTHER -> TaskStates

(* The state that comes after the answer to a message of this kind.        *)
StateAfter(kind) == CASE kind = "Running" -> "TASK_FETCH"
                      [] kind = "watchdog" -> "TASK_DEPENDENCIES"
                      [] OTHER -> "TASK_NEXT"

BeforeEnd == {"TASK_FETCH", "TASK_METADATA_PARSE", "TASK_REFRESH_ROLES",
              "TASK_ENV", "TASK_WATCHDOG", "TASK_DEPENDENCIES", "TASK_RUN"}

SourceState == \A op \in src : task.state \in StatesOf(op)

CallbackState ==
    \A i \in 1 .. Len(queue) :
        CallbackIn(queue, i) => /\ queue[i].task = tasks
                                /\ task.state = StateAfter(queue[i].kind)

Resumed ==
    (tasks # 0 /\ task.state \in BeforeEnd) =>
        /\ ~config[tasks].localwatchdog
        /\ task.started <=> config[tasks].started
        /\ (task.state = "TASK_FETCH" \/ "dependencies" \in src)
               => ~task.started

Heard == ewd \cup refused

AtRun == \/ task.state = "TASK_RUN"
         \/ task.state = "TASK_DEPENDENCIES" /\ src # {}

Watched == /\ \A t \in Tasks : config[t].started => t \in Heard
           /\ tasks # 0 /\ AtRun => tasks \in Heard

AbortCancels == aborted # "NONE" => cancelled /\ tasks # 0

Fresh == rstate = "RECIPE_RUN" => task.state = "TASK_IDLE"

RInv == /\ SourceState /\ CallbackState /\ Resumed /\ Watched
        /\ AbortCancels /\ Fresh

----------------------------------------------------------------------------
(* Callbacks in a queue that grew or shrank by one message.                *)
LEMMA CallbackLast ==
    ASSUME NEW q \in Seq(Message), NEW m \in Message, NoCallbackIn(q),
           NEW i \in 1 .. Len(Append(q, m)), CallbackIn(Append(q, m), i)
    PROVE  Append(q, m)[i] = m
<1>1. /\ Len(q) \in Nat /\ Len(Append(q, m)) = Len(q) + 1
      /\ Append(q, m)[Len(q) + 1] = m
      /\ \A j \in 1 .. Len(q) : Append(q, m)[j] = q[j]
    BY AppendProperties, LenProperties
<1>2. i \in 1 .. Len(q) \/ i = Len(q) + 1
    BY <1>1
<1> QED
    BY <1>1, <1>2 DEF NoCallbackIn, CallbackIn

LEMMA CallbackKept ==
    ASSUME NEW q \in Seq(Message), NEW m \in Message,
           m.kind \notin CallbackKinds,
           NEW i \in 1 .. Len(Append(q, m)), CallbackIn(Append(q, m), i)
    PROVE  /\ i \in 1 .. Len(q) /\ Append(q, m)[i] = q[i]
           /\ CallbackIn(q, i)
<1>1. /\ Len(q) \in Nat /\ Len(Append(q, m)) = Len(q) + 1
      /\ Append(q, m)[Len(q) + 1] = m
      /\ \A j \in 1 .. Len(q) : Append(q, m)[j] = q[j]
    BY AppendProperties, LenProperties
<1>2. i \in 1 .. Len(q) \/ i = Len(q) + 1
    BY <1>1
<1> QED
    BY <1>1, <1>2 DEF CallbackIn

LEMMA CallbackMoved ==
    ASSUME NEW q \in Seq(Message), q # <<>>,
           NEW i \in 1 .. Len(Tail(q)), CallbackIn(Tail(q), i)
    PROVE  /\ i + 1 \in 1 .. Len(q) /\ Tail(q)[i] = q[i + 1]
           /\ CallbackIn(q, i + 1)
<1>1. /\ Len(q) \in Nat \ {0} /\ Len(Tail(q)) = Len(q) - 1
      /\ \A j \in 1 .. Len(Tail(q)) : Tail(q)[j] = q[j + 1]
    BY HeadTailProperties, EmptySeq
<1> QED
    BY <1>1 DEF CallbackIn

LEMMA NothingAwaited == NoCallbackIn(queue') => CallbackState'
BY DEF NoCallbackIn, CallbackState, CallbackIn

(* With no current task nothing but the config file has to be watched.     *)
LEMMA NoTask ==
    ASSUME tasks' = 0, rstate' # "RECIPE_RUN", src' = {},
           NoCallbackIn(queue'), aborted' = "NONE",
           \A t \in Tasks : config'[t].started => t \in Heard'
    PROVE  RInv'
BY NothingAwaited
DEF RInv, SourceState, Resumed, Watched, AbortCancels, Fresh

LEMMA ForgetVoid ==
    ASSUME Forget, rstate' # "RECIPE_RUN",
           \A t \in Tasks : config'[t].started => t \in Heard'
    PROVE  RInv'
<1>1. aborted' = "NONE"
    BY DEF Forget
<1> QED
    BY <1>1, ForgetIdle, CallbacksInQueue, NoTask

LEMMA DiesVoid ==
    ASSUME NEW how, Dies(how),
           \A t \in Tasks : config'[t].started => t \in Heard'
    PROVE  RInv'
BY ForgetVoid DEF Dies

(* A step that touches neither the task nor what is known of it.           *)
LEMMA Untouched ==
    ASSUME IInv, RInv,
           UNCHANGED <<tasks, task, src, queue, config, ewd, refused,
                       cancelled, aborted>>,
           rstate' = "RECIPE_RUN" => rstate = "RECIPE_RUN"
    PROVE  RInv'
<1>1. SourceState'
    BY DEF RInv, SourceState
<1>2. CallbackState'
    BY DEF RInv, CallbackState, CallbackIn
<1>3. Resumed'
    BY DEF RInv, Resumed
<1>4. Watched'
    BY DEF RInv, Watched, AtRun, Heard
<1>5. AbortCancels'
    BY DEF RInv, AbortCancels
<1>6. Fresh'
    BY DEF RInv, Fresh
<1> QED
    BY <1>1, <1>2, <1>3, <1>4, <1>5, <1>6 DEF RInv

(* The recipe handler starts with a fresh task and ends with none.         *)
LEMMA RecipeResumes == IInv /\ RInv /\ RecipeNext => RInv'
<1> SUFFICES ASSUME IInv, RInv, RecipeNext PROVE RInv'
    OBVIOUS
<1>1. /\ rstate # "RECIPE_RUNNING" => src = {} /\ NoCallbackIn(queue)
      /\ rstate \notin {"RECIPE_RUN", "RECIPE_RUNNING"} => tasks = 0
    BY BatonIn DEF IInv, InRecipe
<1>2. /\ tasks = 0 => aborted = "NONE"
      /\ \A t \in Tasks : config[t].started => t \in Heard
    BY DEF RInv, AbortCancels, Watched
<1>3. CASE RecipeFetch \/ RecipeFetchRetry \/ RecipeRunning
    BY <1>3, Untouched
    DEF RecipeFetch, RecipeFetchRetry, RecipeRunning, RecipeStep
<1>4. ASSUME NEW ok \in BOOLEAN, RecipeFetchCompleted(ok) PROVE RInv'
    BY <1>4, Untouched DEF RecipeFetchCompleted
<1>5. CASE RecipeRun
  <2>1. /\ src = {} /\ NoCallbackIn(queue') /\ src' = {"task_handler"}
        /\ UNCHANGED <<tasks, task, queue, config, ewd, refused, cancelled,
                       aborted>>
        /\ task.state = "TASK_IDLE" /\ rstate' # "RECIPE_RUN"
      BY <1>1, <1>5 DEF RecipeRun, RInv, Fresh
  <2>2. SourceState'
      BY <2>1 DEF SourceState, StatesOf, IInv, TypeOK, Task
  <2>3. Resumed' /\ AbortCancels'
      BY <2>1 DEF RInv, Resumed, AbortCancels
  <2>4. Watched' /\ Fresh'
      BY <2>1 DEF RInv, Watched, AtRun, Heard, Fresh
  <2> QED
      BY <2>1, <2>2, <2>3, <2>4, NothingAwaited DEF RInv
<1>6. ASSUME NEW ok \in BOOLEAN, RecipeParse(ok) PROVE RInv'
  <2>1. /\ src' = {} /\ NoCallbackIn(queue') /\ aborted' = "NONE"
        /\ \/ tasks' = 0 /\ rstate' # "RECIPE_RUN"
           \/ task'.state = "TASK_IDLE"
        /\ UNCHANGED <<config, ewd, refused>>
      BY <1>1, <1>2, <1>6 DEF RecipeParse, RecipeStep, NewTask
  <2>2. SourceState' /\ Resumed' /\ AbortCancels' /\ Fresh'
      BY <2>1 DEF SourceState, Resumed, AbortCancels, BeforeEnd, Fresh
  <2>3. Watched'
      BY <1>2, <2>1 DEF Watched, AtRun, Heard
  <2> QED
      BY <2>1, <2>2, <2>3, NothingAwaited DEF RInv
<1>7. CASE RecipeComplete
  <2>1. \A t \in Tasks : config'[t].started => t \in Heard'
      BY <1>2, <1>7 DEF RecipeComplete, RecipeStep, Heard
  <2>2. CASE tasks' = 0 /\ RecipeStep("RECIPE_COMPLETE")
      BY <1>1, <1>2, <1>7, <2>1, <2>2, NoTask
      DEF RecipeComplete, RecipeStep, Dies
  <2> QED
      BY <1>7, <2>1, <2>2, DiesVoid DEF RecipeComplete
<1> QED
    BY <1>3, <1>4, <1>5, <1>6, <1>7 DEF RecipeNext

----------------------------------------------------------------------------
(* The task handler moves on to one source, or to the answer of one        *)
(* message.                                                                *)
LEMMA HandlerStarts ==
    ASSUME IInv, NEW state, TaskStep(state), UNCHANGED tasks,
           \/ /\ UNCHANGED queue
              /\ \E op \in TaskSources :
                    src' = {op} /\ task'.state \in StatesOf(op)
           \/ \E k \in CallbackKinds :
                    StartMessage(Msg(k)) /\ task'.state = StateAfter(k)
    PROVE  SourceState' /\ CallbackState'
<1>1. /\ tasks \in Tasks /\ src = {"task_handler"} /\ NoCallbackIn(queue)
      /\ queue \in Seq(Message)
    BY Running DEF TaskStep, IInv, TypeOK
<1>2. CASE UNCHANGED queue /\ \E op \in TaskSources :
                 src' = {op} /\ task'.state \in StatesOf(op)
    BY <1>1, <1>2, NothingAwaited DEF SourceState
<1>3. ASSUME NEW k \in CallbackKinds, StartMessage(Msg(k)),
             task'.state = StateAfter(k)
      PROVE  SourceState' /\ CallbackState'
  <2>1. /\ Msg(k) \in Message /\ Msg(k).kind = k /\ Msg(k).task = tasks
        /\ src' = {} /\ queue' = Append(queue, Msg(k))
      BY <1>1, <1>3, MsgTyped DEF StartMessage, Enqueue, Msg
  <2>2. SourceState'
      BY <2>1 DEF SourceState
  <2>3. ASSUME NEW i \in 1 .. Len(queue'), CallbackIn(queue', i)
        PROVE  queue'[i] = Msg(k)
      BY <1>1, <2>1, <2>3, CallbackLast
  <2>4. CallbackState'
      BY <1>3, <2>1, <2>3 DEF CallbackState
  <2> QED
      BY <2>2, <2>4
<1> QED
    BY <1>2, <1>3

(* The two writes of TASK_RUN touch the section of the current task only.  *)
LEMMA WrittenSection ==
    ASSUME TypeOK, tasks \in Tasks, NEW n \in 0 .. 2
    PROVE  /\ Written(n)[tasks].localwatchdog = config[tasks].localwatchdog
           /\ Written(n)[tasks].started <=> config[tasks].started \/ n > 0
           /\ \A t \in Tasks : t # tasks => Written(n)[t] = config[t]
<1>1. config[tasks] \in Section /\ Written(n)[tasks] = Saved(config[tasks], n)
    BY DEF TypeOK, Written
<1>2. ASSUME NEW c \in Section
      PROVE  /\ Saved(c, n).localwatchdog = c.localwatchdog
             /\ Saved(c, n).started <=> c.started \/ n > 0
    BY DEF Saved, Section
<1>3. \A t \in Tasks : t # tasks => Written(n)[t] = config[t]
    BY DEF TypeOK, Written
<1> QED
    BY <1>1, <1>2, <1>3

(* Each state of the task handler: what it read from the config file stays *)
(* what the config file says until the end of the task.                    *)
LEMMA TaskResumes == IInv /\ RInv /\ TaskHandler => RInv'
<1> SUFFICES ASSUME IInv, RInv, TaskHandler PROVE RInv'
    OBVIOUS
<1>1. ASSUME NEW state, TaskStep(state)
      PROVE  /\ rstate = "RECIPE_RUNNING" /\ tasks \in Tasks
             /\ tasks # 0 /\ task.state = state
             /\ src = {"task_handler"} /\ NoCallbackIn(queue)
             /\ task \in Task /\ config[tasks] \in Section
             /\ UNCHANGED <<ewd, refused>>
    BY <1>1, Running DEF TaskStep, IInv, TypeOK, InRecipe
<1>2. ASSUME SameTask, NEW state, TaskStep(state)
      PROVE  AbortCancels' /\ Fresh' /\ UNCHANGED <<tasks, rstate>>
    BY <1>1, <1>2 DEF SameTask, RInv, AbortCancels, Fresh
<1>3. ASSUME NEW state, TaskStep(state), UNCHANGED tasks,
             UNCHANGED <<src, queue>>, task' \in Task
      PROVE  SourceState' /\ CallbackState'
  <2>1. src' = {"task_handler"} /\ task'.state \in StatesOf("task_handler")
      BY <1>1, <1>3 DEF StatesOf, Task
  <2> QED
      BY <1>3, <2>1, HandlerStarts DEF TaskSources
<1>4. ASSUME NEW state, TaskStep(state), UNCHANGED tasks, NEW op \in TaskSources,
             Start(op), UNCHANGED queue, task'.state \in StatesOf(op)
      PROVE  SourceState' /\ CallbackState' /\ src' = {op}
    BY <1>1, <1>4, HandlerStarts DEF Start
<1>5. ASSUME NEW state, TaskStep(state), UNCHANGED tasks,
             NEW k \in CallbackKinds, StartMessage(Msg(k)),
             task'.state = StateAfter(k)
      PROVE  SourceState' /\ CallbackState' /\ src' = {}
    BY <1>1, <1>5, HandlerStarts DEF StartMessage
<1>6. IInv' /\ TypeOK'
    BY IInvStep DEF Next, DaemonStep, IInv
<1>7. ASSUME NEW readable \in BOOLEAN, TaskIdle(readable) PROVE RInv'
  <2>1. /\ TaskStep("TASK_IDLE") /\ SameTask /\ UNCHANGED <<config, tasks>>
        /\ task' \in Task
      BY <1>6, <1>7 DEF TaskIdle, SameTask, TypeOK
  <2>2. CASE task'.state = "TASK_COMPLETE" /\ UNCHANGED <<src, queue>>
    <3>1. SourceState' /\ CallbackState' /\ AbortCancels' /\ Fresh'
        BY <1>2, <1>3, <2>1, <2>2
    <3>2. Resumed' /\ Watched'
        BY <1>1, <2>1, <2>2 DEF RInv, Resumed, Watched, AtRun, Heard, BeforeEnd
    <3> QED
        BY <3>1, <3>2 DEF RInv
  <2>3. CASE /\ task' = Restored(config[tasks])
             /\ IF IdleState(config[tasks]) = "TASK_FETCH"
                THEN StartMessage(Msg("Running"))
                ELSE UNCHANGED <<src, queue>>
    <3>1. /\ task'.state = IdleState(config[tasks])
          /\ task'.started = config[tasks].started
        BY <1>1, <2>1, <2>3 DEF Restored, Task
    <3>2. SourceState' /\ CallbackState' /\ src' \subseteq {"task_handler"}
        BY <1>1, <1>3, <1>5, <2>1, <2>3, <3>1
        DEF CallbackKinds, StatusKinds, StateAfter
    <3>3. Resumed'
        BY <2>1, <3>1, <3>2 DEF Resumed, BeforeEnd, IdleState
    <3>4. Watched'
        BY <1>1, <2>1, <3>1 DEF RInv, Watched, AtRun, Heard, IdleState
    <3> QED
        BY <1>2, <2>1, <3>2, <3>3, <3>4 DEF RInv
  <2> QED
      BY <1>1, <1>7, <2>1, <2>2, <2>3 DEF TaskIdle, Fail, Task
<1>8. CASE TaskFetch \/ TaskMetadataParse \/ TaskRefreshRoles \/ TaskEnv
           \/ TaskWatchdog \/ TaskDependencies \/ TaskComplete
  <2>1. PICK state \in BeforeEnd \cup {"TASK_COMPLETE"} :
            /\ TaskStep(state) /\ SameTask /\ UNCHANGED <<config, tasks>>
            /\ task' \in Task
      BY <1>6, <1>8
      DEF TaskFetch, TaskMetadataParse, TaskRefreshRoles, TaskEnv, TaskWatchdog,
          TaskDependencies, TaskComplete, SameTask, TypeOK, BeforeEnd
  <2>2. SourceState' /\ CallbackState'
    <3>1. CASE TaskFetch \/ TaskMetadataParse
        BY <1>1, <1>4, <2>1, <3>1
        DEF TaskFetch, TaskMetadataParse, StatesOf, TaskSources
    <3>2. CASE TaskRefreshRoles
        BY <1>1, <1>3, <1>4, <2>1, <3>2
        DEF TaskRefreshRoles, Continue, StatesOf, TaskSources
    <3>3. CASE TaskEnv \/ TaskComplete
        BY <1>3, <2>1, <3>3 DEF TaskEnv, TaskComplete
    <3>4. CASE TaskWatchdog
      <4>1. task'.state = StateAfter("watchdog")
          BY <1>1, <2>1, <3>4 DEF TaskWatchdog, Goto, Task, StateAfter
      <4> QED
          BY <1>3, <1>5, <2>1, <3>4, <4>1 DEF TaskWatchdog, CallbackKinds
    <3>5. CASE TaskDependencies
      <4>1. task'.state \in StatesOf("dependencies")
          BY <1>1, <2>1, <3>5 DEF TaskDependencies, Goto, Task, StatesOf
      <4> QED
          BY <1>3, <1>4, <2>1, <3>5, <4>1 DEF TaskDependencies, TaskSources
    <3> QED
        BY <1>8, <3>1, <3>2, <3>3, <3>4, <3>5
  <2>3. Resumed'
    <3>1. /\ task'.started = task.started
          /\ task'.state \in BeforeEnd => task.state \in BeforeEnd
          /\ task'.state = "TASK_FETCH" => task.state = "TASK_FETCH"
          /\ "dependencies" \in src' => ~task.started
      <4>1. CASE TaskFetch \/ TaskMetadataParse
          BY <1>1, <2>1, <4>1 DEF TaskFetch, TaskMetadataParse, Start
      <4>2. CASE TaskRefreshRoles
          BY <1>1, <2>1, <4>2
          DEF TaskRefreshRoles, Start, Continue, Goto, Task, BeforeEnd
      <4>3. CASE TaskEnv
          BY <1>1, <4>3 DEF TaskEnv, Task, BeforeEnd
      <4>4. CASE TaskComplete
          BY <1>1, <4>4 DEF TaskComplete, Task, BeforeEnd
      <4>5. CASE TaskWatchdog
          BY <1>1, <2>1, <4>5
          DEF TaskWatchdog, StartMessage, Goto, Task, BeforeEnd
      <4>6. CASE TaskDependencies
          BY <1>1, <2>1, <4>6
          DEF TaskDependencies, Start, Goto, Task, BeforeEnd
      <4> QED
          BY <1>8, <4>1, <4>2, <4>3, <4>4, <4>5, <4>6
    <3> QED
        BY <2>1, <3>1 DEF RInv, Resumed
  <2>4. Watched'
    <3>1. AtRun' => AtRun \/ (TaskWatchdog /\ ~NeedsWatchdog)
      <4>1. CASE TaskFetch \/ TaskMetadataParse
          BY <1>1, <2>1, <4>1 DEF TaskFetch, TaskMetadataParse, AtRun
      <4>2. CASE TaskRefreshRoles
          BY <1>1, <2>1, <4>2
          DEF TaskRefreshRoles, Start, Continue, Goto, Task, AtRun
      <4>3. CASE TaskEnv \/ TaskComplete
          BY <1>1, <2>1, <4>3 DEF TaskEnv, TaskComplete, Task, AtRun
      <4>4. CASE TaskWatchdog
          BY <1>1, <2>1, <4>4
          DEF TaskWatchdog, StartMessage, Goto, Task, AtRun
      <4>5. CASE TaskDependencies
          BY <1>1, <4>5 DEF TaskDependencies, AtRun
      <4> QED
          BY <1>8, <4>1, <4>2, <4>3, <4>4, <4>5
    <3>2. TaskWatchdog /\ ~NeedsWatchdog => config[tasks].started
        BY <1>1 DEF TaskWatchdog, NeedsWatchdog, RInv, Resumed, BeforeEnd
    <3> QED
        BY <1>1, <2>1, <3>1, <3>2 DEF RInv, Watched, Heard
  <2> QED
      BY <1>2, <2>1, <2>2, <2>3, <2>4 DEF RInv
<1>9. CASE TaskRun
  <2>1. /\ TaskStep("TASK_RUN") /\ SameTask /\ UNCHANGED tasks
        /\ task' \in Task /\ UNCHANGED queue
        /\ tasks \in Heard
      BY <1>1, <1>6, <1>9
      DEF TaskRun, SameTask, Continue, TypeOK, RInv, Watched, AtRun
  <2>2. CASE MayRun
    <3>1. /\ config' = Written(2) /\ task' = [task EXCEPT !.started = TRUE]
          /\ Start("task_run")
        BY <1>9, <2>2 DEF TaskRun
    <3>2. task'.state = "TASK_RUN" /\ task'.started
        BY <1>1, <2>1, <3>1 DEF Task
    <3>3. SourceState' /\ CallbackState' /\ src' = {"task_run"}
        BY <1>4, <2>1, <3>1, <3>2 DEF StatesOf, TaskSources
    <3>4. /\ config'[tasks].localwatchdog = config[tasks].localwatchdog
          /\ config'[tasks].started
          /\ \A t \in Tasks : t # tasks => config'[t] = config[t]
        BY <1>1, <2>1, <3>1, WrittenSection DEF IInv
    <3>5. Resumed'
        BY <1>1, <2>1, <3>2, <3>3, <3>4 DEF RInv, Resumed, BeforeEnd
    <3>6. Watched'
        BY <1>1, <2>1, <3>4 DEF RInv, Watched, Heard
    <3> QED
        BY <1>2, <2>1, <3>3, <3>5, <3>6 DEF RInv
  <2>3. CASE ~MayRun
    <3>1. task'.state = "TASK_COMPLETE" /\ UNCHANGED <<src, config>>
        BY <1>1, <1>9, <2>1, <2>3 DEF TaskRun, Continue, Goto, Task
    <3>2. Resumed' /\ Watched'
        BY <1>1, <2>1, <3>1 DEF RInv, Resumed, Watched, AtRun, Heard, BeforeEnd
    <3> QED
        BY <1>2, <1>3, <2>1, <3>1, <3>2 DEF RInv
  <2> QED
      BY <2>2, <2>3
<1>10. CASE TaskCompleted
  <2>1. /\ TaskStep("TASK_COMPLETED") /\ UNCHANGED <<tasks, rstate>>
        /\ StartMessage(Msg(EndStatus)) /\ ClearSection
        /\ task'.state = "TASK_NEXT"
      BY <1>1, <1>10 DEF TaskCompleted, Task
  <2>2. EndStatus \in CallbackKinds /\ StateAfter(EndStatus) = "TASK_NEXT"
      BY DEF EndStatus, CallbackKinds, StatusKinds, Terminal, StateAfter
  <2>3. SourceState' /\ CallbackState'
      BY <1>5, <2>1, <2>2
  <2>4. Resumed'
      BY <2>1 DEF Resumed, BeforeEnd
  <2>5. /\ config' \in [Tasks -> Section] /\ ~config'[tasks].started
        /\ \A t \in Tasks : t # tasks => config'[t] = config[t]
      BY <1>1, <1>6, <2>1
      DEF ClearSection, EmptySection, IInv, TypeOK
  <2>6. Watched'
      BY <1>1, <2>1, <2>5 DEF RInv, Watched, AtRun, Heard
  <2>7. AbortCancels' /\ Fresh'
      BY <1>1, <1>10, <2>1
      DEF TaskCompleted, RInv, AbortCancels, Fresh
  <2> QED
      BY <2>3, <2>4, <2>6, <2>7 DEF RInv
<1>11. CASE TaskNext
  <2>1. /\ TaskStep("TASK_NEXT") /\ task' = NewTask
        /\ UNCHANGED <<cancelled, queue, config, ewd, refused>>
        /\ NoCallbackIn(queue') /\ task'.state = "TASK_IDLE"
        /\ \A t \in Tasks : config'[t].started => t \in Heard'
      BY <1>1, <1>11 DEF TaskNext, NewTask, RInv, Watched, Heard
  <2>2. CASE HasNext
    <3>1. tasks' # 0 /\ UNCHANGED <<aborted, rstate>>
        BY <1>1, <1>11, <2>1, <2>2, RunnerAssumption DEF TaskNext, Tasks
    <3>2. src' = {"task_handler"}
        BY <1>1, <1>11, <2>1, <2>2 DEF TaskNext
    <3>3. SourceState'
        BY <2>1, <3>2 DEF SourceState, StatesOf, TaskStates
    <3>4. Resumed' /\ Watched' /\ AbortCancels' /\ Fresh'
        BY <2>1, <3>1
        DEF RInv, Resumed, Watched, AtRun, AbortCancels, Fresh, BeforeEnd
    <3> QED
        BY <2>1, <3>3, <3>4, NothingAwaited DEF RInv
  <2>3. CASE ~HasNext
    <3>1. /\ tasks' = 0 /\ src' = {} /\ rstate' = "RECIPE_COMPLETE"
          /\ aborted' = "NONE"
        BY <1>1, <1>11, <2>1, <2>3 DEF TaskNext
    <3> QED
        BY <2>1, <3>1, NoTask
  <2> QED
      BY <2>2, <2>3
<1> QED
    BY <1>7, <1>8, <1>9, <1>10, <1>11 DEF TaskHandler

----------------------------------------------------------------------------
(* An operation ends in the state it was started in, so what it goes on to *)
(* is what the config file said when the task began.                       *)
LEMMA OperationResumes == IInv /\ RInv /\ Operation => RInv'
<1> SUFFICES ASSUME IInv, RInv, Operation PROVE RInv'
    OBVIOUS
<1>1. IInv'
    BY IInvStep DEF Next, DaemonStep
<1>2. ASSUME NEW op, Finish(op), NEW next \in TaskSources, Becomes(op, next)
      PROVE  /\ src' = {next} /\ task.state \in StatesOf(op) /\ task \in Task
             /\ UNCHANGED <<tasks, ewd, refused>> /\ tasks \in Tasks
             /\ config[tasks] \in Section
             /\ CallbackState' /\ AbortCancels' /\ Fresh'
  <2>1. src = {op} /\ rstate = "RECIPE_RUNNING" /\ tasks \in Tasks
      BY <1>2, Running DEF Finish
  <2>2. src' = {next} /\ task.state \in StatesOf(op)
      BY <1>2, <2>1 DEF Becomes, RInv, SourceState
  <2>3. NoCallbackIn(queue')
      BY <1>1, <2>2, BatonIn DEF IInv
  <2> QED
      BY <1>2, <2>1, <2>2, <2>3, NothingAwaited
      DEF Finish, IInv, TypeOK, RInv, AbortCancels, Fresh
<1>3. ASSUME NEW op, Finish(op), NEW next \in TaskSources, Becomes(op, next),
             UNCHANGED config, task'.started = task.started,
             task'.state \in StatesOf(next),
             task'.state \in BeforeEnd => task.state \in BeforeEnd,
             task'.state = "TASK_FETCH" => task.state = "TASK_FETCH",
             task'.state # "TASK_DEPENDENCIES",
             task'.state = "TASK_RUN" => task.state = "TASK_RUN",
             next # "dependencies"
      PROVE  RInv'
  <2>1. SourceState' /\ CallbackState' /\ AbortCancels' /\ Fresh'
      BY <1>2, <1>3 DEF SourceState
  <2>2. Resumed'
      BY <1>2, <1>3 DEF RInv, Resumed
  <2>3. Watched'
      BY <1>2, <1>3 DEF RInv, Watched, AtRun, Heard
  <2> QED
      BY <2>1, <2>2, <2>3 DEF RInv
<1>4. ASSUME NEW op, Finish(op), Becomes(op, "task_handler"), UNCHANGED config,
             Fail \/ Goto("TASK_COMPLETE")
      PROVE  RInv'
  <2>1. task'.state = "TASK_COMPLETE" /\ task'.started = task.started
      BY <1>2, <1>4 DEF Fail, Goto, Task, TaskSources
  <2> QED
      BY <1>3, <1>4, <2>1 DEF StatesOf, TaskStates, TaskSources, BeforeEnd
<1>5. ASSUME NEW op, Finish(op), Becomes(op, "task_handler"), UNCHANGED config,
             NEW from \in BeforeEnd, StatesOf(op) = {from},
             NEW next \in {"TASK_FETCH", "TASK_METADATA_PARSE",
                           "TASK_REFRESH_ROLES", "TASK_ENV", "TASK_RUN"},
             Goto(next) \/ task' = [task EXCEPT !.state = next,
                                                !.metadata = TRUE],
             next \in {"TASK_FETCH", "TASK_RUN"} => from = next
      PROVE  RInv'
  <2>1. /\ task.state = from /\ task'.state = next
        /\ task'.started = task.started
      BY <1>2, <1>5 DEF Goto, Task, TaskSources
  <2> QED
      BY <1>3, <1>5, <2>1 DEF StatesOf, TaskStates, TaskSources
<1>6. ASSUME NEW op, NEW retry \in TaskSources, NEW n, NEW ok, NEW next,
             NEW from \in BeforeEnd,
             StatesOf(op) = {from}, StatesOf(retry) = {from},
             next \in {"TASK_METADATA_PARSE", "TASK_ENV"},
             retry # "dependencies", from # "TASK_DEPENDENCIES",
             Attempted(op, retry, n, ok, next)
      PROVE  RInv'
  <2>1. Finish(op) /\ UNCHANGED config
      BY <1>6 DEF Attempted
  <2>2. \/ Goto(next) /\ Becomes(op, "task_handler")
        \/ Becomes(op, retry) /\ UNCHANGED task
        \/ Fail /\ Becomes(op, "task_handler")
      BY <1>6 DEF Attempted
  <2>3. CASE Goto(next) /\ Becomes(op, "task_handler")
      BY <1>5, <1>6, <2>1, <2>3
  <2>4. CASE Becomes(op, retry) /\ UNCHANGED task
    <3>1. task.state = from
        BY <1>2, <1>6, <2>1, <2>4
    <3> QED
        BY <1>3, <1>6, <2>1, <2>4, <3>1
  <2>5. CASE Fail /\ Becomes(op, "task_handler")
      BY <1>4, <2>1, <2>5
  <2> QED
      BY <2>2, <2>3, <2>4, <2>5
<1>7. /\ \A op \in {"fetch", "task_fetch_retry", "package"} :
             StatesOf(op) = {"TASK_FETCH"}
      /\ StatesOf("metadata") = {"TASK_METADATA_PARSE"}
      /\ \A op \in {"roles", "refresh_role_retry"} :
             StatesOf(op) = {"TASK_REFRESH_ROLES"}
      /\ StatesOf("dependencies") = {"TASK_RUN"}
      /\ StatesOf("plugins") = {"TASK_COMPLETE"}
      /\ {"TASK_FETCH", "TASK_METADATA_PARSE", "TASK_REFRESH_ROLES",
          "TASK_RUN"} \subseteq BeforeEnd
      /\ {"fetch", "task_fetch_retry", "package", "roles", "plugins",
          "refresh_role_retry", "task_handler"} \subseteq TaskSources
    BY DEF StatesOf, BeforeEnd, TaskSources
<1>8. ASSUME NEW ok \in BOOLEAN, FetchFinish(ok) PROVE RInv'
    BY <1>6, <1>7, <1>8 DEF FetchFinish
<1>9. ASSUME NEW ok \in BOOLEAN, RolesFinish(ok) PROVE RInv'
    BY <1>6, <1>7, <1>9 DEF RolesFinish
<1>10. ASSUME NEW ok \in BOOLEAN, PackageFinish(ok) PROVE RInv'
    BY <1>4, <1>5, <1>7, <1>10 DEF PackageFinish
<1>11. ASSUME NEW ok \in BOOLEAN, DependencyFinish(ok) PROVE RInv'
    BY <1>4, <1>5, <1>7, <1>11 DEF DependencyFinish
<1>12. CASE TaskFetchRetry
    BY <1>5, <1>7, <1>12 DEF TaskFetchRetry, Retried
<1>13. CASE RefreshRoleRetry
    BY <1>5, <1>7, <1>13 DEF RefreshRoleRetry, Retried
<1>14. CASE RolesRejected
    BY <1>4, <1>14 DEF RolesRejected
<1>15. CASE MetadataFinish
  <2>1. Finish("metadata") /\ Becomes("metadata", "task_handler")
        /\ UNCHANGED config
      BY <1>15 DEF MetadataFinish
  <2>2. \/ task' = [task EXCEPT !.state = "TASK_REFRESH_ROLES",
                                !.metadata = TRUE]
        \/ Fail \/ Goto("TASK_COMPLETE")
      BY <1>15 DEF MetadataFinish
  <2> QED
      BY <1>4, <1>5, <1>7, <2>1, <2>2
<1>16. ASSUME NEW exit, TaskFinish(exit) PROVE RInv'
  <2>1. /\ Finish("task_run") /\ Becomes("task_run", "plugins")
        /\ "plugins" \in TaskSources
      BY <1>16 DEF TaskFinish, TaskSources
  <2>2. /\ src' = {"plugins"} /\ task \in Task /\ tasks \in Tasks
        /\ UNCHANGED <<tasks, ewd, refused>> /\ config[tasks] \in Section
        /\ CallbackState' /\ AbortCancels' /\ Fresh'
      BY <1>2, <2>1
  <2>3. task'.state = "TASK_COMPLETE"
      BY <1>16, <2>2 DEF TaskFinish, Task
  <2>4. SourceState' /\ Resumed'
      BY <1>7, <2>2, <2>3 DEF SourceState, Resumed, BeforeEnd
  <2>5. \A t \in Tasks : config'[t].started = config[t].started
    <3>1. CASE UNCHANGED config
        BY <3>1
    <3>2. CASE config' = [config EXCEPT ![tasks].localwatchdog = TRUE]
        BY <2>2, <3>2 DEF IInv, TypeOK, Section
    <3> QED
        BY <1>16, <3>1, <3>2 DEF TaskFinish
  <2>6. Watched'
      BY <2>2, <2>3, <2>5 DEF RInv, Watched, AtRun, Heard
  <2> QED
      BY <2>2, <2>4, <2>6 DEF RInv
<1>17. CASE PluginsFinish
  <2>1. /\ Finish("plugins") /\ Becomes("plugins", "task_handler")
        /\ UNCHANGED <<task, config>>
      BY <1>17 DEF PluginsFinish
  <2>2. task.state = "TASK_COMPLETE" /\ task.state \in TaskStates
      BY <1>2, <1>7, <2>1 DEF Task
  <2> QED
      BY <1>3, <1>7, <2>1, <2>2 DEF StatesOf, BeforeEnd
<1> QED
    BY <1>8, <1>9, <1>10, <1>11, <1>12, <1>13, <1>14, <1>15, <1>16, <1>17
    DEF Operation

----------------------------------------------------------------------------
(* The answer to the watchdog message, be it a refusal, is what lets the   *)
(* task go on to its dependencies.                                         *)
LEMMA ReplyResumes == IInv /\ RInv /\ (Accept \/ Refuse \/ LoseReply) => RInv'
<1> SUFFICES ASSUME IInv, RInv, Accept \/ Refuse \/ LoseReply PROVE RInv'
    OBVIOUS
<1> DEFINE m == Head(queue)
<1>1. /\ queue \in Seq(Message) /\ queue # <<>>
      /\ 1 \in 1 .. Len(queue) /\ m = queue[1]
  <2>1. queue \in Seq(Message) /\ queue # <<>>
      BY DEF Accept, Refuse, LoseReply, Sending, IInv, TypeOK
  <2>2. Len(queue) \in Nat \ {0}
      BY <2>1, HeadTailProperties, EmptySeq
  <2> QED
      BY <2>1, <2>2, HeadTailProperties
<1>2. \A t \in Heard : t \in Heard'
    BY DEF Accept, Refuse, LoseReply, ServerApplies, Heard
<1>3. \A t \in Tasks : config[t].started => t \in Heard'
    BY <1>2 DEF RInv, Watched
<1>4. CASE LoseReply
  <2>1. UNCHANGED <<rstate, tasks, task, src, queue, config, cancelled, aborted>>
      BY <1>4 DEF LoseReply
  <2>2. Watched'
      BY <1>2, <1>3, <2>1 DEF RInv, Watched, AtRun
  <2>3. CallbackState'
      BY <2>1 DEF RInv, CallbackState, CallbackIn
  <2> QED
      BY <2>1, <2>2, <2>3
      DEF RInv, SourceState, Resumed, AbortCancels, Fresh
<1>5. ASSUME queue' = Tail(queue),
             src' = IF m.kind \in CallbackKinds THEN src \cup {"task_handler"}
                                               ELSE src,
             UNCHANGED <<recipeVars, tasks, task, cancelVars, config>>,
             m.kind = "watchdog" => m.task \in Heard'
      PROVE  RInv'
  <2>1. AbortCancels' /\ Fresh'
      BY <1>5 DEF RInv, AbortCancels, Fresh
  <2>2. CASE m.kind \in CallbackKinds
    <3>1. ~NoCallbackIn(queue)
        BY <1>1, <2>2, CallbackAnswered
    <3>2. src = {} /\ OneCallbackIn(queue)
        BY <3>1, BatonIn DEF IInv
    <3>3. src' = {"task_handler"} /\ NoCallbackIn(queue')
        BY <1>1, <1>5, <2>2, <3>2, CallbackAnswered
    <3>4. m.task = tasks /\ task.state = StateAfter(m.kind)
        BY <1>1, <2>2 DEF RInv, CallbackState, CallbackIn
    <3>5. SourceState'
        BY <1>5, <3>3 DEF SourceState, StatesOf, IInv, TypeOK, Task
    <3>6. Resumed'
        BY <1>5, <3>3 DEF RInv, Resumed
    <3>7. AtRun' => m.kind = "watchdog"
        BY <1>5, <3>4 DEF AtRun, StateAfter
    <3>8. Watched'
        BY <1>3, <1>5, <3>4, <3>7 DEF Watched
    <3> QED
        BY <2>1, <3>3, <3>5, <3>6, <3>8, NothingAwaited DEF RInv
  <2>3. CASE m.kind \notin CallbackKinds
    <3>1. UNCHANGED src
        BY <1>5, <2>3
    <3>2. CallbackState'
      <4>1. ASSUME NEW i \in 1 .. Len(queue'), CallbackIn(queue', i)
            PROVE  /\ queue'[i].task = tasks
                   /\ task.state = StateAfter(queue'[i].kind)
        <5>1. /\ i + 1 \in 1 .. Len(queue) /\ queue'[i] = queue[i + 1]
              /\ CallbackIn(queue, i + 1)
            BY <1>1, <1>5, <4>1, CallbackMoved
        <5> QED
            BY <5>1 DEF RInv, CallbackState
      <4> QED
          BY <1>5, <4>1 DEF CallbackState
    <3>3. Watched'
        BY <1>2, <1>3, <1>5, <3>1 DEF RInv, Watched, AtRun
    <3> QED
        BY <1>5, <2>1, <3>1, <3>2, <3>3 DEF RInv, SourceState, Resumed
  <2> QED
      BY <2>2, <2>3
<1>6. ASSUME Answered(m), m.kind = "watchdog" => m.task \in Heard'
      PROVE  RInv'
  <2>1. CASE Dies("down") /\ UNCHANGED config
      BY <1>3, <2>1, DiesVoid
  <2> QED
      BY <1>5, <1>6, <2>1 DEF Answered
<1>7. CASE Accept
    BY <1>6, <1>7 DEF Accept, ServerApplies, Heard
<1>8. CASE Refuse
    BY <1>6, <1>8 DEF Refuse, Heard
<1> QED
    BY <1>4, <1>7, <1>8

(* Requests change neither where a task is nor what was read of it; an     *)
(* abort always finds a current task.                                      *)
LEMMA RequestResumes == IInv /\ RInv /\ Requests => RInv'
<1> SUFFICES ASSUME IInv, RInv, Requests PROVE RInv'
    OBVIOUS
<1>1. Request /\ UNCHANGED <<config, ewd, refused>>
    BY DEF Requests, RequestWithoutTask, AbortRecipe, AbortTask, Report,
           Forward, AdjustWatchdog, Request
<1>2. ASSUME Dies("down") PROVE RInv'
    BY <1>1, <1>2, DiesVoid DEF RInv, Watched, Heard
<1>3. ASSUME tasks # 0, Served, task'.state = task.state,
             task'.started = task.started,
             UNCHANGED queue \/ \E k \in ForwardKinds : Enqueue(Msg(k)),
             AbortCancels'
      PROVE  RInv'
  <2>1. UNCHANGED <<rstate, tasks, src>> /\ tasks \in Tasks
      BY <1>3, RunnerAssumption DEF Served, IInv, TypeOK, Tasks
  <2>2. CallbackState'
    <3>1. CASE UNCHANGED queue
        BY <1>3, <2>1, <3>1 DEF RInv, CallbackState, CallbackIn
    <3>2. ASSUME NEW k \in ForwardKinds, Enqueue(Msg(k)) PROVE CallbackState'
      <4>1. /\ queue \in Seq(Message) /\ queue' = Append(queue, Msg(k))
            /\ Msg(k) \in Message /\ Msg(k).kind \notin CallbackKinds
          BY <2>1, <3>2, MsgTyped
          DEF Enqueue, IInv, TypeOK, ForwardKinds, CallbackKinds, StatusKinds,
              Terminal
      <4>2. ASSUME NEW i \in 1 .. Len(queue'), CallbackIn(queue', i)
            PROVE  /\ queue'[i].task = tasks
                   /\ task.state = StateAfter(queue'[i].kind)
        <5>1. /\ i \in 1 .. Len(queue) /\ queue'[i] = queue[i]
              /\ CallbackIn(queue, i)
            BY <4>1, <4>2, CallbackKept
        <5> QED
            BY <5>1 DEF RInv, CallbackState
      <4> QED
          BY <1>3, <2>1, <4>2 DEF CallbackState
    <3> QED
        BY <1>3, <3>1, <3>2
  <2>3. SourceState' /\ Resumed' /\ Watched' /\ Fresh'
      BY <1>1, <1>3, <2>1
      DEF RInv, SourceState, Resumed, Watched, AtRun, Heard, Fresh
  <2> QED
      BY <1>3, <2>2, <2>3 DEF RInv
<1>4. ASSUME UNCHANGED task \/ task' = [task EXCEPT !.results_reported = TRUE]
      PROVE  task'.state = task.state /\ task'.started = task.started
    BY <1>4 DEF IInv, TypeOK, Task
<1>5. ASSUME UNCHANGED cancelVars, UNCHANGED tasks PROVE AbortCancels'
    BY <1>5 DEF RInv, AbortCancels
<1>6. CASE AbortRecipe \/ AbortTask
    BY <1>3, <1>6 DEF AbortRecipe, AbortTask, Served, AbortCancels
<1>7. CASE Report
    BY <1>3, <1>4, <1>5, <1>7 DEF Report, Served, ForwardKinds
<1>8. CASE Forward
    BY <1>3, <1>4, <1>5, <1>8 DEF Forward, Served, ForwardKinds
<1>9. CASE AdjustWatchdog
    BY <1>2, <1>3, <1>5, <1>9 DEF AdjustWatchdog, Served, ForwardKinds
<1>10. CASE RequestWithoutTask
    BY <1>2, <1>10 DEF RequestWithoutTask
<1> QED
    BY <1>6, <1>7, <1>8, <1>9, <1>10 DEF Requests

LEMMA BootResumes ==
    IInv /\ RInv /\ Restart => RInv'
<1> SUFFICES ASSUME IInv, RInv, Restart
             PROVE  RInv'
    OBVIOUS
<1>1. /\ Forget /\ rstate' # "RECIPE_RUN" /\ UNCHANGED <<ewd, refused>>
    BY Boots DEF Boot, BootState
<1>2. \A t \in Tasks : config'[t].started => t \in Heard'
  <2>1. CASE UNCHANGED config
      BY <1>1, <2>1 DEF RInv, Watched, Heard
  <2>2. ASSUME NEW n \in 0 .. 1, RebootInTaskRun(n)
        PROVE  \A t \in Tasks : config'[t].started => t \in Heard'
    <3>1. tasks \in Tasks /\ task.state = "TASK_RUN" /\ config' = Written(n)
        BY <2>2, RunInterrupted
    <3>2. n \in 0 .. 2
        OBVIOUS
    <3>3. \A t \in Tasks : t # tasks => config'[t] = config[t]
        BY <3>1, <3>2, WrittenSection DEF IInv
    <3>4. tasks \in Heard
        BY <3>1, RunnerAssumption DEF RInv, Watched, AtRun, Tasks
    <3> QED
        BY <1>1, <3>3, <3>4 DEF RInv, Watched, Heard
  <2> QED
      BY <2>1, <2>2 DEF Restart, Reboot, RebootInTaskCompleted
<1> QED
    BY <1>1, <1>2, ForgetVoid

(* How a step changes the queue.  A result is queued while no answer is    *)
(* awaited: the operation that ends holds the baton.                       *)
LEMMA QueueSteps ==
    ASSUME IInv, [Next]_vars
    PROVE  \/ UNCHANGED queue
           \/ queue' = <<>>
           \/ queue # <<>> /\ queue' = Tail(queue)
           \/ \E k \in CallbackKinds \cup {"result"} \cup ForwardKinds :
                  /\ tasks \in Tasks /\ queue' = Append(queue, Msg(k))
                  /\ k = "result" => NoCallbackIn(queue)
<1>1. CASE UNCHANGED vars
    BY <1>1 DEF vars
<1>2. ASSUME Forget PROVE queue' = <<>>
    BY <1>2 DEF Forget
<1>3. CASE RecipeNext
  <2>1. UNCHANGED queue \/ \E how : Dies(how)
      BY <1>3
      DEF RecipeNext, RecipeFetch, RecipeFetchRetry, RecipeRun, RecipeRunning,
          RecipeComplete, RecipeFetchCompleted, RecipeParse, RecipeStep
  <2> QED
      BY <1>2, <2>1 DEF Dies
<1>4. CASE TaskHandler
  <2>1. tasks \in Tasks
      BY <1>4, Running
      DEF TaskHandler, TaskIdle, TaskFetch, TaskMetadataParse,
          TaskRefreshRoles, TaskEnv, TaskWatchdog, TaskDependencies, TaskRun,
          TaskComplete, TaskCompleted, TaskNext, TaskStep
  <2>2. UNCHANGED queue \/ \E k \in CallbackKinds : StartMessage(Msg(k))
    <3>1. EndStatus \in CallbackKinds
        BY DEF EndStatus, CallbackKinds, StatusKinds, Terminal
    <3> QED
        BY <1>4, <3>1
        DEF TaskHandler, TaskIdle, TaskFetch, TaskMetadataParse,
            TaskRefreshRoles, TaskEnv, TaskWatchdog, TaskDependencies, TaskRun,
            TaskComplete, TaskCompleted, TaskNext, Continue, CallbackKinds,
            StatusKinds
  <2> QED
      BY <2>1, <2>2
      DEF StartMessage, Enqueue, CallbackKinds, StatusKinds, Terminal
<1>5. CASE Operation
  <2>1. UNCHANGED queue \/ Enqueue(Msg("result"))
      BY <1>5
      DEF Operation, FetchFinish, RolesFinish, PackageFinish, DependencyFinish,
          TaskFetchRetry, RefreshRoleRetry, RolesRejected, MetadataFinish,
          TaskFinish, PluginsFinish, Attempted, Retried
  <2>2. \E op : Finish(op)
      BY <1>5
      DEF Operation, FetchFinish, RolesFinish, PackageFinish, DependencyFinish,
          TaskFetchRetry, RefreshRoleRetry, RolesRejected, MetadataFinish,
          TaskFinish, PluginsFinish, Attempted, Retried
  <2>3. tasks \in Tasks /\ NoCallbackIn(queue)
      BY <2>2, Running DEF Finish
  <2> QED
      BY <2>1, <2>3 DEF Enqueue
<1>6. CASE Accept \/ Refuse \/ LoseReply
    BY <1>2, <1>6 DEF Accept, Refuse, LoseReply, Sending, Answered, Dies
<1>7. CASE Requests
  <2>1. \/ Dies("down") \/ UNCHANGED queue
        \/ tasks # 0 /\ \E k \in ForwardKinds : Enqueue(Msg(k))
      BY <1>7
      DEF Requests, RequestWithoutTask, AbortRecipe, AbortTask, Report,
          Forward, AdjustWatchdog, ForwardKinds
  <2>2. tasks # 0 => tasks \in Tasks
      BY RunnerAssumption DEF IInv, TypeOK, Tasks
  <2> QED
      BY <1>2, <2>1, <2>2 DEF Dies, Enqueue, ForwardKinds
<1>8. CASE Restart
    BY <1>2, <1>8, Boots DEF Boot
<1> QED
    BY <1>1, <1>3, <1>4, <1>5, <1>6, <1>7, <1>8 DEF Next, DaemonStep

----------------------------------------------------------------------------
LEMMA RInvInit == Init => RInv
<1> SUFFICES ASSUME Init PROVE RInv
    OBVIOUS
<1>1. /\ rstate # "RECIPE_RUN" /\ tasks = 0 /\ src = {} /\ queue = <<>>
      /\ aborted = "NONE" /\ \A t \in Tasks : ~config[t].started
    BY DEF Init, BootState, EmptySection
<1>2. CallbackState
    BY <1>1, EmptySeq DEF CallbackState
<1> QED
    BY <1>1, <1>2 DEF RInv, SourceState, Resumed, Watched, AbortCancels, Fresh

LEMMA RInvStep == IInv /\ RInv /\ [Next]_vars => RInv'
<1> SUFFICES ASSUME IInv, RInv, [Next]_vars PROVE RInv'
    OBVIOUS
<1>1. CASE UNCHANGED vars
    BY <1>1, Untouched DEF vars
<1>2. CASE DaemonStep
    BY <1>2, RecipeResumes, TaskResumes, OperationResumes, ReplyResumes
    DEF DaemonStep
<1>3. CASE Refuse \/ LoseReply \/ Requests
    BY <1>3, ReplyResumes, RequestResumes
<1>4. CASE Restart
    BY <1>4, BootResumes
<1> QED
    BY <1>1, <1>2, <1>3, <1>4 DEF Next

THEOREM Resumption == Spec => [](IInv /\ RInv)
<1>1. Init => IInv /\ RInv
    BY IInvInit, RInvInit
<1>2. IInv /\ RInv /\ [Next]_vars => (IInv /\ RInv)'
    BY IInvStep, RInvStep
<1> QED
    BY <1>1, <1>2, PTL DEF Spec

(* A command is forked by TASK_RUN only, finished or cut short by a reboot, *)
(* and only while the cancellable is not cancelled.                        *)
LEMMA OnlyTaskRunForks ==
    ASSUME IInv, [Next]_vars
    PROVE  \/ UNCHANGED runs
           \/ /\ tasks \in Tasks /\ task.state = "TASK_RUN" /\ ~cancelled
              /\ runs' = [runs EXCEPT ![tasks] = @ + 1]
<1>1. CASE UNCHANGED vars
    BY <1>1 DEF vars
<1>2. CASE RecipeNext
    BY <1>2
    DEF RecipeNext, RecipeFetch, RecipeFetchRetry, RecipeRun, RecipeRunning,
        RecipeComplete, RecipeFetchCompleted, RecipeParse, RecipeStep
<1>3. CASE TaskHandler
  <2>1. CASE TaskRun
      BY <2>1, Running DEF TaskRun, TaskStep, MayRun, Forked
  <2> QED
      BY <1>3, <2>1
      DEF TaskHandler, TaskIdle, TaskFetch, TaskMetadataParse, TaskRefreshRoles,
          TaskEnv, TaskWatchdog, TaskDependencies, TaskComplete, TaskCompleted,
          TaskNext
<1>4. CASE Operation
  <2>1. \E op : Finish(op)
      BY <1>4
      DEF Operation, FetchFinish, RolesFinish, PackageFinish, DependencyFinish,
          TaskFetchRetry, RefreshRoleRetry, RolesRejected, MetadataFinish,
          TaskFinish, PluginsFinish, Attempted, Retried
  <2> QED
      BY <2>1 DEF Finish
<1>5. CASE Accept \/ Refuse \/ LoseReply
    BY <1>5 DEF Accept, Refuse, LoseReply
<1>6. CASE Requests
    BY <1>6
    DEF Requests, RequestWithoutTask, AbortRecipe, AbortTask, Report, Forward,
        AdjustWatchdog, Request
<1>7. CASE Reboot \/ RebootInTaskCompleted
    BY <1>7 DEF Reboot, RebootInTaskCompleted
<1>8. CASE \E n \in 0 .. 1 : RebootInTaskRun(n)
    BY <1>8, RunInterrupted
<1> QED
    BY <1>1, <1>2, <1>3, <1>4, <1>5, <1>6, <1>7, <1>8
    DEF Next, DaemonStep, Restart

(* After the recipe was aborted no command of any task is forked: TASK_RUN *)
(* tests the cancellable, and nothing resets it while the abort stands.    *)
THEOREM AbortsStop == Spec => AbortStops
<1>1. IInv /\ RInv /\ [Next]_vars
          => [aborted = "RECIPE" => UNCHANGED runs]_vars
    BY OnlyTaskRunForks DEF RInv, AbortCancels
<1> QED
    BY <1>1, Resumption, PTL DEF Spec, AbortStops

(* No command is forked before the controller was told, or refused to      *)
(* hear, the external watchdog of its task, in whatever boot that was.     *)
THEOREM WatchdogBeforeRun == Spec => RunAfterExternalWatchdog
<1>1. ASSUME IInv, RInv, [Next]_vars
      PROVE  \A t \in Tasks : runs'[t] # runs[t] => t \in ewd \cup refused
  <2>1. task.state = "TASK_RUN" /\ tasks \in Tasks => tasks \in ewd \cup refused
      BY <1>1, RunnerAssumption DEF RInv, Watched, AtRun, Heard, Tasks
  <2> QED
      BY <1>1, <2>1, OnlyTaskRunForks DEF IInv, TypeOK
<1>2. IInv /\ RInv /\ [Next]_vars
          => [\A t \in Tasks : runs'[t] # runs[t] => t \in ewd \cup refused]_vars
    BY <1>1
<1> QED
    BY <1>2, Resumption, PTL DEF Spec, RunAfterExternalWatchdog

(* The boot that the localwatchdog plugins cause does not run the task     *)
(* whose local watchdog expired again.                                     *)
THEOREM NoRerunAfterLwd == Spec => LwdNeverReruns
<1>1. ASSUME IInv, RInv, [Next]_vars
      PROVE  \A t \in Tasks : config[t].localwatchdog => runs'[t] = runs[t]
  <2>1. task.state = "TASK_RUN" /\ tasks \in Tasks
            => ~config[tasks].localwatchdog
      BY <1>1, RunnerAssumption DEF RInv, Resumed, BeforeEnd, Tasks
  <2> QED
      BY <1>1, <2>1, OnlyTaskRunForks DEF IInv, TypeOK
<1>2. IInv /\ RInv /\ [Next]_vars
          => [\A t \in Tasks : config[t].localwatchdog
                                   => runs'[t] = runs[t]]_vars
    BY <1>1
<1> QED
    BY <1>2, Resumption, PTL DEF Spec, LwdNeverReruns

(* A task the config file knows as started is never fetched again and its  *)
(* dependencies are not installed again.                                   *)
THEOREM NoRefetch == Spec => []StartedNeverRefetched
<1>1. IInv /\ RInv => StartedNeverRefetched
  <2> SUFFICES ASSUME RInv, tasks # 0, config[tasks].started,
                      NEW op \in {"fetch", "task_fetch_retry", "package",
                                  "dependencies"},
                      op \in src
               PROVE  FALSE
      BY DEF StartedNeverRefetched
  <2>1. task.state \in StatesOf(op)
      BY DEF RInv, SourceState
  <2>2. \/ task.state = "TASK_FETCH"
        \/ task.state = "TASK_RUN" /\ "dependencies" \in src
      BY <2>1 DEF StatesOf
  <2> QED
      BY <2>2 DEF RInv, Resumed, BeforeEnd
<1> QED
    BY <1>1, Resumption, PTL

-----------------------------------------------------------------------------
(***************************************************************************)
(* Part 3.  Two orders of messages: the result of a task goes before its   *)
(* end, and behind the task a recipe was aborted at there are only ends    *)
(* that say so.                                                            *)
(*                                                                         *)
(* The first follows from the baton: a result is queued by an operation,   *)
(* and while an operation runs no end of a task is in the queue.  The      *)
(* second needs to know that a task that begins while the recipe's abort   *)
(* is recorded goes from TASK_IDLE straight to its end, and carries an     *)
(* error when it gets there (Skipped).                                     *)
(***************************************************************************)

(* The current task came after the one the recipe was aborted at.          *)
After == aborted = "RECIPE" /\ tasks > abortedAt

Passing == {"TASK_IDLE", "TASK_COMPLETE", "TASK_COMPLETED", "TASK_NEXT"}

Skipped == After =>
    /\ task.state \in Passing
    /\ task.state = "TASK_COMPLETED" => task.error
    /\ \A i \in 1 .. Len(queue) :
           CallbackIn(queue, i) => queue[i].kind = "Aborted"

----------------------------------------------------------------------------
(* With the abort of the recipe a task is behind it only by TASK_NEXT.     *)
LEMMA AfterKept ==
    ASSUME UNCHANGED <<tasks, aborted, abortedAt>>, After'
    PROVE  After
BY DEF After

LEMMA NotAborted == aborted' # "RECIPE" => Skipped'
BY DEF Skipped, After

LEMMA NotAfter == tasks' = 0 /\ abortedAt' \in Nat => Skipped'
BY DEF Skipped, After

(* A step that keeps the task where it is, and queues nothing a callback   *)
(* waits for.                                                              *)
LEMMA SkippedKept ==
    ASSUME IInv, Skipped, UNCHANGED <<tasks, aborted, abortedAt>>,
           After => /\ task'.state = task.state
                    /\ task'.error <=> task.error,
           \/ UNCHANGED queue
           \/ queue # <<>> /\ queue' = Tail(queue)
           \/ \E m \in Message : /\ m.kind \notin CallbackKinds
                                 /\ queue' = Append(queue, m)
    PROVE  Skipped'
<1> SUFFICES ASSUME After' PROVE Skipped'
    BY DEF Skipped
<1>1. After /\ queue \in Seq(Message)
    BY AfterKept DEF IInv, TypeOK
<1>2. /\ task'.state \in Passing
      /\ task'.state = "TASK_COMPLETED" => task'.error
    BY <1>1 DEF Skipped
<1>3. ASSUME NEW i \in 1 .. Len(queue'), CallbackIn(queue', i)
      PROVE  queue'[i].kind = "Aborted"
  <2>1. CASE UNCHANGED queue
      BY <1>1, <1>3, <2>1 DEF Skipped, CallbackIn
  <2>2. CASE queue # <<>> /\ queue' = Tail(queue)
    <3>1. /\ i + 1 \in 1 .. Len(queue) /\ queue'[i] = queue[i + 1]
          /\ CallbackIn(queue, i + 1)
        BY <1>1, <1>3, <2>2, CallbackMoved
    <3> QED
        BY <1>1, <3>1 DEF Skipped
  <2>3. ASSUME NEW m \in Message, m.kind \notin CallbackKinds,
               queue' = Append(queue, m)
        PROVE  queue'[i].kind = "Aborted"
    <3>1. i \in 1 .. Len(queue) /\ queue'[i] = queue[i] /\ CallbackIn(queue, i)
        BY <1>1, <1>3, <2>3, CallbackKept
    <3> QED
        BY <1>1, <3>1 DEF Skipped
  <2> QED
      BY <2>1, <2>2, <2>3
<1> QED
    BY <1>2, <1>3 DEF Skipped

----------------------------------------------------------------------------
LEMMA RecipeSkips == IInv /\ RInv /\ Skipped /\ RecipeNext => Skipped'
<1> SUFFICES ASSUME IInv, RInv, Skipped, RecipeNext PROVE Skipped'
    OBVIOUS
<1>1. CASE RecipeFetch \/ RecipeFetchRetry \/ RecipeRun \/ RecipeRunning
    BY <1>1, SkippedKept
    DEF RecipeFetch, RecipeFetchRetry, RecipeRun, RecipeRunning, RecipeStep
<1>2. ASSUME NEW ok \in BOOLEAN, RecipeFetchCompleted(ok) PROVE Skipped'
    BY <1>2, SkippedKept DEF RecipeFetchCompleted
<1>3. ASSUME NEW ok \in BOOLEAN, RecipeParse(ok) PROVE Skipped'
  <2>1. tasks = 0 /\ aborted' = aborted
      BY <1>3 DEF IInv, InRecipe, RecipeParse, RecipeStep
  <2> QED
      BY <2>1, NotAborted DEF RInv, AbortCancels
<1>4. CASE RecipeComplete
  <2>1. tasks' = 0 /\ abortedAt' \in Nat
      BY <1>4, RunnerAssumption
      DEF RecipeComplete, RecipeStep, Dies, Forget, IInv, TypeOK
  <2> QED
      BY <2>1, NotAfter
<1> QED
    BY <1>1, <1>2, <1>3, <1>4 DEF RecipeNext

(* A task behind the abort finds the cancellable cancelled in TASK_IDLE,   *)
(* fails in TASK_COMPLETE and is reported "Aborted" in TASK_COMPLETED.     *)
LEMMA TaskSkips == IInv /\ RInv /\ Skipped /\ TaskHandler => Skipped'
<1> SUFFICES ASSUME IInv, RInv, Skipped, TaskHandler, After' PROVE Skipped'
    BY DEF Skipped
<1>1. ASSUME NEW state, TaskStep(state)
      PROVE  /\ tasks \in Tasks /\ task.state = state /\ task \in Task
             /\ NoCallbackIn(queue) /\ queue \in Seq(Message)
             /\ UNCHANGED abortedAt
    BY <1>1, Running DEF TaskStep, IInv, TypeOK
<1>2. ASSUME NEW state, TaskStep(state), SameTask
      PROVE  After /\ state \in Passing /\ cancelled
    BY <1>1, <1>2, AfterKept DEF SameTask, Skipped, After, RInv, AbortCancels
<1>3. ASSUME NEW state, TaskStep(state), UNCHANGED queue,
             task'.state \in Passing,
             task'.state = "TASK_COMPLETED" => task'.error
      PROVE  Skipped'
    BY <1>1, <1>3 DEF Skipped, NoCallbackIn
<1>4. ASSUME NEW readable \in BOOLEAN, TaskIdle(readable) PROVE Skipped'
  <2>1. TaskStep("TASK_IDLE") /\ SameTask
      BY <1>4 DEF TaskIdle
  <2>2. CASE Fail /\ UNCHANGED queue
    <3>1. task'.state = "TASK_COMPLETE"
        BY <1>1, <2>1, <2>2 DEF Fail, Task
    <3> QED
        BY <1>3, <2>1, <2>2, <3>1 DEF Passing
  <2>3. CASE /\ task' = Restored(config[tasks])
             /\ IdleState(config[tasks]) # "TASK_FETCH" => UNCHANGED queue
    <3>1. IdleState(config[tasks]) \in {"TASK_NEXT", "TASK_COMPLETE"}
        BY <1>2, <2>1 DEF IdleState
    <3>2. task'.state = IdleState(config[tasks])
        BY <1>1, <2>1, <2>3 DEF Restored, Task
    <3> QED
        BY <1>3, <2>1, <2>3, <3>1, <3>2 DEF Passing
  <2> QED
      BY <1>4, <2>2, <2>3 DEF TaskIdle
<1>5. CASE TaskFetch \/ TaskMetadataParse \/ TaskRefreshRoles \/ TaskEnv
           \/ TaskWatchdog \/ TaskDependencies \/ TaskRun
  <2>1. \E state \in BeforeEnd : TaskStep(state) /\ SameTask
      BY <1>5
      DEF TaskFetch, TaskMetadataParse, TaskRefreshRoles, TaskEnv,
          TaskWatchdog, TaskDependencies, TaskRun, BeforeEnd
  <2> QED
      BY <1>2, <2>1 DEF BeforeEnd, Passing
<1>6. CASE TaskComplete
  <2>1. TaskStep("TASK_COMPLETE") /\ SameTask /\ UNCHANGED queue
      BY <1>6 DEF TaskComplete
  <2>2. cancelled /\ aborted # "NONE"
      BY <1>2, <2>1 DEF After
  <2>3. task'.state = "TASK_COMPLETED" /\ task'.error
      BY <1>1, <1>6, <2>1, <2>2 DEF TaskComplete, Task
  <2> QED
      BY <1>3, <2>1, <2>3 DEF Passing
<1>7. CASE TaskCompleted
  <2>1. TaskStep("TASK_COMPLETED") /\ StartMessage(Msg(EndStatus))
      BY <1>7 DEF TaskCompleted
  <2>2. After
      BY <1>1, <1>7, <2>1 DEF TaskCompleted, After
  <2>3. EndStatus = "Aborted"
      BY <1>1, <2>1, <2>2 DEF Skipped, EndStatus
  <2>4. /\ queue' = Append(queue, Msg("Aborted")) /\ Msg("Aborted") \in Message
        /\ Msg("Aborted").kind = "Aborted"
      BY <1>1, <2>1, <2>3, MsgTyped
      DEF StartMessage, Enqueue, Msg, CallbackKinds, StatusKinds, Terminal
  <2>5. ASSUME NEW i \in 1 .. Len(queue'), CallbackIn(queue', i)
        PROVE  queue'[i].kind = "Aborted"
      BY <1>1, <2>1, <2>4, <2>5, CallbackLast
  <2>6. task'.state = "TASK_NEXT"
      BY <1>1, <1>7, <2>1 DEF TaskCompleted, Task
  <2> QED
      BY <2>5, <2>6 DEF Skipped, Passing
<1>8. CASE TaskNext
    BY <1>3, <1>8 DEF TaskNext, NewTask, Passing
<1> QED
    BY <1>4, <1>5, <1>6, <1>7, <1>8 DEF TaskHandler

(* Behind the abort only the plugins run.                                  *)
LEMMA OperationSkips == IInv /\ RInv /\ Skipped /\ Operation => Skipped'
<1> SUFFICES ASSUME IInv, RInv, Skipped, Operation, After' PROVE Skipped'
    BY DEF Skipped
<1>1. ASSUME NEW op, Finish(op)
      PROVE  After /\ task.state \in StatesOf(op) /\ task.state \in Passing
    BY <1>1, AfterKept DEF Finish, RInv, SourceState, Skipped
<1>2. CASE PluginsFinish
    BY <1>2, SkippedKept DEF PluginsFinish, Finish
<1>3. CASE ~PluginsFinish
  <2>1. \E op \in {"fetch", "task_fetch_retry", "package", "metadata", "roles",
                   "refresh_role_retry", "dependencies", "task_run"} :
            Finish(op)
      BY <1>3
      DEF Operation, FetchFinish, RolesFinish, PackageFinish, DependencyFinish,
          TaskFetchRetry, RefreshRoleRetry, RolesRejected, MetadataFinish,
          TaskFinish, Attempted, Retried
  <2> QED
      BY <1>1, <2>1 DEF StatesOf, Passing
<1> QED
    BY <1>2, <1>3

LEMMA ReplySkips ==
    IInv /\ RInv /\ Skipped /\ (Accept \/ Refuse \/ LoseReply) => Skipped'
<1> SUFFICES ASSUME IInv, RInv, Skipped, Accept \/ Refuse \/ LoseReply
             PROVE  Skipped'
    OBVIOUS
<1>1. CASE Dies("down")
    BY <1>1, NotAborted DEF Dies, Forget
<1>2. CASE /\ UNCHANGED <<tasks, aborted, abortedAt, task>>
           /\ UNCHANGED queue \/ (queue # <<>> /\ queue' = Tail(queue))
    BY <1>2, SkippedKept
<1> QED
    BY <1>1, <1>2 DEF Accept, Refuse, LoseReply, Answered, Sending

(* A second abort of the recipe does not move the first; one of a task     *)
(* takes its place.                                                        *)
LEMMA RequestSkips == IInv /\ RInv /\ Skipped /\ Requests => Skipped'
<1> SUFFICES ASSUME IInv, RInv, Skipped, Requests PROVE Skipped'
    OBVIOUS
<1>1. CASE Dies("down")
    BY <1>1, NotAborted DEF Dies, Forget
<1>2. tasks # 0 => tasks \in Tasks /\ tasks \in Nat
    BY RunnerAssumption DEF IInv, TypeOK, Tasks
<1>3. ASSUME NEW k \in ForwardKinds, tasks # 0
      PROVE  Msg(k) \in Message /\ Msg(k).kind \notin CallbackKinds
    BY <1>2, <1>3, MsgTyped
    DEF ForwardKinds, CallbackKinds, StatusKinds, Terminal
<1>4. ASSUME UNCHANGED task \/ task' = [task EXCEPT !.results_reported = TRUE]
      PROVE  task'.state = task.state /\ task'.error = task.error
    BY <1>4 DEF IInv, TypeOK, Task
<1>5. CASE AbortRecipe
  <2>1. CASE aborted = "RECIPE"
      BY <1>5, <2>1, SkippedKept DEF AbortRecipe, Served
  <2>2. CASE aborted # "RECIPE"
      BY <1>2, <1>5, <2>2 DEF AbortRecipe, Served, Skipped, After
  <2> QED
      BY <2>1, <2>2
<1>6. CASE AbortTask
    BY <1>6, NotAborted DEF AbortTask
<1>7. CASE Report
    BY <1>3, <1>4, <1>7, SkippedKept
    DEF Report, Served, Enqueue, ForwardKinds
<1>8. CASE Forward
    BY <1>3, <1>4, <1>8, SkippedKept
    DEF Forward, Served, Enqueue, ForwardKinds
<1>9. CASE AdjustWatchdog
    BY <1>1, <1>3, <1>9, SkippedKept
    DEF AdjustWatchdog, Served, Enqueue, ForwardKinds
<1> QED
    BY <1>1, <1>5, <1>6, <1>7, <1>8, <1>9 DEF Requests, RequestWithoutTask

LEMMA SkippedStep == IInv /\ RInv /\ Skipped /\ [Next]_vars => Skipped'
<1> SUFFICES ASSUME IInv, RInv, Skipped, [Next]_vars PROVE Skipped'
    OBVIOUS
<1>1. CASE UNCHANGED vars
    BY <1>1, SkippedKept DEF vars
<1>2. CASE DaemonStep
    BY <1>2, RecipeSkips, TaskSkips, OperationSkips, ReplySkips DEF DaemonStep
<1>3. CASE Refuse \/ LoseReply \/ Requests
    BY <1>3, ReplySkips, RequestSkips
<1>4. CASE Restart
    BY <1>4, NotAborted, Boots DEF Boot, Forget
<1> QED
    BY <1>1, <1>2, <1>3, <1>4 DEF Next

----------------------------------------------------------------------------
(* While the abort of the recipe is recorded, nothing but "Aborted" is     *)
(* said of the tasks that come after the one it met.                       *)
THEOREM AbortReaches == Spec => []AbortReachesLaterTasks
<1>1. Init => Skipped
    BY DEF Init, Skipped, After
<1>2. IInv /\ RInv /\ Skipped => AbortReachesLaterTasks
  <2> SUFFICES ASSUME IInv, RInv, Skipped, aborted = "RECIPE",
                      NEW i \in 1 .. Len(queue), IsCallback(i),
                      queue[i].task > abortedAt
               PROVE  queue[i].kind = "Aborted"
      BY DEF AbortReachesLaterTasks, LaterTasksAborted
  <2>1. CallbackIn(queue, i) /\ queue[i].task = tasks
      BY DEF IsCallback, CallbackIn, RInv, CallbackState
  <2> QED
      BY <2>1 DEF Skipped, After
<1> QED
    BY <1>1, <1>2, SkippedStep, Resumption, PTL DEF Spec

(* The result restraintd derives from an exit code is sent before the end  *)
(* of its task: it is queued while the operation that ended holds the      *)
(* baton, when no end can be in the queue.                                 *)
THEOREM ResultsFirst == Spec => []ResultBeforeEnd
<1>1. Init => ResultBeforeEnd
    BY EmptySeq DEF Init, ResultBeforeEnd
<1>2. ASSUME IInv, ResultBeforeEnd, [Next]_vars PROVE ResultBeforeEnd'
  <2>1. queue \in Seq(Message)
      BY <1>2 DEF IInv, TypeOK
  <2> SUFFICES ASSUME NEW i \in 1 .. Len(queue'), NEW j \in 1 .. Len(queue'),
                      i < j, queue'[i].kind \in Terminal,
                      queue'[j].kind = "result"
               PROVE  queue'[i].task # queue'[j].task
      BY DEF ResultBeforeEnd
  <2>2. CASE UNCHANGED queue
      BY <1>2, <2>2 DEF ResultBeforeEnd
  <2>3. CASE queue' = <<>>
      BY <2>3, EmptySeq
  <2>4. CASE queue # <<>> /\ queue' = Tail(queue)
    <3>1. /\ Len(queue) \in Nat \ {0} /\ Len(queue') = Len(queue) - 1
          /\ \A k \in 1 .. Len(queue') : queue'[k] = queue[k + 1]
        BY <2>1, <2>4, HeadTailProperties, EmptySeq
    <3>2. i + 1 \in 1 .. Len(queue) /\ j + 1 \in 1 .. Len(queue) /\ i + 1 < j + 1
        BY <3>1
    <3> QED
        BY <1>2, <3>1, <3>2 DEF ResultBeforeEnd
  <2>5. ASSUME NEW k \in CallbackKinds \cup {"result"} \cup ForwardKinds,
               tasks \in Tasks, queue' = Append(queue, Msg(k)),
               k = "result" => NoCallbackIn(queue)
        PROVE  queue'[i].task # queue'[j].task
    <3>1. Msg(k) \in Message /\ Msg(k).kind = k
        BY <2>5, MsgTyped DEF Msg
    <3>2. /\ Len(queue) \in Nat /\ Len(queue') = Len(queue) + 1
          /\ queue'[Len(queue) + 1] = Msg(k)
          /\ \A n \in 1 .. Len(queue) : queue'[n] = queue[n]
        BY <2>1, <2>5, <3>1, AppendProperties, LenProperties
    <3>3. i \in 1 .. Len(queue) /\ (j \in 1 .. Len(queue) \/ j = Len(queue) + 1)
        BY <3>2
    <3>4. CASE j \in 1 .. Len(queue)
        BY <1>2, <3>2, <3>3, <3>4 DEF ResultBeforeEnd
    <3>5. CASE j = Len(queue) + 1
      <4>1. NoCallbackIn(queue)
          BY <2>5, <3>1, <3>2, <3>5
      <4> QED
          BY <3>2, <3>3, <4>1
          DEF NoCallbackIn, CallbackIn, CallbackKinds, StatusKinds
    <3> QED
        BY <3>3, <3>4, <3>5
  <2> QED
      BY <1>2, <2>2, <2>3, <2>4, <2>5, QueueSteps
<1> QED
    BY <1>1, <1>2, Inductive, PTL DEF Spec

-----------------------------------------------------------------------------
(***************************************************************************)
(* Part 4.  What the lab controller sees of a recipe: the section of a     *)
(* closed task is gone, a recipe is over only when all its tasks are       *)
(* closed, and, where no section of the config file fails to be read, the  *)
(* statuses are those of RecipeLedger.tla.                                 *)
(*                                                                         *)
(* The controller's record, the config file and the finished tasks read    *)
(* from the recipe XML are three views of one thing, separated by messages *)
(* under way, by lost replies and by reboots.  The invariant says for each *)
(* point of a task how they may differ: not at all before the task begins  *)
(* (KnownClosed), open while it is under way (StillOpen, WasOpened), empty *)
(* in the config file before it is closed at the controller (NoTrace; not  *)
(* under --stdin, where the end is out before the section is removed) and  *)
(* closed before the next one begins (ClosedBefore, QueueTurns).           *)
(***************************************************************************)

Closed(t) == srv[t] \in Terminal \/ t \in refused
Opened(t) == srv[t] # "New" \/ t \in refused

ClosedBefore ==
    tasks # 0 => /\ \A t \in Tasks : t < tasks => Closed(t)
                 /\ task.state = "TASK_NEXT" /\ src # {} => Closed(tasks)

(* What the XML did not say is finished is not closed when it begins.      *)
KnownClosed ==
    /\ \A t \in finished : srv[t] \in Terminal
    /\ tasks # 0 =>
         /\ \A t \in Tasks : t > tasks /\ srv[t] \in Terminal => t \in finished
         /\ task.state = "TASK_IDLE" /\ srv[tasks] \in Terminal
                => tasks \in finished

StillOpen ==
    (/\ tasks # 0
     /\ \/ task.state \in BeforeEnd
        \/ /\ task.state \in {"TASK_COMPLETE", "TASK_COMPLETED"}
           /\ tasks \notin Unreadable)
    => srv[tasks] \notin Terminal

NoTrace ==
    ~stdin =>
        /\ \A t \in Tasks : srv[t] \in Terminal => config[t] = EmptySection
        /\ (tasks # 0 /\ task.state = "TASK_NEXT" /\ src = {})
               => config[tasks] = EmptySection

WasOpened ==
    /\ \A t \in Tasks : config[t].started \/ config[t].localwatchdog
                            => Opened(t)
    /\ tasks # 0 =>
         /\ task.state \in BeforeEnd
                => Opened(tasks) \/ (task.state = "TASK_FETCH" /\ src = {})
         /\ task.state = "TASK_COMPLETE"
                => task.error \/ Opened(tasks) \/ cancelled
         /\ task.state = "TASK_COMPLETED" => task.error \/ Opened(tasks)

(* The end of a task under way to the controller, or already there.        *)
EndPending ==
    \A i \in 1 .. Len(queue) :
        (CallbackIn(queue, i) /\ queue[i].kind \in Terminal) =>
            /\ tasks \notin Unreadable
                   => srv[tasks] \notin Terminal \/ srv[tasks] = queue[i].kind
            /\ queue[i].kind = "Completed" => Opened(tasks)

(* No message is about a task before which another is open.                *)
QueueTurns == \A i \in 1 .. Len(queue) :
                  \A t \in Tasks : t < queue[i].task => Closed(t)

CancelledByAbort ==
    cancelled => aborted # "NONE" \/ rstate = "RECIPE_COMPLETE"

LInv == /\ ClosedBefore /\ KnownClosed /\ StillOpen /\ NoTrace /\ WasOpened
        /\ EndPending /\ QueueTurns /\ CancelledByAbort

All == IInv /\ RInv /\ LInv

----------------------------------------------------------------------------
LEMMA StdinKept == [Next]_vars => UNCHANGED stdin
<1> SUFFICES ASSUME [Next]_vars PROVE UNCHANGED stdin
    OBVIOUS
<1>1. CASE UNCHANGED vars
    BY <1>1 DEF vars
<1>2. CASE RecipeNext
    BY <1>2
    DEF RecipeNext, RecipeFetch, RecipeFetchRetry, RecipeRun, RecipeRunning,
        RecipeComplete, RecipeFetchCompleted, RecipeParse, RecipeStep
<1>3. CASE TaskHandler
    BY <1>3
    DEF TaskHandler, TaskIdle, TaskFetch, TaskMetadataParse, TaskRefreshRoles,
        TaskEnv, TaskWatchdog, TaskDependencies, TaskRun, TaskComplete,
        TaskCompleted, TaskNext, TaskStep
<1>4. CASE Operation
    BY <1>4
    DEF Operation, FetchFinish, RolesFinish, PackageFinish, DependencyFinish,
        TaskFetchRetry, RefreshRoleRetry, RolesRejected, MetadataFinish,
        TaskFinish, PluginsFinish, Attempted, Retried, Finish
<1>5. CASE Accept \/ Refuse \/ LoseReply
    BY <1>5 DEF Accept, Refuse, LoseReply, Answered
<1>6. CASE Requests
    BY <1>6
    DEF Requests, RequestWithoutTask, AbortRecipe, AbortTask, Report, Forward,
        AdjustWatchdog, Request
<1>7. CASE Restart
    BY <1>7, Boots DEF Boot
<1> QED
    BY <1>1, <1>2, <1>3, <1>4, <1>5, <1>6, <1>7 DEF Next, DaemonStep

(* Only an answer changes what the controller records, or an end printed   *)
(* before the machine goes down.                                           *)
LEMMA ServerSteps ==
    ASSUME IInv, [Next]_vars
    PROVE  \/ UNCHANGED <<srv, ewd, refused>>
           \/ Accept \/ Refuse \/ LoseReply
           \/ RebootInTaskCompleted
<1>1. CASE UNCHANGED vars
    BY <1>1 DEF vars
<1>2. CASE RecipeNext
    BY <1>2
    DEF RecipeNext, RecipeFetch, RecipeFetchRetry, RecipeRun, RecipeRunning,
        RecipeComplete, RecipeFetchCompleted, RecipeParse, RecipeStep
<1>3. CASE TaskHandler
    BY <1>3
    DEF TaskHandler, TaskIdle, TaskFetch, TaskMetadataParse, TaskRefreshRoles,
        TaskEnv, TaskWatchdog, TaskDependencies, TaskRun, TaskComplete,
        TaskCompleted, TaskNext, TaskStep
<1>4. CASE Operation
    BY <1>4
    DEF Operation, FetchFinish, RolesFinish, PackageFinish, DependencyFinish,
        TaskFetchRetry, RefreshRoleRetry, RolesRejected, MetadataFinish,
        TaskFinish, PluginsFinish, Attempted, Retried, Finish
<1>5. CASE Requests
    BY <1>5
    DEF Requests, RequestWithoutTask, AbortRecipe, AbortTask, Report, Forward,
        AdjustWatchdog, Request
<1>6. CASE Restart
    BY <1>6, Boots DEF Restart, Reboot, RebootInTaskRun, Boot
<1> QED
    BY <1>1, <1>2, <1>3, <1>4, <1>5, <1>6 DEF Next, DaemonStep

(* The message at the head, whose kind and task the controller sees.       *)
LEMMA OldestIn ==
    ASSUME IInv, queue # <<>>
    PROVE  /\ queue \in Seq(Message) /\ Head(queue) = queue[1]
           /\ 1 \in 1 .. Len(queue) /\ Head(queue) \in Message
           /\ Head(queue).task \in Tasks
<1>1. queue \in Seq(Message)
    BY DEF IInv, TypeOK
<1>2. Len(queue) \in Nat \ {0} /\ Head(queue) = queue[1]
    BY <1>1, HeadTailProperties, EmptySeq
<1>3. 1 \in 1 .. Len(queue)
    BY <1>2
<1>4. queue[1] \in Message
    BY <1>1, <1>3, ElementOfSeq
<1> QED
    BY <1>1, <1>2, <1>3, <1>4 DEF Message

(* A status message is about the current task, and what it says of the     *)
(* task agrees with where the task handler is.                             *)
LEMMA StatusMessage ==
    ASSUME IInv, RInv, queue # <<>>, Head(queue).kind \in StatusKinds
    PROVE  /\ Head(queue).task = tasks /\ tasks \in Tasks /\ tasks # 0
           /\ CallbackIn(queue, 1) /\ src = {} /\ rstate = "RECIPE_RUNNING"
           /\ task.state = IF Head(queue).kind = "Running"
                           THEN "TASK_FETCH" ELSE "TASK_NEXT"
<1>1. CallbackIn(queue, 1)
    BY OldestIn DEF CallbackIn, CallbackKinds
<1>2. Head(queue).task = tasks /\ task.state = StateAfter(Head(queue).kind)
    BY <1>1, OldestIn DEF RInv, CallbackState
<1>3. ~NoCallbackIn(queue)
    BY <1>1, OldestIn DEF NoCallbackIn
<1>4. src = {} /\ rstate = "RECIPE_RUNNING"
    BY <1>3, BatonIn DEF IInv
<1>5. tasks # 0
    BY <1>4 DEF IInv, InRecipe
<1> QED
    BY <1>1, <1>2, <1>4, <1>5, OldestIn DEF StateAfter, StatusKinds, Terminal

(* A task the controller holds closed, or opened, it holds so for ever.    *)
LEMMA RecordsKept ==
    ASSUME IInv, RInv, LInv, [Next]_vars, NEW t \in Tasks
    PROVE  /\ srv[t] \in Terminal => srv'[t] \in Terminal
           /\ Closed(t) => Closed(t)'
           /\ Opened(t) => Opened(t)'
<1>1. CASE UNCHANGED <<srv, ewd, refused>>
    BY <1>1 DEF Closed, Opened
<1>2. CASE Refuse
    BY <1>2 DEF Refuse, Closed, Opened
<1>3. CASE Accept \/ LoseReply
  <2> DEFINE m == Head(queue)
  <2>1. /\ queue # <<>> /\ UNCHANGED refused
        /\ srv' = IF m.kind \in StatusKinds
                  THEN [srv EXCEPT ![m.task] = m.kind] ELSE srv
      BY <1>3 DEF Accept, LoseReply, Sending, ServerApplies
  <2>2. CASE m.kind \in StatusKinds
    <3>1. /\ m.task = tasks /\ tasks \in Tasks /\ tasks # 0
          /\ m.kind = "Running" => task.state = "TASK_FETCH"
        BY <2>1, <2>2, StatusMessage
    <3>2. m.kind \notin Terminal => srv[tasks] \notin Terminal
        BY <2>2, <3>1 DEF LInv, StillOpen, BeforeEnd, StatusKinds
    <3>3. srv'[t] = IF t = tasks THEN m.kind ELSE srv[t]
        BY <2>1, <2>2, <3>1 DEF IInv, TypeOK
    <3>4. m.kind # "New"
        BY <2>2 DEF StatusKinds, Terminal
    <3> QED
        BY <2>1, <3>2, <3>3, <3>4 DEF Closed, Opened
  <2> QED
      BY <2>1, <2>2 DEF Closed, Opened
<1>4. CASE RebootInTaskCompleted
  <2>1. UNCHANGED refused /\ EndStatus \in Terminal /\ EndStatus # "New"
      BY <1>4, EndInterrupted DEF Terminal
  <2>2. srv'[t] = IF t = tasks THEN EndStatus ELSE srv[t]
      BY <1>4, EndInterrupted DEF IInv, TypeOK
  <2> QED
      BY <2>1, <2>2 DEF Closed, Opened
<1> QED
    BY <1>1, <1>2, <1>3, <1>4, ServerSteps

LEMMA TurnsKept ==
    ASSUME IInv, RInv, LInv, [Next]_vars
    PROVE  QueueTurns'
<1>1. queue \in Seq(Message)
    BY DEF IInv, TypeOK
<1>2. \A i \in 1 .. Len(queue) :
          \A t \in Tasks : t < queue[i].task => Closed(t)'
    BY RecordsKept DEF LInv, QueueTurns
<1>3. CASE UNCHANGED queue
    BY <1>2, <1>3 DEF QueueTurns
<1>4. CASE queue' = <<>>
    BY <1>4, EmptySeq DEF QueueTurns
<1>5. CASE queue # <<>> /\ queue' = Tail(queue)
  <2>1. ASSUME NEW i \in 1 .. Len(queue')
        PROVE  i + 1 \in 1 .. Len(queue) /\ queue'[i] = queue[i + 1]
    <3>1. /\ Len(queue) \in Nat \ {0} /\ Len(queue') = Len(queue) - 1
          /\ \A j \in 1 .. Len(queue') : queue'[j] = queue[j + 1]
        BY <1>1, <1>5, HeadTailProperties, EmptySeq
    <3> QED
        BY <2>1, <3>1
  <2> QED
      BY <1>2, <2>1 DEF QueueTurns
<1>6. ASSUME NEW k \in CallbackKinds \cup {"result"} \cup ForwardKinds,
             tasks \in Tasks, queue' = Append(queue, Msg(k))
      PROVE  QueueTurns'
  <2>1. Msg(k) \in Message /\ Msg(k).task = tasks
      BY <1>6, MsgTyped DEF Msg
  <2>2. ASSUME NEW i \in 1 .. Len(queue')
        PROVE  \/ i \in 1 .. Len(queue) /\ queue'[i] = queue[i]
               \/ queue'[i] = Msg(k)
    <3>1. /\ Len(queue) \in Nat /\ Len(queue') = Len(queue) + 1
          /\ queue'[Len(queue) + 1] = Msg(k)
          /\ \A j \in 1 .. Len(queue) : queue'[j] = queue[j]
        BY <1>1, <1>6, <2>1, AppendProperties, LenProperties
    <3>2. i \in 1 .. Len(queue) \/ i = Len(queue) + 1
        BY <2>2, <3>1
    <3> QED
        BY <3>1, <3>2
  <2>3. \A t \in Tasks : t < tasks => Closed(t)'
    <3>1. tasks # 0
        BY <1>6, RunnerAssumption DEF Tasks
    <3> QED
        BY <3>1, RecordsKept DEF LInv, ClosedBefore
  <2> QED
      BY <1>2, <2>1, <2>2, <2>3 DEF QueueTurns
<1> QED
    BY <1>3, <1>4, <1>5, <1>6, QueueSteps

----------------------------------------------------------------------------
LEMMA NothingEnding == NoCallbackIn(queue') => EndPending'
BY DEF NoCallbackIn, EndPending, CallbackIn

(* What the invariant says of the current task alone is void without one.  *)
LEMMA NoTaskLedger ==
    ASSUME tasks' = 0, NoCallbackIn(queue'), CancelledByAbort',
           \A t \in finished' : srv'[t] \in Terminal,
           \A t \in Tasks : ~stdin' /\ srv'[t] \in Terminal
                               => config'[t] = EmptySection,
           \A t \in Tasks : config'[t].started \/ config'[t].localwatchdog
                                => Opened(t)'
    PROVE  /\ ClosedBefore' /\ KnownClosed' /\ StillOpen' /\ NoTrace'
           /\ WasOpened' /\ EndPending' /\ CancelledByAbort'
BY NothingEnding
DEF ClosedBefore, KnownClosed, StillOpen, NoTrace, WasOpened

LEMMA ForgetLedger ==
    ASSUME Forget,
           \A t \in Tasks : ~stdin' /\ srv'[t] \in Terminal
                               => config'[t] = EmptySection,
           \A t \in Tasks : config'[t].started \/ config'[t].localwatchdog
                                => Opened(t)'
    PROVE  /\ ClosedBefore' /\ KnownClosed' /\ StillOpen' /\ NoTrace'
           /\ WasOpened' /\ EndPending' /\ CancelledByAbort'
<1>1. finished' = {} /\ tasks' = 0 /\ cancelled' = FALSE
    BY DEF Forget
<1>2. NoCallbackIn(queue')
    BY ForgetIdle, CallbacksInQueue
<1>3. CancelledByAbort'
    BY <1>1 DEF CancelledByAbort
<1> QED
    BY <1>1, <1>2, <1>3, NoTaskLedger

Ledgers == /\ ClosedBefore /\ KnownClosed /\ StillOpen /\ NoTrace
           /\ WasOpened /\ EndPending /\ CancelledByAbort

(* The recipe handler: the XML says which tasks the controller has closed. *)
LEMMA RecipeLedgers == All /\ RecipeNext => Ledgers'
<1> SUFFICES ASSUME All, RecipeNext PROVE Ledgers'
    OBVIOUS
<1>0. stdin' = stdin
    BY StdinKept DEF Next, DaemonStep
<1> USE <1>0
<1> USE DEF All
<1>1. UNCHANGED <<srv, refused, config>>
    BY DEF RecipeNext, RecipeFetch, RecipeFetchRetry, RecipeRun, RecipeRunning,
           RecipeComplete, RecipeFetchCompleted, RecipeParse, RecipeStep
<1>2. /\ rstate # "RECIPE_RUNNING" => src = {} /\ NoCallbackIn(queue)
      /\ rstate \notin {"RECIPE_RUN", "RECIPE_RUNNING"} => tasks = 0
    BY BatonIn DEF IInv, InRecipe
<1>3. /\ \A t \in finished : srv'[t] \in Terminal
      /\ \A t \in Tasks : ~stdin' /\ srv'[t] \in Terminal
                               => config'[t] = EmptySection
      /\ \A t \in Tasks : config'[t].started \/ config'[t].localwatchdog
                               => Opened(t)'
    BY <1>1 DEF LInv, KnownClosed, NoTrace, WasOpened, Opened
<1>4. ASSUME UNCHANGED <<tasks, finished, task, src, queue, cancelled, aborted>>,
             rstate = "RECIPE_COMPLETE" => rstate' = "RECIPE_COMPLETE"
      PROVE  Ledgers'
  <2>1. ClosedBefore' /\ KnownClosed' /\ StillOpen' /\ NoTrace'
      BY <1>1, <1>4
      DEF LInv, ClosedBefore, KnownClosed, StillOpen, NoTrace, Closed
  <2>2. WasOpened' /\ EndPending' /\ CancelledByAbort'
      BY <1>1, <1>4
      DEF LInv, WasOpened, EndPending, CancelledByAbort, Opened, CallbackIn
  <2> QED
      BY <2>1, <2>2 DEF Ledgers
<1>5. CASE RecipeFetch \/ RecipeFetchRetry \/ RecipeRunning
    BY <1>4, <1>5
    DEF RecipeFetch, RecipeFetchRetry, RecipeRunning, RecipeStep, IInv, Fetching
<1>6. ASSUME NEW ok \in BOOLEAN, RecipeFetchCompleted(ok) PROVE Ledgers'
    BY <1>4, <1>6 DEF RecipeFetchCompleted, IInv, Fetching
<1>7. CASE RecipeRun
  <2>1. /\ task.state = "TASK_IDLE" /\ NoCallbackIn(queue')
        /\ src' = {"task_handler"} /\ rstate' = "RECIPE_RUNNING"
        /\ rstate = "RECIPE_RUN"
        /\ UNCHANGED <<tasks, finished, task, cancelled, aborted>>
      BY <1>2, <1>7 DEF RecipeRun, RInv, Fresh
  <2>2. ClosedBefore' /\ KnownClosed' /\ StillOpen' /\ NoTrace'
      BY <1>1, <2>1
      DEF LInv, ClosedBefore, KnownClosed, StillOpen, NoTrace, Closed, BeforeEnd
  <2>3. WasOpened' /\ CancelledByAbort'
      BY <1>3, <2>1 DEF LInv, WasOpened, CancelledByAbort, BeforeEnd
  <2> QED
      BY <2>1, <2>2, <2>3, NothingEnding DEF Ledgers
<1>8. ASSUME NEW ok \in BOOLEAN, RecipeParse(ok) PROVE Ledgers'
  <2>1. /\ NoCallbackIn(queue') /\ rstate = "RECIPE_PARSE" /\ tasks = 0
        /\ UNCHANGED <<cancelled, aborted>>
      BY <1>2, <1>8 DEF RecipeParse, RecipeStep
  <2>2. CancelledByAbort'
      BY <2>1 DEF LInv, CancelledByAbort
  <2>3. CASE tasks' = 0 /\ UNCHANGED finished
      BY <1>3, <2>1, <2>2, <2>3, NoTaskLedger DEF Ledgers
  <2>4. CASE tasks' = 1 /\ task'.state = "TASK_IDLE" /\ finished' = FinishedInXml
    <3>1. /\ \A t \in Tasks : ~(t < 1)
          /\ 1 \in Tasks
        BY RunnerAssumption DEF Tasks
    <3>2. \A t \in Tasks : t \in finished' <=> srv'[t] \in Terminal
        BY <1>1, <2>4 DEF FinishedInXml
    <3>3. finished' \subseteq Tasks
        BY <2>4 DEF FinishedInXml
    <3>4. ClosedBefore' /\ KnownClosed' /\ StillOpen' /\ NoTrace' /\ WasOpened'
        BY <1>3, <2>4, <3>1, <3>2, <3>3
        DEF ClosedBefore, KnownClosed, StillOpen, NoTrace, WasOpened, BeforeEnd
    <3> QED
        BY <2>1, <2>2, <3>4, NothingEnding DEF Ledgers
  <2> QED
      BY <1>8, <2>1, <2>3, <2>4 DEF RecipeParse, NewTask
<1>9. CASE RecipeComplete
  <2>1. CASE tasks' = 0 /\ cancelled' = FALSE /\ RecipeStep("RECIPE_COMPLETE")
             /\ UNCHANGED finished
    <3>1. CancelledByAbort' /\ NoCallbackIn(queue')
        BY <1>2, <2>1 DEF CancelledByAbort, RecipeStep
    <3> QED
        BY <1>3, <2>1, <3>1, NoTaskLedger DEF Ledgers
  <2>2. CASE Dies("exited")
      BY <1>3, <2>2, ForgetLedger DEF Dies, Ledgers
  <2> QED
      BY <1>9, <2>1, <2>2 DEF RecipeComplete
<1> QED
    BY <1>5, <1>6, <1>7, <1>8, <1>9 DEF RecipeNext

----------------------------------------------------------------------------
(* The end of a task is put under way while the task is open, and as       *)
(* "Completed" only when it was opened.                                    *)
LEMMA EndQueued ==
    ASSUME IInv, tasks \in Tasks, NoCallbackIn(queue), UNCHANGED tasks,
           NEW k \in CallbackKinds, StartMessage(Msg(k)),
           k \in Terminal =>
               /\ tasks \notin Unreadable => srv'[tasks] \notin Terminal
               /\ k = "Completed" => Opened(tasks)'
    PROVE  EndPending'
<1>1. /\ queue \in Seq(Message) /\ queue' = Append(queue, Msg(k))
      /\ Msg(k) \in Message /\ Msg(k).kind = k
    BY MsgTyped DEF StartMessage, Enqueue, IInv, TypeOK
<1>2. ASSUME NEW i \in 1 .. Len(queue'), CallbackIn(queue', i)
      PROVE  queue'[i].kind = k
  <2>1. queue'[i] = Msg(k)
      BY <1>1, <1>2, CallbackLast
  <2> QED
      BY <1>1, <2>1
<1> QED
    BY <1>2 DEF EndPending, Opened

(* Each state of the task handler.                                         *)
LEMMA TaskLedgers == All /\ TaskHandler => Ledgers'
<1> SUFFICES ASSUME All, TaskHandler PROVE Ledgers'
    OBVIOUS
<1>0. stdin' = stdin
    BY StdinKept DEF Next, DaemonStep
<1> USE <1>0
<1> USE DEF All
<1>1. ASSUME NEW state, TaskStep(state)
      PROVE  /\ rstate = "RECIPE_RUNNING" /\ tasks \in Tasks
             /\ tasks # 0 /\ task.state = state
             /\ src = {"task_handler"} /\ NoCallbackIn(queue)
             /\ task \in Task /\ config[tasks] \in Section
             /\ UNCHANGED <<srv, refused, finished>>
    BY <1>1, Running DEF TaskStep, IInv, TypeOK, InRecipe
<1>2. ASSUME NEW state, TaskStep(state)
      PROVE  /\ \A t \in Tasks : Closed(t)' <=> Closed(t)
             /\ \A t \in Tasks : Opened(t)' <=> Opened(t)
             /\ \A t \in finished' : srv'[t] \in Terminal
    BY <1>1, <1>2 DEF Closed, Opened, LInv, KnownClosed
<1>3. ASSUME NEW state, TaskStep(state), SameTask PROVE CancelledByAbort'
    BY <1>3 DEF SameTask, LInv, CancelledByAbort
<1>4. ASSUME NEW state, TaskStep(state), UNCHANGED tasks,
             task'.state \notin {"TASK_IDLE", "TASK_NEXT"}
      PROVE  ClosedBefore' /\ KnownClosed'
    BY <1>1, <1>2, <1>4 DEF LInv, ClosedBefore, KnownClosed
<1>5. ASSUME NEW state, TaskStep(state), UNCHANGED queue PROVE EndPending'
    BY <1>1, <1>5, NothingEnding
<1>6. ASSUME NEW state, TaskStep(state), UNCHANGED tasks,
             NEW k \in {"Running", "watchdog"}, StartMessage(Msg(k))
      PROVE  EndPending'
    BY <1>1, <1>6, EndQueued DEF CallbackKinds, StatusKinds, Terminal
<1>7. ASSUME NEW readable \in BOOLEAN, TaskIdle(readable) PROVE Ledgers'
  <2> DEFINE c == config[tasks]
  <2>1. /\ TaskStep("TASK_IDLE") /\ SameTask /\ UNCHANGED <<config, tasks>>
        /\ UNCHANGED <<cancelled, srv, refused, finished>>
      BY <1>1, <1>7 DEF TaskIdle, SameTask
  <2>2. /\ \A t \in Tasks : ~stdin' /\ srv'[t] \in Terminal
                               => config'[t] = EmptySection
        /\ \A t \in Tasks : config'[t].started \/ config'[t].localwatchdog
                                => Opened(t)'
      BY <1>2, <2>1 DEF LInv, NoTrace, WasOpened
  <2>3. srv[tasks] \in Terminal => tasks \in finished
      BY <1>1, <2>1 DEF LInv, KnownClosed
  <2>4. CASE /\ tasks \in Unreadable /\ Fail /\ UNCHANGED <<src, queue>>
    <3>1. task'.state = "TASK_COMPLETE" /\ task'.error = TRUE
        BY <1>1, <2>1, <2>4 DEF Fail, Task
    <3>2. StillOpen' /\ NoTrace' /\ WasOpened'
        BY <2>1, <2>2, <2>4, <3>1 DEF StillOpen, NoTrace, WasOpened, BeforeEnd
    <3> QED
        BY <1>3, <1>4, <1>5, <2>1, <2>4, <3>1, <3>2 DEF Ledgers
  <2>5. CASE /\ task' = Restored(c)
             /\ IF IdleState(c) = "TASK_FETCH"
                THEN StartMessage(Msg("Running"))
                ELSE UNCHANGED <<src, queue>>
    <3>1. task'.state = IdleState(c)
        BY <1>1, <2>1, <2>5 DEF Restored, Task
    <3>2. EndPending'
        BY <1>5, <1>6, <2>1, <2>5
    <3>3. /\ IdleState(c) = "TASK_FETCH" => src' = {}
          /\ IdleState(c) # "TASK_FETCH" => src' = {"task_handler"}
        BY <1>1, <2>1, <2>5 DEF StartMessage
    <3>4. CASE tasks \in finished
      <4>1. task'.state = "TASK_NEXT" /\ src' = {"task_handler"}
          BY <3>1, <3>3, <3>4 DEF IdleState
      <4>2. Closed(tasks)
          BY <3>4 DEF LInv, KnownClosed, Closed
      <4>3. ClosedBefore' /\ KnownClosed'
          BY <1>1, <1>2, <2>1, <4>1, <4>2 DEF LInv, ClosedBefore, KnownClosed
      <4>4. StillOpen' /\ NoTrace' /\ WasOpened'
          BY <2>2, <4>1 DEF StillOpen, NoTrace, WasOpened, BeforeEnd
      <4> QED
          BY <1>3, <2>1, <3>2, <4>3, <4>4 DEF Ledgers
    <3>5. CASE tasks \notin finished
      <4>1. task'.state \in {"TASK_COMPLETE", "TASK_METADATA_PARSE",
                             "TASK_FETCH"}
          BY <3>1, <3>5 DEF IdleState
      <4>2. StillOpen' /\ NoTrace'
          BY <2>1, <2>2, <2>3, <3>5, <4>1 DEF StillOpen, NoTrace
      <4>3. WasOpened'
        <5>1. CASE task'.state = "TASK_COMPLETE"
          <6>1. cancelled \/ c.localwatchdog
              BY <3>1, <3>5, <5>1 DEF IdleState
          <6>2. cancelled' \/ Opened(tasks)'
              BY <1>1, <2>1, <2>2, <6>1
          <6> QED
              BY <2>1, <2>2, <5>1, <6>2 DEF WasOpened, BeforeEnd
        <5>2. CASE task'.state = "TASK_METADATA_PARSE"
          <6>1. c.started
              BY <3>1, <3>5, <5>2 DEF IdleState
          <6>2. Opened(tasks)'
              BY <1>1, <2>1, <2>2, <6>1
          <6> QED
              BY <2>1, <2>2, <5>2, <6>2 DEF WasOpened, BeforeEnd
        <5>3. CASE task'.state = "TASK_FETCH"
            BY <2>2, <3>1, <3>3, <5>3 DEF WasOpened
        <5> QED
            BY <4>1, <5>1, <5>2, <5>3
      <4> QED
          BY <1>3, <1>4, <2>1, <3>2, <4>1, <4>2, <4>3 DEF Ledgers
    <3> QED
        BY <3>4, <3>5
  <2> QED
      BY <1>7, <2>4, <2>5 DEF TaskIdle
<1>8. ASSUME NEW state, TaskStep(state), SameTask, state \in BeforeEnd,
             task'.state \in BeforeEnd, EndPending',
             \/ UNCHANGED config
             \/ task.state = "TASK_RUN" /\ config' = Written(2)
      PROVE  Ledgers'
  <2>1. /\ UNCHANGED tasks /\ Opened(tasks) /\ srv[tasks] \notin Terminal
      BY <1>1, <1>8 DEF SameTask, LInv, WasOpened, StillOpen
  <2>2. \A t \in Tasks : t # tasks => config'[t] = config[t]
    <3>1. CASE UNCHANGED config
        BY <3>1
    <3>2. CASE config' = Written(2)
        BY <1>1, <1>8, <3>2, WrittenSection DEF IInv
    <3> QED
        BY <1>8, <3>1, <3>2
  <2>3. StillOpen'
      BY <1>1, <1>8, <2>1 DEF StillOpen
  <2>4. NoTrace'
      BY <1>1, <1>8, <2>1, <2>2 DEF LInv, NoTrace, BeforeEnd
  <2>5. WasOpened'
      BY <1>1, <1>2, <1>8, <2>1, <2>2 DEF LInv, WasOpened, BeforeEnd
  <2>6. task'.state \notin {"TASK_IDLE", "TASK_NEXT"}
      BY <1>8 DEF BeforeEnd
  <2> QED
      BY <1>3, <1>4, <1>8, <2>1, <2>3, <2>4, <2>5, <2>6 DEF Ledgers
<1>9. CASE TaskFetch \/ TaskMetadataParse
    BY <1>1, <1>5, <1>8, <1>9 DEF TaskFetch, TaskMetadataParse, BeforeEnd
<1>10. CASE TaskRefreshRoles
  <2>1. TaskStep("TASK_REFRESH_ROLES") /\ SameTask /\ UNCHANGED <<queue, config>>
      BY <1>10 DEF TaskRefreshRoles, Continue
  <2>2. task'.state \in {"TASK_REFRESH_ROLES", "TASK_ENV"}
      BY <1>1, <1>10, <2>1 DEF TaskRefreshRoles, Continue, Goto, Task
  <2> QED
      BY <1>5, <1>8, <2>1, <2>2 DEF BeforeEnd
<1>11. CASE TaskEnv
  <2>1. TaskStep("TASK_ENV") /\ SameTask /\ UNCHANGED <<queue, config>>
      BY <1>11 DEF TaskEnv
  <2>2. task'.state = "TASK_WATCHDOG"
      BY <1>1, <1>11, <2>1 DEF TaskEnv, Task
  <2> QED
      BY <1>5, <1>8, <2>1, <2>2 DEF BeforeEnd
<1>12. CASE TaskWatchdog
  <2>1. TaskStep("TASK_WATCHDOG") /\ SameTask /\ UNCHANGED <<tasks, config>>
      BY <1>12 DEF TaskWatchdog, SameTask
  <2>2. task'.state = "TASK_DEPENDENCIES"
      BY <1>1, <1>12, <2>1 DEF TaskWatchdog, Goto, Task
  <2>3. EndPending'
      BY <1>5, <1>6, <1>12, <2>1 DEF TaskWatchdog
  <2> QED
      BY <1>8, <2>1, <2>2, <2>3 DEF BeforeEnd
<1>13. CASE TaskDependencies
  <2>1. TaskStep("TASK_DEPENDENCIES") /\ SameTask /\ UNCHANGED <<queue, config>>
      BY <1>13 DEF TaskDependencies
  <2>2. task'.state = "TASK_RUN"
      BY <1>1, <1>13, <2>1 DEF TaskDependencies, Goto, Task
  <2> QED
      BY <1>5, <1>8, <2>1, <2>2 DEF BeforeEnd
<1>14. CASE TaskRun
  <2>1. TaskStep("TASK_RUN") /\ SameTask /\ UNCHANGED queue
      BY <1>14 DEF TaskRun, Continue
  <2>2. CASE MayRun
    <3>1. task'.state = "TASK_RUN" /\ config' = Written(2)
        BY <1>1, <1>14, <2>1, <2>2 DEF TaskRun, Task
    <3> QED
        BY <1>1, <1>5, <1>8, <2>1, <3>1 DEF BeforeEnd
  <2>3. CASE ~MayRun
    <3>1. /\ task'.state = "TASK_COMPLETE" /\ UNCHANGED <<config, tasks>>
        BY <1>1, <1>14, <2>1, <2>3 DEF TaskRun, Continue, Goto, Task, SameTask
    <3>2. Opened(tasks) /\ srv[tasks] \notin Terminal
        BY <1>1, <2>1 DEF LInv, WasOpened, StillOpen, BeforeEnd
    <3>3. StillOpen' /\ NoTrace'
        BY <1>1, <2>1, <3>1, <3>2 DEF LInv, StillOpen, NoTrace
    <3>4. WasOpened'
        BY <1>1, <1>2, <2>1, <3>1, <3>2 DEF LInv, WasOpened, BeforeEnd
    <3> QED
        BY <1>3, <1>4, <1>5, <2>1, <3>1, <3>3, <3>4 DEF Ledgers
  <2> QED
      BY <2>2, <2>3
<1>15. CASE TaskComplete
  <2>1. /\ TaskStep("TASK_COMPLETE") /\ SameTask
        /\ UNCHANGED <<queue, config, tasks>>
      BY <1>15 DEF TaskComplete, SameTask
  <2>2. /\ task'.state = "TASK_COMPLETED"
        /\ task'.error = (task.error \/ (cancelled /\ aborted # "NONE"))
      BY <1>1, <1>15, <2>1 DEF TaskComplete, Task
  <2>3. StillOpen' /\ NoTrace'
      BY <1>1, <2>1, <2>2 DEF LInv, StillOpen, NoTrace, BeforeEnd
  <2>4. task'.error \/ Opened(tasks)
    <3>1. cancelled => aborted # "NONE"
        BY <1>1, <2>1 DEF LInv, CancelledByAbort
    <3>2. task.error \/ Opened(tasks) \/ cancelled
        BY <1>1, <2>1 DEF LInv, WasOpened
    <3> QED
        BY <2>2, <3>1, <3>2
  <2>5. WasOpened'
      BY <1>1, <1>2, <2>1, <2>2, <2>4 DEF LInv, WasOpened, BeforeEnd
  <2>6. ClosedBefore' /\ KnownClosed' /\ EndPending' /\ CancelledByAbort'
      BY <1>3, <1>4, <1>5, <2>1, <2>2
  <2> QED
      BY <2>3, <2>5, <2>6 DEF Ledgers
<1>16. CASE TaskCompleted
  <2>1. /\ TaskStep("TASK_COMPLETED") /\ UNCHANGED <<tasks, rstate>>
        /\ StartMessage(Msg(EndStatus)) /\ ClearSection
        /\ task'.state = "TASK_NEXT" /\ src' = {}
      BY <1>1, <1>16 DEF TaskCompleted, Task, StartMessage
  <2>2. /\ config'[tasks] = EmptySection
        /\ \A t \in Tasks : t # tasks => config'[t] = config[t]
      BY <1>1, <2>1 DEF ClearSection, IInv, TypeOK
  <2>3. /\ EndStatus \in CallbackKinds
        /\ EndStatus = "Completed" => ~task.error
      BY DEF EndStatus, CallbackKinds, StatusKinds, Terminal
  <2>4. /\ tasks \notin Unreadable => srv[tasks] \notin Terminal
        /\ task.error \/ Opened(tasks)
      BY <1>1, <2>1 DEF LInv, StillOpen, WasOpened
  <2>5. EndPending'
      BY <1>1, <1>2, <2>1, <2>3, <2>4, EndQueued
  <2>6. ClosedBefore' /\ KnownClosed' /\ StillOpen'
      BY <1>1, <1>2, <2>1
      DEF LInv, ClosedBefore, KnownClosed, StillOpen, BeforeEnd
  <2>7. NoTrace' /\ WasOpened'
      BY <1>1, <1>2, <2>1, <2>2
      DEF LInv, NoTrace, WasOpened, BeforeEnd, EmptySection
  <2>8. CancelledByAbort'
      BY <1>16, <2>1 DEF TaskCompleted, LInv, CancelledByAbort
  <2> QED
      BY <2>5, <2>6, <2>7, <2>8 DEF Ledgers
<1>17. CASE TaskNext
  <2>1. /\ TaskStep("TASK_NEXT") /\ task' = NewTask
        /\ UNCHANGED <<cancelled, queue, config>> /\ NoCallbackIn(queue')
        /\ task'.state = "TASK_IDLE"
      BY <1>1, <1>17 DEF TaskNext, NewTask
  <2>2. \A t \in Tasks : t <= tasks => Closed(t)'
    <3>1. \A t \in Tasks : t <= tasks => t < tasks \/ t = tasks
        BY <1>1, <2>1 DEF Tasks
    <3> QED
        BY <1>1, <1>2, <2>1, <3>1 DEF LInv, ClosedBefore
  <2>3. CASE HasNext
    <3>1. /\ tasks' = tasks + 1 /\ tasks' # 0 /\ tasks' \in Tasks
          /\ tasks' > tasks /\ UNCHANGED <<aborted, rstate>>
          /\ \A t \in Tasks : /\ t < tasks' => t <= tasks
                              /\ t > tasks' => t > tasks
        BY <1>1, <1>17, <2>1, <2>3, RunnerAssumption DEF TaskNext, HasNext, Tasks
    <3>2. ClosedBefore' /\ KnownClosed'
        BY <1>1, <1>2, <2>1, <2>2, <3>1 DEF LInv, ClosedBefore, KnownClosed
    <3>3. StillOpen' /\ NoTrace' /\ WasOpened' /\ CancelledByAbort'
        BY <1>1, <1>2, <2>1, <3>1
        DEF LInv, StillOpen, NoTrace, WasOpened, CancelledByAbort, BeforeEnd
    <3> QED
        BY <2>1, <3>2, <3>3, NothingEnding DEF Ledgers
  <2>4. CASE ~HasNext
    <3>1. tasks' = 0 /\ rstate' = "RECIPE_COMPLETE"
        BY <1>17, <2>4 DEF TaskNext
    <3>2. CancelledByAbort'
        BY <3>1 DEF CancelledByAbort
    <3>3. /\ \A t \in Tasks : ~stdin' /\ srv'[t] \in Terminal
                               => config'[t] = EmptySection
          /\ \A t \in Tasks : config'[t].started \/ config'[t].localwatchdog
                                => Opened(t)'
        BY <1>1, <1>2, <2>1 DEF LInv, NoTrace, WasOpened
    <3> QED
        BY <1>2, <2>1, <3>1, <3>2, <3>3, NoTaskLedger DEF Ledgers
  <2> QED
      BY <2>3, <2>4
<1> QED
    BY <1>7, <1>9, <1>10, <1>11, <1>12, <1>13, <1>14, <1>15, <1>16, <1>17
    DEF TaskHandler

----------------------------------------------------------------------------
(* Operations run while the task is open and was opened.                   *)
LEMMA OperationLedgers == All /\ Operation => Ledgers'
<1> SUFFICES ASSUME All, Operation PROVE Ledgers'
    OBVIOUS
<1>0. stdin' = stdin
    BY StdinKept DEF Next, DaemonStep
<1> USE <1>0
<1> USE DEF All
<1>1. PICK op : Finish(op)
    BY DEF Operation, FetchFinish, RolesFinish, PackageFinish,
           DependencyFinish, TaskFetchRetry, RefreshRoleRetry, RolesRejected,
           MetadataFinish, TaskFinish, PluginsFinish, Attempted, Retried
<1>2. /\ tasks \in Tasks /\ tasks # 0 /\ src = {op} /\ task \in Task
      /\ config[tasks] \in Section
      /\ UNCHANGED <<tasks, finished, srv, refused, cancelled, aborted, rstate>>
    BY <1>1, Running DEF Finish, IInv, TypeOK, InRecipe
<1>3. /\ \A t \in Tasks : Closed(t)' <=> Closed(t)
      /\ \A t \in Tasks : Opened(t)' <=> Opened(t)
    BY <1>2 DEF Closed, Opened
<1>4. IInv' /\ CancelledByAbort'
    BY <1>2, IInvStep DEF Next, DaemonStep, LInv, CancelledByAbort
<1>5. src' # {} => EndPending'
    BY <1>4, NothingEnding, BatonIn DEF IInv
<1>6. ASSUME src' # {}, task'.state \in BeforeEnd \cup {"TASK_COMPLETE"},
             task.state \in BeforeEnd,
             \A t \in Tasks : t # tasks => config'[t] = config[t]
      PROVE  Ledgers'
  <2>1. srv[tasks] \notin Terminal /\ Opened(tasks)
      BY <1>2, <1>6 DEF LInv, StillOpen, WasOpened
  <2>2. ClosedBefore' /\ KnownClosed' /\ StillOpen'
      BY <1>2, <1>3, <1>6, <2>1
      DEF LInv, ClosedBefore, KnownClosed, StillOpen, BeforeEnd
  <2>3. NoTrace' /\ WasOpened'
      BY <1>2, <1>3, <1>6, <2>1 DEF LInv, NoTrace, WasOpened, BeforeEnd
  <2> QED
      BY <1>4, <1>5, <1>6, <2>2, <2>3 DEF Ledgers
<1>7. task.state \in StatesOf(op)
    BY <1>2 DEF RInv, SourceState
<1>8. ASSUME NEW o, NEW next, Finish(o), Becomes(o, next)
      PROVE  o = op /\ src' = {next}
    BY <1>2, <1>8 DEF Finish, Becomes
<1>9. ASSUME NEW next, Goto(next) PROVE task'.state = next
    BY <1>2, <1>9 DEF Goto, Task
<1>10. Fail => task'.state = "TASK_COMPLETE"
    BY <1>2 DEF Fail, Task
<1>11. ASSUME NEW o, NEW retry, NEW n, NEW ok, NEW next \in BeforeEnd,
              Attempted(o, retry, n, ok, next),
              StatesOf(o) \subseteq BeforeEnd
       PROVE  Ledgers'
  <2>1. o = op /\ src' # {} /\ UNCHANGED config
      BY <1>8, <1>11 DEF Attempted
  <2>2. task.state \in BeforeEnd
      BY <1>7, <1>11, <2>1
  <2>3. task'.state \in BeforeEnd \cup {"TASK_COMPLETE"}
      BY <1>9, <1>10, <1>11, <2>2 DEF Attempted
  <2> QED
      BY <1>6, <2>1, <2>2, <2>3
<1>12. \A o \in {"fetch", "task_fetch_retry", "package", "metadata", "roles",
                 "refresh_role_retry", "dependencies", "task_run"} :
           StatesOf(o) \subseteq BeforeEnd
    BY DEF StatesOf, BeforeEnd
<1>13. ASSUME NEW ok \in BOOLEAN, FetchFinish(ok) \/ RolesFinish(ok)
       PROVE  Ledgers'
    BY <1>11, <1>12, <1>13 DEF FetchFinish, RolesFinish, BeforeEnd
<1>14. ASSUME NEW ok \in BOOLEAN, PackageFinish(ok) \/ DependencyFinish(ok)
       PROVE  Ledgers'
  <2>1. op \in {"package", "dependencies"} /\ src' # {} /\ UNCHANGED config
      BY <1>8, <1>14 DEF PackageFinish, DependencyFinish
  <2>2. task'.state \in BeforeEnd \cup {"TASK_COMPLETE"}
      BY <1>9, <1>10, <1>14 DEF PackageFinish, DependencyFinish, BeforeEnd
  <2> QED
      BY <1>6, <1>7, <1>12, <2>1, <2>2
<1>15. CASE TaskFetchRetry \/ RefreshRoleRetry \/ RolesRejected
  <2>1. op \in {"task_fetch_retry", "refresh_role_retry", "roles"} /\ src' # {}
        /\ UNCHANGED config
      BY <1>8, <1>15 DEF TaskFetchRetry, RefreshRoleRetry, RolesRejected, Retried
  <2>2. task'.state \in BeforeEnd \cup {"TASK_COMPLETE"}
      BY <1>9, <1>10, <1>15
      DEF TaskFetchRetry, RefreshRoleRetry, RolesRejected, Retried, BeforeEnd
  <2> QED
      BY <1>6, <1>7, <1>12, <2>1, <2>2
<1>16. CASE MetadataFinish
  <2>1. op = "metadata" /\ src' # {} /\ UNCHANGED config
      BY <1>8, <1>16 DEF MetadataFinish
  <2>2. task'.state \in BeforeEnd \cup {"TASK_COMPLETE"}
      BY <1>2, <1>9, <1>10, <1>16 DEF MetadataFinish, BeforeEnd, Task
  <2> QED
      BY <1>6, <1>7, <1>12, <2>1, <2>2
<1>17. ASSUME NEW exit, TaskFinish(exit) PROVE Ledgers'
  <2>1. op = "task_run" /\ src' # {}
      BY <1>8, <1>17 DEF TaskFinish
  <2>2. task'.state = "TASK_COMPLETE"
      BY <1>2, <1>17 DEF TaskFinish, Task
  <2>3. \A t \in Tasks : t # tasks => config'[t] = config[t]
      BY <1>2, <1>17 DEF TaskFinish, IInv, TypeOK
  <2> QED
      BY <1>6, <1>7, <1>12, <2>1, <2>2, <2>3
<1>18. CASE PluginsFinish
  <2>1. op = "plugins" /\ src' # {} /\ UNCHANGED <<task, config>>
      BY <1>8, <1>18 DEF PluginsFinish
  <2>2. task.state = "TASK_COMPLETE"
      BY <1>7, <2>1 DEF StatesOf
  <2>3. ClosedBefore' /\ KnownClosed' /\ StillOpen'
      BY <1>2, <1>3, <2>1, <2>2
      DEF LInv, ClosedBefore, KnownClosed, StillOpen, BeforeEnd
  <2>4. NoTrace' /\ WasOpened'
      BY <1>2, <1>3, <2>1, <2>2 DEF LInv, NoTrace, WasOpened, BeforeEnd
  <2> QED
      BY <1>4, <1>5, <2>1, <2>3, <2>4 DEF Ledgers
<1> QED
    BY <1>13, <1>14, <1>15, <1>16, <1>17, <1>18 DEF Operation

(* A request says nothing of what the controller holds.                    *)
LEMMA RequestLedgers == All /\ Requests => Ledgers'
<1> SUFFICES ASSUME All, Requests PROVE Ledgers'
    OBVIOUS
<1>0. stdin' = stdin
    BY StdinKept DEF Next, DaemonStep
<1> USE <1>0
<1> USE DEF All
<1>1. UNCHANGED <<config, srv, refused>>
    BY DEF Requests, RequestWithoutTask, AbortRecipe, AbortTask, Report,
           Forward, AdjustWatchdog, Request
<1>2. /\ \A t \in Tasks : Closed(t)' <=> Closed(t)
      /\ \A t \in Tasks : Opened(t)' <=> Opened(t)
    BY <1>1 DEF Closed, Opened
<1>3. ASSUME Dies("down") PROVE Ledgers'
  <2>1. /\ \A t \in Tasks : ~stdin' /\ srv'[t] \in Terminal
                               => config'[t] = EmptySection
        /\ \A t \in Tasks : config'[t].started \/ config'[t].localwatchdog
                                => Opened(t)'
      BY <1>1, <1>2 DEF LInv, NoTrace, WasOpened
  <2> QED
      BY <1>3, <2>1, ForgetLedger DEF Dies, Ledgers
<1>4. ASSUME Served, tasks # 0, task'.state = task.state,
             task'.error = task.error, cancelled => cancelled',
             UNCHANGED queue \/ \E k \in ForwardKinds : Enqueue(Msg(k)),
             CancelledByAbort'
      PROVE  Ledgers'
  <2>1. UNCHANGED <<tasks, finished, src>> /\ tasks \in Tasks
      BY <1>4, RunnerAssumption DEF Served, IInv, TypeOK, Tasks
  <2>2. ClosedBefore' /\ KnownClosed' /\ StillOpen'
      BY <1>1, <1>2, <1>4, <2>1 DEF LInv, ClosedBefore, KnownClosed, StillOpen
  <2>3. NoTrace' /\ WasOpened'
      BY <1>1, <1>2, <1>4, <2>1 DEF LInv, NoTrace, WasOpened
  <2>4. EndPending'
    <3>1. CASE UNCHANGED queue
        BY <1>1, <2>1, <3>1 DEF LInv, EndPending, CallbackIn, Opened
    <3>2. ASSUME NEW k \in ForwardKinds, Enqueue(Msg(k)) PROVE EndPending'
      <4>1. /\ queue \in Seq(Message) /\ queue' = Append(queue, Msg(k))
            /\ Msg(k) \in Message /\ Msg(k).kind \notin CallbackKinds
          BY <2>1, <3>2, MsgTyped
          DEF Enqueue, IInv, TypeOK, ForwardKinds, CallbackKinds, StatusKinds,
              Terminal
      <4>2. ASSUME NEW i \in 1 .. Len(queue'), CallbackIn(queue', i)
            PROVE  /\ i \in 1 .. Len(queue) /\ queue'[i] = queue[i]
                   /\ CallbackIn(queue, i)
          BY <4>1, <4>2, CallbackKept
      <4> QED
          BY <1>1, <2>1, <4>2 DEF LInv, EndPending, Opened
    <3> QED
        BY <1>4, <3>1, <3>2
  <2> QED
      BY <1>4, <2>2, <2>3, <2>4 DEF Ledgers
<1>5. ASSUME UNCHANGED task \/ task' = [task EXCEPT !.results_reported = TRUE]
      PROVE  task'.state = task.state /\ task'.error = task.error
    BY <1>5 DEF IInv, TypeOK, Task
<1>6. ASSUME UNCHANGED cancelVars, Served
      PROVE  CancelledByAbort' /\ (cancelled => cancelled')
    BY <1>6 DEF LInv, CancelledByAbort, Served
<1>7. CASE AbortRecipe \/ AbortTask
    BY <1>4, <1>7 DEF AbortRecipe, AbortTask, CancelledByAbort
<1>8. CASE Report
    BY <1>4, <1>5, <1>6, <1>8 DEF Report, ForwardKinds
<1>9. CASE Forward
    BY <1>4, <1>5, <1>6, <1>9 DEF Forward, ForwardKinds
<1>10. CASE AdjustWatchdog
    BY <1>3, <1>4, <1>5, <1>6, <1>10 DEF AdjustWatchdog, ForwardKinds
<1>11. CASE RequestWithoutTask
    BY <1>3, <1>11 DEF RequestWithoutTask
<1> QED
    BY <1>7, <1>8, <1>9, <1>10, <1>11 DEF Requests

(* A reboot finds the config file as the last boot left it.                *)
LEMMA BootLedgers == All /\ Restart => Ledgers'
<1> SUFFICES ASSUME All, Restart PROVE Ledgers'
    OBVIOUS
<1> USE DEF All
<1>1. Forget /\ UNCHANGED <<stdin, refused>>
    BY Boots DEF Boot
<1>2. \A t \in Tasks : Opened(t) => Opened(t)'
    BY RecordsKept DEF Next
<1>3. \A t \in Tasks : \/ config'[t] = config[t] /\ (stdin \/ UNCHANGED srv)
                       \/ srv'[t] \notin Terminal /\ Opened(t)
  <2>1. CASE Reboot
      BY <2>1 DEF Reboot
  <2>2. ASSUME NEW n \in 0 .. 1, RebootInTaskRun(n), NEW t \in Tasks
        PROVE  \/ config'[t] = config[t] /\ UNCHANGED srv
               \/ srv'[t] \notin Terminal /\ Opened(t)
    <3>1. /\ tasks \in Tasks /\ task.state = "TASK_RUN" /\ config' = Written(n)
          /\ n \in 0 .. 2 /\ UNCHANGED srv
        BY <2>2, RunInterrupted
    <3>2. t # tasks => config'[t] = config[t]
        BY <3>1, WrittenSection DEF IInv
    <3>3. srv[tasks] \notin Terminal /\ Opened(tasks)
        BY <3>1, RunnerAssumption
        DEF LInv, StillOpen, WasOpened, BeforeEnd, Tasks
    <3> QED
        BY <3>1, <3>2, <3>3
  <2>3. CASE RebootInTaskCompleted
      BY <2>3, EndInterrupted
  <2> QED
      BY <2>1, <2>2, <2>3 DEF Restart
<1>4. /\ \A t \in Tasks : ~stdin' /\ srv'[t] \in Terminal
                               => config'[t] = EmptySection
      /\ \A t \in Tasks : config'[t].started \/ config'[t].localwatchdog
                               => Opened(t)'
    BY <1>1, <1>2, <1>3 DEF LInv, NoTrace, WasOpened
<1> QED
    BY <1>1, <1>4, ForgetLedger DEF Ledgers

----------------------------------------------------------------------------
(* What the controller learns from the message at the head: the status of  *)
(* the current task only, and its end only when its section is gone from   *)
(* the config file, but under --stdin.                                     *)
LEMMA Learnt ==
    ASSUME IInv, RInv, LInv, Accept \/ Refuse \/ LoseReply
    PROVE  /\ \A t \in Tasks : t = tasks \/ srv'[t] = srv[t]
           /\ \/ srv' = srv
              \/ /\ tasks \in Tasks /\ tasks # 0 /\ src = {}
                 /\ Head(queue).kind \in StatusKinds
                 /\ srv'[tasks] = Head(queue).kind
                 /\ \/ /\ Head(queue).kind = "Running"
                       /\ task.state = "TASK_FETCH"
                    \/ /\ Head(queue).kind \in Terminal
                       /\ task.state = "TASK_NEXT"
                       /\ stdin \/ config[tasks] = EmptySection
<1> DEFINE m == Head(queue)
<1>1. CASE srv' = srv
    BY <1>1
<1>2. CASE srv' # srv
  <2>1. /\ queue # <<>> /\ m.kind \in StatusKinds
        /\ srv' = [srv EXCEPT ![m.task] = m.kind]
      BY <1>2 DEF Accept, Refuse, LoseReply, Sending, ServerApplies
  <2>2. /\ m.task = tasks /\ tasks \in Tasks /\ tasks # 0 /\ src = {}
        /\ task.state = IF m.kind = "Running" THEN "TASK_FETCH" ELSE "TASK_NEXT"
      BY <2>1, StatusMessage
  <2>3. /\ srv'[tasks] = m.kind
        /\ \A t \in Tasks : t = tasks \/ srv'[t] = srv[t]
      BY <2>1, <2>2 DEF IInv, TypeOK
  <2>4. task.state = "TASK_NEXT" => stdin \/ config[tasks] = EmptySection
      BY <2>2 DEF LInv, NoTrace
  <2> QED
      BY <2>1, <2>2, <2>3, <2>4 DEF StatusKinds
<1> QED
    BY <1>1, <1>2

LEMMA ReplyLedgers == All /\ (Accept \/ Refuse \/ LoseReply) => Ledgers'
<1> SUFFICES ASSUME All, Accept \/ Refuse \/ LoseReply PROVE Ledgers'
    OBVIOUS
<1>0. stdin' = stdin
    BY StdinKept DEF Next, DaemonStep
<1> USE <1>0
<1> USE DEF All
<1> DEFINE m == Head(queue)
<1>1. \A t \in Tasks : /\ srv[t] \in Terminal => srv'[t] \in Terminal
                       /\ Closed(t) => Closed(t)'
                       /\ Opened(t) => Opened(t)'
    BY RecordsKept DEF Next, DaemonStep
<1>2. /\ UNCHANGED config
      /\ \A t \in Tasks : ~stdin /\ srv'[t] \in Terminal
                               => config[t] = EmptySection
      /\ \A t \in Tasks : config[t].started \/ config[t].localwatchdog
                               => Opened(t)'
  <2>1. UNCHANGED config
      BY DEF Accept, Refuse, LoseReply, Answered
  <2>2. ASSUME NEW t \in Tasks, srv'[t] \in Terminal, ~stdin
        PROVE  config[t] = EmptySection
      BY <2>2, Learnt DEF LInv, NoTrace, Terminal
  <2> QED
      BY <1>1, <2>1, <2>2 DEF LInv, WasOpened
<1>3. ASSUME UNCHANGED <<tasks, finished, task, cancelled, aborted, rstate>>
      PROVE  /\ KnownClosed' /\ StillOpen' /\ CancelledByAbort'
             /\ tasks # 0 => \A t \in Tasks : t < tasks => Closed(t)'
  <2>1. \A t \in finished : srv'[t] \in Terminal
    <3>1. finished \subseteq Tasks
        BY DEF IInv, TypeOK
    <3> QED
        BY <1>1, <3>1 DEF LInv, KnownClosed
  <2>2. ASSUME tasks # 0
        PROVE  /\ \A t \in Tasks : t > tasks /\ srv'[t] \in Terminal
                                      => t \in finished
               /\ task.state = "TASK_IDLE" /\ srv'[tasks] \in Terminal
                      => tasks \in finished
    <3>1. tasks \in Tasks
        BY <2>2, RunnerAssumption DEF IInv, TypeOK, Tasks
    <3>2. \A t \in Tasks : t > tasks => srv'[t] = srv[t]
        BY <3>1, Learnt DEF Tasks
    <3>3. task.state = "TASK_IDLE" => srv'[tasks] = srv[tasks]
        BY <3>1, Learnt
    <3> QED
        BY <2>2, <3>2, <3>3 DEF LInv, KnownClosed
  <2>3. KnownClosed'
      BY <1>3, <2>1, <2>2 DEF KnownClosed
  <2>4. StillOpen'
    <3>1. task.state # "TASK_NEXT" => \/ srv' = srv
                                      \/ srv'[tasks] = "Running"
        BY Learnt
    <3> QED
        BY <1>3, <3>1 DEF LInv, StillOpen, BeforeEnd, Terminal
  <2>5. CancelledByAbort'
      BY <1>3 DEF LInv, CancelledByAbort
  <2>6. tasks # 0 => \A t \in Tasks : t < tasks => Closed(t)'
      BY <1>1 DEF LInv, ClosedBefore
  <2> QED
      BY <2>3, <2>4, <2>5, <2>6
<1>4. ASSUME UNCHANGED <<tasks, task, src, cancelled>>
      PROVE  /\ NoTrace' /\ WasOpened'
             /\ (tasks # 0 /\ task.state = "TASK_NEXT" /\ src # {})
                    => Closed(tasks)'
  <2>1. tasks # 0 => tasks \in Tasks
      BY RunnerAssumption DEF IInv, TypeOK, Tasks
  <2>2. NoTrace'
      BY <1>2, <1>4 DEF LInv, NoTrace
  <2>3. WasOpened'
      BY <1>1, <1>2, <1>4, <2>1 DEF LInv, WasOpened
  <2>4. (tasks # 0 /\ task.state = "TASK_NEXT" /\ src # {}) => Closed(tasks)'
      BY <1>1, <1>4, <2>1 DEF LInv, ClosedBefore
  <2> QED
      BY <2>2, <2>3, <2>4
<1>5. CASE LoseReply
  <2>1. /\ UNCHANGED <<tasks, finished, task, src, queue, cancelled, aborted,
                       rstate>>
        /\ queue # <<>>
      BY <1>5 DEF LoseReply, Sending
  <2>2. ASSUME NEW i \in 1 .. Len(queue), CallbackIn(queue, i),
               queue[i].kind \in Terminal
        PROVE  /\ tasks \notin Unreadable
                     => \/ srv'[tasks] \notin Terminal
                        \/ srv'[tasks] = queue[i].kind
               /\ queue[i].kind = "Completed" => Opened(tasks)'
    <3>1. tasks \in Tasks
      <4>1. rstate = "RECIPE_RUNNING"
          BY <2>2, BatonIn DEF IInv, NoCallbackIn
      <4> QED
          BY <4>1, RunnerAssumption DEF IInv, InRecipe, TypeOK, Tasks
    <3>2. queue[i].kind = "Completed" => Opened(tasks)'
        BY <1>1, <2>1, <2>2, <3>1 DEF LInv, EndPending
    <3>3. CASE srv' = srv
        BY <2>2, <3>2, <3>3 DEF LInv, EndPending
    <3>4. CASE m.kind \in StatusKinds /\ srv'[tasks] = m.kind
      <4>1. 1 \in 1 .. Len(queue) /\ CallbackIn(queue, 1) /\ m = queue[1]
          BY <2>1, <3>4, OldestIn, StatusMessage
      <4>2. OneCallbackIn(queue)
          BY <4>1, BatonIn DEF IInv, NoCallbackIn
      <4>3. i = 1
          BY <2>2, <4>1, <4>2 DEF OneCallbackIn
      <4> QED
          BY <3>2, <3>4, <4>1, <4>3
    <3> QED
        BY <3>3, <3>4, Learnt
  <2>3. EndPending'
      BY <2>1, <2>2 DEF EndPending, CallbackIn, Opened
  <2>4. ClosedBefore'
      BY <1>3, <1>4, <2>1 DEF ClosedBefore
  <2> QED
      BY <1>3, <1>4, <2>1, <2>3, <2>4 DEF Ledgers
<1>6. ASSUME Accept \/ Refuse, queue' = Tail(queue), queue # <<>>,
             UNCHANGED <<tasks, finished, task, cancelled, aborted, rstate>>,
             src' = IF m.kind \in CallbackKinds THEN src \cup {"task_handler"}
                                               ELSE src
      PROVE  Ledgers'
  <2>1. /\ queue \in Seq(Message) /\ 1 \in 1 .. Len(queue) /\ m = queue[1]
        /\ m.task \in Tasks
      BY <1>6, OldestIn
  <2>2. CASE m.kind \in CallbackKinds
    <3>1. OneCallbackIn(queue) /\ src = {} /\ rstate = "RECIPE_RUNNING"
      <4>1. ~NoCallbackIn(queue)
          BY <1>6, <2>1, <2>2, CallbackAnswered
      <4> QED
          BY <4>1, BatonIn DEF IInv
    <3>2. NoCallbackIn(queue') /\ src' = {"task_handler"}
        BY <1>6, <2>1, <2>2, <3>1, CallbackAnswered
    <3>3. m.task = tasks /\ task.state = StateAfter(m.kind) /\ tasks \in Tasks
        BY <2>1, <2>2 DEF RInv, CallbackState, CallbackIn
    <3>4. m.kind \in StatusKinds => srv'[tasks] = m.kind \/ tasks \in refused'
        BY <1>6, <3>3 DEF Accept, Refuse, ServerApplies, IInv, TypeOK
    <3>5. task.state = "TASK_NEXT" => Closed(tasks)'
        BY <1>6, <2>2, <3>3, <3>4
        DEF StateAfter, Closed, CallbackKinds, StatusKinds, Terminal
    <3>6. task.state = "TASK_FETCH" => Opened(tasks)'
        BY <1>6, <2>2, <3>3, <3>4 DEF StateAfter, Opened, StatusKinds
    <3>7. ClosedBefore'
        BY <1>3, <1>6, <3>5 DEF ClosedBefore
    <3>8. NoTrace'
        BY <1>2, <3>2 DEF NoTrace
    <3>9. WasOpened'
      <4>1. task.state \in BeforeEnd => Opened(tasks)'
          BY <1>1, <1>6, <3>1, <3>3, <3>6, RunnerAssumption
          DEF LInv, WasOpened, Tasks
      <4>2. task.state \notin {"TASK_COMPLETE", "TASK_COMPLETED"}
          BY <3>3 DEF StateAfter
      <4> QED
          BY <1>2, <1>6, <4>1, <4>2 DEF WasOpened
    <3> QED
        BY <1>3, <1>6, <3>2, <3>7, <3>8, <3>9, NothingEnding DEF Ledgers
  <2>3. CASE m.kind \notin CallbackKinds
    <3>1. UNCHANGED <<src, srv>>
      <4>1. m.kind \notin StatusKinds
          BY <2>3 DEF CallbackKinds
      <4> QED
          BY <1>6, <2>3, <4>1 DEF Accept, Refuse, ServerApplies
    <3>2. ClosedBefore'
        BY <1>3, <1>4, <1>6, <3>1 DEF ClosedBefore
    <3>3. ASSUME NEW i \in 1 .. Len(queue'), CallbackIn(queue', i)
          PROVE  /\ i + 1 \in 1 .. Len(queue) /\ queue'[i] = queue[i + 1]
                 /\ CallbackIn(queue, i + 1)
        BY <1>6, <2>1, <3>3, CallbackMoved
    <3>4. Opened(tasks) => Opened(tasks)'
        BY <1>6, <3>1 DEF Opened, Accept, Refuse, ServerApplies
    <3>5. EndPending'
        BY <1>6, <3>1, <3>3, <3>4 DEF LInv, EndPending, Opened
    <3> QED
        BY <1>3, <1>4, <1>6, <3>1, <3>2, <3>5 DEF Ledgers
  <2> QED
      BY <2>2, <2>3
<1>7. ASSUME Accept \/ Refuse PROVE Ledgers'
  <2>1. queue # <<>> /\ Answered(m)
      BY <1>7 DEF Accept, Refuse, Sending
  <2>2. CASE Dies("down")
      BY <1>2, <2>2, ForgetLedger DEF Dies, Ledgers
  <2> QED
      BY <1>6, <1>7, <2>1, <2>2 DEF Answered
<1> QED
    BY <1>5, <1>7

----------------------------------------------------------------------------
LEMMA AllInit == Init => All
<1> SUFFICES ASSUME Init PROVE All
    OBVIOUS
<1>1. IInv /\ RInv
    BY IInvInit, RInvInit
<1>2. /\ tasks = 0 /\ finished = {} /\ queue = <<>> /\ cancelled = FALSE
      /\ \A t \in Tasks : srv[t] = "New" /\ config[t] = EmptySection
    BY DEF Init
<1>3. EndPending /\ QueueTurns
    BY <1>2, EmptySeq DEF EndPending, QueueTurns
<1>4. /\ ClosedBefore /\ KnownClosed /\ StillOpen /\ NoTrace /\ WasOpened
      /\ CancelledByAbort
    BY <1>2
    DEF ClosedBefore, KnownClosed, StillOpen, NoTrace, WasOpened,
        CancelledByAbort, Terminal, EmptySection
<1> QED
    BY <1>1, <1>3, <1>4 DEF All, LInv

LEMMA AllStep == All /\ [Next]_vars => All'
<1> SUFFICES ASSUME All, [Next]_vars PROVE All'
    OBVIOUS
<1>1. IInv' /\ RInv' /\ QueueTurns'
    BY IInvStep, RInvStep, TurnsKept DEF All
<1>2. CASE UNCHANGED vars
  <2>1. UNCHANGED <<stdin, tasks, finished, task, src, queue, config, srv,
                    refused, cancelled, aborted, rstate>>
      BY <1>2 DEF vars
  <2>2. ClosedBefore' /\ KnownClosed' /\ StillOpen' /\ NoTrace'
      BY <2>1
      DEF All, LInv, ClosedBefore, KnownClosed, StillOpen, NoTrace, Closed
  <2>3. WasOpened' /\ EndPending' /\ CancelledByAbort'
      BY <2>1
      DEF All, LInv, WasOpened, EndPending, CancelledByAbort, Opened,
          CallbackIn
  <2> QED
      BY <1>1, <2>2, <2>3 DEF All, LInv
<1>3. CASE Next
  <2>1. Ledgers'
      BY <1>3, RecipeLedgers, TaskLedgers, OperationLedgers, ReplyLedgers,
         RequestLedgers, BootLedgers DEF Next, DaemonStep
  <2> QED
      BY <1>1, <2>1 DEF Ledgers, All, LInv
<1> QED
    BY <1>2, <1>3

THEOREM Recorded == Spec => []All
BY AllInit, AllStep, PTL DEF Spec

(* When the lab controller has closed a task the section of the task is    *)
(* gone from the config file, however the reply, or the machine, was lost  *)
(* in between.                                                             *)
THEOREM NoSectionLeftBehind == Spec => []FinishedLeavesNoSection
<1>1. All => FinishedLeavesNoSection
    BY DEF All, LInv, NoTrace, FinishedLeavesNoSection
<1> QED
    BY <1>1, Recorded, PTL

(* A recipe is over only when every task was closed at the controller, or  *)
(* the controller refused to hear of it.                                   *)
THEOREM OverWhenClosed == Spec => EndReported
<1>1. ASSUME All, [Next]_vars, rstate = "RECIPE_RUNNING",
             rstate' = "RECIPE_COMPLETE"
      PROVE  \A t \in Tasks : srv[t] \in Terminal \/ t \in refused
  <2>1. TaskNext /\ ~HasNext
    <3>1. ~(UNCHANGED vars)
        BY <1>1 DEF vars
    <3>2. ~RecipeNext
        BY <1>1
        DEF RecipeNext, RecipeFetch, RecipeFetchRetry, RecipeRun, RecipeRunning,
            RecipeComplete, RecipeFetchCompleted, RecipeParse, RecipeStep,
            Dies, All, IInv, Fetching
    <3>3. ~Operation
        BY <1>1
        DEF Operation, FetchFinish, RolesFinish, PackageFinish,
            DependencyFinish, TaskFetchRetry, RefreshRoleRetry, RolesRejected,
            MetadataFinish, TaskFinish, PluginsFinish, Attempted, Retried,
            Finish
    <3>4. ~(Accept \/ Refuse \/ LoseReply)
        BY <1>1 DEF Accept, Refuse, LoseReply, Answered, Dies
    <3>5. ~Requests
        BY <1>1
        DEF Requests, RequestWithoutTask, AbortRecipe, AbortTask, Report,
            Forward, AdjustWatchdog, Served, Dies
    <3>6. ~Restart
        BY <1>1, Boots DEF Boot, BootState
    <3>7. TaskHandler
        BY <1>1, <3>1, <3>2, <3>3, <3>4, <3>5, <3>6 DEF Next, DaemonStep
    <3> QED
        BY <1>1, <3>7
        DEF TaskHandler, TaskIdle, TaskFetch, TaskMetadataParse,
            TaskRefreshRoles, TaskEnv, TaskWatchdog, TaskDependencies, TaskRun,
            TaskComplete, TaskCompleted, TaskNext, SameTask
  <2>2. /\ tasks \in Tasks /\ tasks # 0 /\ src # {}
        /\ task.state = "TASK_NEXT"
      BY <1>1, <2>1, Running
      DEF All, IInv, InRecipe, TaskNext, TaskStep
  <2>3. \A t \in Tasks : t < tasks \/ t = tasks
      BY <2>1, <2>2, RunnerAssumption DEF HasNext, Tasks
  <2>4. ClosedBefore
      BY <1>1 DEF All, LInv
  <2>5. ASSUME NEW t \in Tasks PROVE Closed(t)
      BY <2>2, <2>3, <2>4 DEF ClosedBefore
  <2> QED
      BY <2>5 DEF Closed
<1>2. All /\ [Next]_vars
          => [rstate = "RECIPE_RUNNING" /\ rstate' = "RECIPE_COMPLETE"
                => \A t \in Tasks : srv[t] \in Terminal \/ t \in refused]_vars
    BY <1>1
<1> QED
    BY <1>2, Recorded, PTL DEF Spec, EndReported

----------------------------------------------------------------------------
(* What the controller sees is a ledger of tasks opened and closed in      *)
(* order, each closed once, through reboots and lost replies, as long as   *)
(* no section of the config file fails to be read.                         *)
THEOREM ImplementsLedger == ASSUME Unreadable = {} PROVE Spec => LedgerSpec
<1>1. Init => Ledger!Init
    BY DEF Init, Ledger!Init, Tasks, Ledger!Tasks
<1>2. ASSUME All, [Next]_vars
      PROVE  Ledger!Next \/ UNCHANGED <<srv, refused>>
  <2> DEFINE m == Head(queue)
  <2>1. ASSUME NEW t \in Tasks, \A u \in Tasks : u < t => Closed(u)
        PROVE  Ledger!Turn(t) /\ t \in Ledger!Tasks
    <3>1. \A u \in 1 .. (t - 1) : u \in Tasks /\ u < t
        BY RunnerAssumption DEF Tasks
    <3> QED
        BY <2>1, <3>1
        DEF Ledger!Turn, Ledger!Closed, Closed, Tasks, Ledger!Tasks,
            Terminal, Ledger!Terminal
  <2>2. CASE Refuse
    <3>1. queue # <<>> /\ refused' = refused \cup {m.task} /\ UNCHANGED srv
        BY <2>2 DEF Refuse, Sending
    <3>2. m.task \in Tasks /\ \A u \in Tasks : u < m.task => Closed(u)
        BY <1>2, <3>1, OldestIn DEF All, LInv, QueueTurns
    <3>3. Ledger!Lose(m.task) /\ m.task \in Ledger!Tasks
        BY <2>1, <3>1, <3>2 DEF Ledger!Lose
    <3> QED
        BY <3>3 DEF Ledger!Next
  <2>3. CASE (Accept \/ LoseReply) /\ srv' # srv
    <3>1. /\ UNCHANGED refused /\ queue # <<>>
          /\ srv' = [srv EXCEPT ![m.task] = m.kind] /\ m.kind \in StatusKinds
        BY <2>3 DEF Accept, LoseReply, Sending, ServerApplies
    <3>2. /\ m.task = tasks /\ tasks \in Tasks /\ tasks # 0
          /\ CallbackIn(queue, 1) /\ m = queue[1] /\ 1 \in 1 .. Len(queue)
          /\ m.kind = "Running" => task.state = "TASK_FETCH"
        BY <1>2, <3>1, OldestIn, StatusMessage DEF All
    <3>3. Ledger!Turn(tasks) /\ tasks \in Ledger!Tasks
        BY <1>2, <2>1, <3>2 DEF All, LInv, ClosedBefore
    <3>4. CASE m.kind = "Running"
      <4>1. srv[tasks] \notin Terminal
          BY <1>2, <3>2, <3>4 DEF All, LInv, StillOpen, BeforeEnd
      <4>2. Ledger!Open(tasks)
          BY <3>1, <3>2, <3>3, <3>4, <4>1
          DEF Ledger!Open, Terminal, Ledger!Terminal
      <4> QED
          BY <3>3, <4>2 DEF Ledger!Next
    <3>5. CASE m.kind \in Terminal
      <4>1. /\ srv[tasks] \notin Terminal \/ srv[tasks] = m.kind
            /\ m.kind = "Completed" => Opened(tasks)
          BY <1>2, <3>2, <3>5 DEF All, LInv, EndPending
      <4>2. srv \in [Tasks -> {"New"} \cup StatusKinds]
          BY <1>2 DEF All, IInv, TypeOK
      <4>3. srv[tasks] # m.kind
          BY <2>3, <3>1, <3>2, <4>2
      <4>4. m.kind = "Completed" => srv[tasks] = "Running" \/ tasks \in refused
          BY <3>2, <4>1, <4>2, <4>3 DEF Opened, StatusKinds
      <4>5. Ledger!Close(tasks, m.kind)
          BY <3>1, <3>2, <3>3, <4>1, <4>3, <4>4
          DEF Ledger!Close, Terminal, Ledger!Terminal
      <4> QED
          BY <3>3, <3>5, <4>5 DEF Ledger!Next, Terminal, Ledger!Terminal
    <3> QED
        BY <3>1, <3>4, <3>5 DEF StatusKinds
  <2>4. CASE (Accept \/ LoseReply) /\ srv' = srv
      BY <2>4 DEF Accept, LoseReply, ServerApplies
  <2>5. CASE RebootInTaskCompleted
    <3>1. /\ tasks \in Tasks /\ tasks # 0 /\ task.state = "TASK_COMPLETED"
          /\ EndStatus \in Terminal /\ UNCHANGED refused
          /\ srv' = [srv EXCEPT ![tasks] = EndStatus]
        BY <1>2, <2>5, EndInterrupted, RunnerAssumption DEF All, Tasks
    <3>2. Ledger!Turn(tasks) /\ tasks \in Ledger!Tasks
        BY <1>2, <2>1, <3>1 DEF All, LInv, ClosedBefore
    <3>3. srv[tasks] \notin Terminal /\ (task.error \/ Opened(tasks))
        BY <1>2, <3>1 DEF All, LInv, StillOpen, WasOpened
    <3>4. srv[tasks] \in {"New"} \cup StatusKinds
        BY <1>2, <3>1 DEF All, IInv, TypeOK
    <3>5. EndStatus = "Completed"
              => srv[tasks] = "Running" \/ tasks \in refused
        BY <3>3, <3>4 DEF EndStatus, Opened, StatusKinds
    <3>6. Ledger!Close(tasks, EndStatus)
        BY <3>1, <3>2, <3>3, <3>5 DEF Ledger!Close, Terminal, Ledger!Terminal
    <3> QED
        BY <3>1, <3>2, <3>6 DEF Ledger!Next, Terminal, Ledger!Terminal
  <2> QED
      BY <1>2, <2>2, <2>3, <2>4, <2>5, ServerSteps DEF All
<1>3. All /\ [Next]_vars => [Ledger!Next]_(Ledger!ledgerVars)
    BY <1>2 DEF Ledger!ledgerVars
<1> QED
    BY <1>1, <1>3, Recorded, PTL DEF Spec, LedgerSpec, Ledger!Spec

=============================================================================
