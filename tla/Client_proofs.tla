---------------------------- MODULE Client_proofs ----------------------------
(***************************************************************************)
(* The safety of Client.tla, for any job, any number of retries and any    *)
(* number of lost connections and kills of the client.                     *)
(*                                                                         *)
(* That a recipe sums up its tasks is not inductive: the status of a task  *)
(* that was aborted must not be set again, so no message about a finished  *)
(* task may be left to read.  That is a fact about the order of what a     *)
(* host prints: the tasks it was given are the last ones of the recipe     *)
(* (InOrder), it goes through them one after the other (Printed), and      *)
(* ends each once (AtTask).  The same order keeps the results: when the    *)
(* end of a task is read, nothing about it is left in the output (Kept).   *)
(***************************************************************************)
EXTENDS Client, SequenceTheorems, WellFoundedInduction, TLAPS

Final == {"Completed", "Aborted"}
IsFinal(m) == m.kind = "status" /\ m.value \in Final

MessageType ==
    [kind : {"status"}, task : Job, value : {"Running"} \cup Final]
        \cup [kind : {"result"}, task : Job, value : Results]
        \cup [kind : {"watchdog"}, task : Job, value : {""}]

(* The types of what the main loop does not keep itself.                   *)
HostTypes ==
    /\ pipe \in [Recipe -> Seq(MessageType)]
    /\ \A r \in Recipe : \A i \in DOMAIN pipe[r] : pipe[r][i].task[1] = r
    /\ link \in [Recipe -> {"none", "up", "ended", "failed"}]
    /\ host \in [Recipe -> [task : Nat, stage : {"off", "new", "running"}]]
    /\ owed \in [Job -> SUBSET Results]
    /\ events \in Nat

Idle == main \in {"killed", "nothing to do"} =>
            \A r \in Recipe : conn[r] = "idle"

(* The finished tasks of a recipe are its first ones.                      *)
InOrder(d) ==
    \A t, u \in Job :
        t[1] = u[1] /\ t[2] < u[2] /\ d.status[u] \in Final
            => d.status[t] \in Final

(* The end of task t is in the first n messages of its host.               *)
EndRead(t, n) ==
    \E j \in DOMAIN pipe[t[1]] :
        j <= n /\ IsFinal(pipe[t[1]][j]) /\ pipe[t[1]][j].task = t

(* A message to read is about a task that is not finished, the ends of the *)
(* earlier tasks are before it, and no later message is about a task whose *)
(* end it is.                                                              *)
PrintedBy(r) ==
    \A i \in DOMAIN pipe[r] :
        LET m == pipe[r][i]
        IN /\ doc.status[m.task] \notin Final
           /\ \A t \in JobOf(r) :
                 t[2] < m.task[2] => doc.status[t] \in Final \/ EndRead(t, i)
           /\ \A j \in DOMAIN pipe[r] :
                 /\ i < j => m.task[2] <= pipe[r][j].task[2]
                 /\ i < j /\ IsFinal(m) => m.task[2] < pipe[r][j].task[2]
Printed == \A r \in Recipe : PrintedBy(r)

(* A host that is connected is at a task that is neither finished nor has  *)
(* its end printed, and the ends of the earlier ones are printed.          *)
AtTaskOf(r) ==
    link[r] = "up" =>
        LET k == host[r].task
        IN /\ k \in 1 .. Tasks[r]
           /\ doc.status[<<r, k>>] \notin Final
           /\ \A t \in JobOf(r) : t[2] < k =>
                 doc.status[t] \in Final \/ EndRead(t, Len(pipe[r]))
           /\ \A i \in DOMAIN pipe[r] :
                 /\ pipe[r][i].task[2] <= k
                 /\ IsFinal(pipe[r][i]) => pipe[r][i].task[2] < k
AtTask == \A r \in Recipe : AtTaskOf(r)

(* job.xml calls nothing completed that the XML in memory does not, and a  *)
(* client that was killed is owed what job.xml has.                        *)
Behind ==
    /\ \A t \in Job :
          saved.status[t] = "Completed" => doc.status[t] = "Completed"
    /\ main = "killed" =>
          \A t \in Job : \A s \in owed[t] : Id(s) <= Id(saved.result[t])

(* No error means that recipe_finish saw good results only.                *)
Seen ==
    error = "none" =>
        \A t \in Job : conn[t[1]] = "finished"
                          => doc.result[t] \in {"PASS", "SKIPPED"}

Orders == InOrder(doc) /\ InOrder(saved) /\ Printed /\ AtTask
IInv == /\ RecipeSumsUp /\ HostTypes /\ Idle /\ Orders
        /\ ResultsKept /\ Behind /\ Seen

-----------------------------------------------------------------------------
(* The operators on the XML of the job.                                    *)
LEMMA JobFacts ==
    /\ \A t \in Job : /\ t = <<t[1], t[2]>> /\ t[1] \in Recipe
                     /\ t[2] \in 1 .. Tasks[t[1]] /\ t \in JobOf(t[1])
    /\ \A r \in Recipe : \A i \in 1 .. Tasks[r] : <<r, i>> \in JobOf(r)
    /\ \A r \in Recipe : JobOf(r) \subseteq Job
    /\ \A r \in Recipe : <<r, 1>> \in JobOf(r)
BY ClientAssumption DEF Job, JobOf

LEMMA JobOfSplit ==
    ASSUME NEW r \in Recipe, NEW t \in Job
    PROVE  t \in JobOf(r) <=> t[1] = r
BY DEF JobOf

LEMMA IdOrder ==
    ASSUME NEW new, NEW old
    PROVE  /\ Id(new) \in Nat
           /\ Higher(new, old) \in {new, old}
           /\ Id(Higher(new, old)) >= Id(new)
           /\ Id(Higher(new, old)) >= Id(old)
BY DEF Higher, Id

(* Recording a result loses none, and keeps the recipe's the highest.      *)
LEMMA RecordedSumsUp ==
    ASSUME NEW d \in Doc, SumsUp(d), NEW t \in Job, NEW s \in Results
    PROVE  /\ Recorded(d, t, s) \in Doc
           /\ SumsUp(Recorded(d, t, s))
           /\ Recorded(d, t, s).status = d.status
           /\ \A u \in Job : Id(Recorded(d, t, s).result[u]) >= Id(d.result[u])
           /\ Id(Recorded(d, t, s).result[t]) >= Id(s)
           /\ \A u \in Job \ {t} : Recorded(d, t, s).result[u] = d.result[u]
<1> DEFINE new == Recorded(d, t, s)
           q == t[1]
<1>0. t \in Job /\ q \in Recipe
    BY JobFacts
<1>1. /\ new.status = d.status /\ new.recipeStatus = d.recipeStatus
      /\ new.result = [d.result EXCEPT ![t] = Higher(s, @)]
      /\ new.recipeResult = [d.recipeResult EXCEPT ![q] = Higher(s, @)]
    BY DEF Recorded, Doc
<1>2. new \in Doc
  <2>1. new.result \in [Job -> Results \cup {"None"}]
      BY <1>1, IdOrder DEF Doc
  <2>2. new.recipeResult \in [Recipe -> Results \cup {"None"}]
      BY <1>0, <1>1, IdOrder DEF Doc
  <2> QED
      BY <1>1, <2>1, <2>2 DEF Recorded, Doc
<1>3. \A u \in Job : Id(new.result[u]) >= Id(d.result[u])
    BY <1>1, IdOrder DEF Doc
<1>4. Id(new.result[t]) >= Id(s) /\ \A u \in Job \ {t} : new.result[u] = d.result[u]
    BY <1>1, IdOrder DEF Doc
<1>5. ASSUME NEW r \in Recipe, NEW u \in JobOf(r)
      PROVE  Id(new.result[u]) <= Id(new.recipeResult[r])
  <2>1. Id(d.result[u]) <= Id(d.recipeResult[r]) /\ u \in Job /\ u[1] = r
      BY JobFacts DEF SumsUp, JobOf
  <2>2. CASE u = t
    <3>1. r = q
        BY <2>1, <2>2
    <3>2. /\ new.result[u] = Higher(s, d.result[u])
          /\ new.recipeResult[r] = Higher(s, d.recipeResult[r])
        BY <1>1, <2>2, <3>1 DEF Doc
    <3> QED
        BY <2>1, <3>2 DEF Higher, Id
  <2>3. CASE u # t
    <3>1. /\ new.result[u] = d.result[u]
          /\ Id(new.recipeResult[r]) >= Id(d.recipeResult[r])
        BY <1>1, <2>1, <2>3, IdOrder DEF Doc
    <3> QED
        BY <2>1, <3>1, IdOrder
  <2> QED
      BY <2>2, <2>3
<1>6. ASSUME NEW r \in Recipe
      PROVE  \E u \in JobOf(r) : new.result[u] = new.recipeResult[r]
  <2>1. PICK u \in JobOf(r) : d.result[u] = d.recipeResult[r]
      BY DEF SumsUp
  <2>2. CASE r # q
    <3>1. u # t /\ u \in Job
        BY <2>2, JobFacts DEF JobOf
    <3> QED
        BY <1>1, <2>1, <2>2, <3>1 DEF Doc
  <2>3. CASE r = q /\ Id(s) > Id(d.recipeResult[r])
    <3>1. t \in JobOf(r) /\ Id(d.result[t]) <= Id(d.recipeResult[r])
        BY <2>3, JobFacts DEF SumsUp
    <3>2. Id(s) > Id(d.result[t])
        BY <2>3, <3>1, IdOrder
    <3>3. new.result[t] = s /\ new.recipeResult[r] = s
        BY <1>0, <1>1, <2>3, <3>2 DEF Higher, Doc
    <3> QED
        BY <3>1, <3>3
  <2>4. CASE r = q /\ ~(Id(s) > Id(d.recipeResult[r]))
    <3>1. new.recipeResult[r] = d.recipeResult[r]
        BY <1>0, <1>1, <2>4 DEF Higher, Doc
    <3>2. u \in Job /\ new.result[u] = d.result[u]
        BY <1>1, <2>1, <2>4, JobFacts DEF Higher, Doc
    <3> QED
        BY <2>1, <3>1, <3>2
  <2> QED
      BY <2>2, <2>3, <2>4
<1>7. SumsUp(new)
    BY <1>1, <1>5, <1>6 DEF SumsUp
<1> QED
    BY <1>1, <1>2, <1>3, <1>4, <1>7

(* The status of a task that is not finished may be set.                   *)
LEMMA StatusSumsUp ==
    ASSUME NEW d \in Doc, SumsUp(d), NEW t \in Job, d.status[t] \notin Final,
           NEW status \in {"Running"} \cup Final
    PROVE  /\ StatusSet(d, t, status) \in Doc
           /\ SumsUp(StatusSet(d, t, status))
           /\ StatusSet(d, t, status).result = d.result
           /\ StatusSet(d, t, status).status
                  = [d.status EXCEPT ![t] = status]
<1> DEFINE new == StatusSet(d, t, status)
           q == t[1]
<1>0. q \in Recipe /\ t \in JobOf(q)
    BY JobFacts
<1>1. /\ new.result = d.result /\ new.recipeResult = d.recipeResult
      /\ new.status = [d.status EXCEPT ![t] = status]
      /\ new.recipeStatus = [d.recipeStatus EXCEPT ![q] =
                                IF @ = "Aborted" THEN @ ELSE status]
    BY DEF StatusSet, Doc
<1>2. new \in Doc
    BY <1>0 DEF StatusSet, Doc, States, Final
<1>3. ASSUME NEW r \in Recipe
      PROVE  new.recipeStatus[r] = "Aborted"
                 <=> \E u \in JobOf(r) : new.status[u] = "Aborted"
  <2>1. d.recipeStatus[r] = "Aborted"
            <=> \E u \in JobOf(r) : d.status[u] = "Aborted"
      BY DEF SumsUp
  <2>2. \A u \in JobOf(r) : u \in Job
      BY JobFacts
  <2>3. CASE r # q
    <3>1. t \notin JobOf(r)
        BY <2>3 DEF JobOf
    <3> QED
        BY <1>1, <2>1, <2>2, <2>3, <3>1 DEF Doc
  <2>4. CASE r = q
    <3>1. d.status[t] # "Aborted"
        BY DEF Final
    <3>2. new.status[t] = status /\ \A u \in JobOf(r) \ {t} : new.status[u] = d.status[u]
        BY <1>1, <2>2 DEF Doc
    <3>3. new.recipeStatus[r] = IF d.recipeStatus[r] = "Aborted"
                                  THEN "Aborted" ELSE status
        BY <1>0, <1>1, <2>4 DEF Doc
    <3> HIDE DEF new
    <3> QED
        BY <1>0, <2>1, <2>4, <3>1, <3>2, <3>3
  <2> QED
      BY <2>3, <2>4
<1>4. SumsUp(new)
    BY <1>1, <1>3 DEF SumsUp
<1> QED
    BY <1>1, <1>2, <1>4

(* recipe_finish aborts what is open, and the recipe with it.              *)
LEMMA ClosedSumsUp ==
    ASSUME NEW d \in Doc, SumsUp(d), NEW r \in Recipe
    PROVE  /\ Closed(d, r) \in Doc
           /\ SumsUp(Closed(d, r))
           /\ Closed(d, r).result = d.result
           /\ \A t \in JobOf(r) : Closed(d, r).status[t] \in Final
           /\ \A t \in Job : \/ Closed(d, r).status[t] = d.status[t]
                             \/ t \in JobOf(r) /\ d.status[t] \notin Final
           /\ \A t \in Job : t[1] # r =>
                  Closed(d, r).status[t] = d.status[t]
<1> DEFINE new == Closed(d, r)
<1>1. /\ new.result = d.result /\ new.recipeResult = d.recipeResult
      /\ new.status = [t \in Job |-> IF t \in Open(d, r) THEN "Aborted"
                                                       ELSE d.status[t]]
      /\ new.recipeStatus = [d.recipeStatus EXCEPT ![r] =
                                IF Open(d, r) = {} THEN @ ELSE "Aborted"]
    BY DEF Closed, Doc
<1>2. new \in Doc
  <2>2. new.status \in [Job -> States]
      BY <1>1 DEF Doc, States
  <2>3. new.recipeStatus \in [Recipe -> States]
      BY <1>1 DEF Doc, States
  <2> QED
      BY <1>1, <2>2, <2>3 DEF Closed, Doc
<1>3. \A t \in JobOf(r) : t \in Job /\ new.status[t] \in Final
    BY <1>1, JobFacts DEF Doc, Open, Final, States
<1>4. \A t \in Job : \/ new.status[t] = d.status[t]
                     \/ t \in JobOf(r) /\ d.status[t] \notin Final
    BY <1>1 DEF Open, Final
<1>5. \A t \in Job : t[1] # r => new.status[t] = d.status[t]
    BY <1>1 DEF Open, JobOf
<1>6. ASSUME NEW q \in Recipe
      PROVE  new.recipeStatus[q] = "Aborted"
                 <=> \E u \in JobOf(q) : new.status[u] = "Aborted"
  <2>1. d.recipeStatus[q] = "Aborted"
            <=> \E u \in JobOf(q) : d.status[u] = "Aborted"
      BY DEF SumsUp
  <2>2. CASE q # r
    <3>1. \A u \in JobOf(q) : new.status[u] = d.status[u]
        BY <1>5, <2>2 DEF JobOf
    <3>2. new.recipeStatus[q] = d.recipeStatus[q]
        BY <1>1, <2>2 DEF Doc
    <3> QED
        BY <2>1, <3>1, <3>2
  <2>3. CASE q = r /\ Open(d, r) = {}
    <3>1. new.status = d.status /\ new.recipeStatus[q] = d.recipeStatus[q]
        BY <1>1, <2>3 DEF Doc
    <3> QED
        BY <2>1, <3>1
  <2>4. CASE q = r /\ Open(d, r) # {}
    <3>1. PICK u \in Open(d, r) : TRUE
        BY <2>4
    <3>2. u \in JobOf(q) /\ u \in Job /\ new.status[u] = "Aborted"
        BY <1>1, <2>4, JobFacts DEF Open
    <3>3. new.recipeStatus[q] = "Aborted"
        BY <1>1, <2>4 DEF Doc
    <3> QED
        BY <3>2, <3>3
  <2> QED
      BY <2>2, <2>3, <2>4
<1>7. ASSUME NEW q \in Recipe
      PROVE  /\ \A u \in JobOf(q) : Id(new.result[u]) <= Id(new.recipeResult[q])
             /\ \E u \in JobOf(q) : new.result[u] = new.recipeResult[q]
    BY <1>1 DEF SumsUp
<1>8. SumsUp(new)
    BY <1>6, <1>7 DEF SumsUp
<1> QED
    BY <1>1, <1>2, <1>3, <1>4, <1>5, <1>8

-----------------------------------------------------------------------------
(* The types.                                                              *)
LEMMA Initially == Init => IInv
<1> SUFFICES ASSUME Init PROVE IInv
    OBVIOUS
<1>1. NewDoc \in Doc
    BY DEF NewDoc, Doc, States
<1>2. SumsUp(NewDoc)
  <2>1. ASSUME NEW r \in Recipe
        PROVE  /\ NewDoc.recipeStatus[r] = "New"
               /\ NewDoc.recipeResult[r] = "None"
               /\ \A t \in JobOf(r) : /\ NewDoc.status[t] = "New"
                                      /\ NewDoc.result[t] = "None"
               /\ <<r, 1>> \in JobOf(r)
      BY JobFacts DEF NewDoc
  <2>2. ASSUME NEW r \in Recipe
        PROVE  /\ NewDoc.recipeStatus[r] = "Aborted"
                      <=> \E t \in JobOf(r) : NewDoc.status[t] = "Aborted"
               /\ \A t \in JobOf(r) :
                     Id(NewDoc.result[t]) <= Id(NewDoc.recipeResult[r])
               /\ \E t \in JobOf(r) :
                     NewDoc.result[t] = NewDoc.recipeResult[r]
    <3>1. Id("None") <= Id("None")
        BY IdOrder
    <3> QED
        BY <2>1, <3>1, ZenonT(30)
  <2> QED
      BY <2>2 DEF SumsUp
<1>3. TypeOK
  <2>1. MaxRetries \in Nat
      BY ClientAssumption
  <2>2. /\ \A r \in Recipe : conn[r] = "idle" /\ link[r] = "none"
                                /\ pipe[r] = <<>>
        /\ conn \in [Recipe -> {"idle", "up", "waiting", "finished"}]
        /\ cancelled \in [Recipe -> BOOLEAN] /\ timer \in [Recipe -> BOOLEAN]
      BY DEF Init
  <2>3. /\ main = "running" /\ doc \in Doc /\ saved \in Doc
        /\ started = FALSE /\ retries = 0 /\ error = "none"
      BY <1>1 DEF Init
  <2>4. /\ \A r \in Recipe : link[r] = "none" <=> conn[r] # "up"
        /\ \A r \in Recipe : conn[r] # "up" => pipe[r] = <<>>
      BY <2>2
  <2>5. retries \in 0 .. MaxRetries
      BY <2>1, <2>3
  <2>6. started \in BOOLEAN
      BY <2>3
  <2> QED
      BY <2>2, <2>3, <2>4, <2>5, <2>6 DEF TypeOK
<1>4. HostTypes /\ Idle
    BY EmptySeq DEF Init, HostTypes, Idle, NoHost
<1>5. InOrder(NewDoc)
    BY DEF InOrder, NewDoc, Final
<1>6. Printed /\ AtTask
    BY DEF Init, Printed, PrintedBy, AtTask, AtTaskOf
<1>7. ResultsKept /\ Behind /\ Seen
  <2>1. /\ \A t \in Job : owed[t] = {} /\ t[1] \in Recipe
        /\ \A r \in Recipe : conn[r] = "idle"
        /\ saved = doc /\ main = "running"
      BY JobFacts DEF Init
  <2> QED
      BY <2>1 DEF ResultsKept, Behind, Seen
<1> QED
    BY <1>1, <1>2, <1>3, <1>4, <1>5, <1>6, <1>7
    DEF Init, IInv, RecipeSumsUp, Orders

(* What appending and taking do to the elements of a sequence.             *)
LEMMA Appended ==
    ASSUME NEW S, NEW q \in Seq(S), NEW m \in S
    PROVE  /\ Append(q, m) \in Seq(S) /\ Len(q) \in Nat
           /\ Len(Append(q, m)) = Len(q) + 1
           /\ DOMAIN q = 1 .. Len(q)
           /\ DOMAIN Append(q, m) = 1 .. Len(q) + 1
           /\ \A i \in 1 .. Len(q) : Append(q, m)[i] = q[i]
           /\ Append(q, m)[Len(q) + 1] = m
BY AppendProperties, LenProperties

LEMMA Taken ==
    ASSUME NEW S, NEW q \in Seq(S), q # <<>>
    PROVE  /\ Tail(q) \in Seq(S) /\ Head(q) \in S
           /\ Len(q) \in Nat \ {0} /\ Len(Tail(q)) = Len(q) - 1
           /\ DOMAIN q = 1 .. Len(q)
           /\ DOMAIN Tail(q) = 1 .. Len(q) - 1
           /\ Head(q) = q[1]
           /\ \A i \in 1 .. Len(q) - 1 : Tail(q)[i] = q[i + 1]
BY HeadTailProperties, LenProperties, EmptySeq

(* A message is printed.                                                   *)
LEMMA Prints ==
    ASSUME HostTypes, NEW r \in Recipe, NEW m \in MessageType, m.task[1] = r,
           pipe' = [pipe EXCEPT ![r] = Append(@, m)]
    PROVE  /\ Len(pipe[r]) \in Nat /\ DOMAIN pipe[r] = 1 .. Len(pipe[r])
           /\ Len(pipe'[r]) = Len(pipe[r]) + 1
           /\ DOMAIN pipe'[r] = 1 .. Len(pipe[r]) + 1
           /\ \A i \in 1 .. Len(pipe[r]) : pipe'[r][i] = pipe[r][i]
           /\ pipe'[r][Len(pipe[r]) + 1] = m
           /\ \A q \in Recipe \ {r} : pipe'[q] = pipe[q]
           /\ pipe' \in [Recipe -> Seq(MessageType)]
           /\ \A q \in Recipe : \A i \in DOMAIN pipe'[q] :
                 pipe'[q][i].task[1] = q
<1>1. pipe \in [Recipe -> Seq(MessageType)]
    BY DEF HostTypes
<1>2. pipe'[r] = Append(pipe[r], m) /\ pipe[r] \in Seq(MessageType)
    BY <1>1
<1>3. /\ pipe'[r] \in Seq(MessageType)
      /\ Len(pipe[r]) \in Nat /\ DOMAIN pipe[r] = 1 .. Len(pipe[r])
      /\ Len(pipe'[r]) = Len(pipe[r]) + 1
      /\ DOMAIN pipe'[r] = 1 .. Len(pipe[r]) + 1
      /\ \A i \in 1 .. Len(pipe[r]) : pipe'[r][i] = pipe[r][i]
      /\ pipe'[r][Len(pipe[r]) + 1] = m
    BY <1>2, Appended
<1>4. \A q \in Recipe \ {r} : pipe'[q] = pipe[q]
    BY <1>1
<1>5. pipe' \in [Recipe -> Seq(MessageType)]
    BY <1>1, <1>2, <1>3
<1>6. ASSUME NEW q \in Recipe, NEW i \in DOMAIN pipe'[q]
      PROVE  pipe'[q][i].task[1] = q
  <2>1. \A j \in DOMAIN pipe[q] : pipe[q][j].task[1] = q
      BY DEF HostTypes
  <2>2. CASE q = r
      BY <1>3, <2>1, <2>2
  <2>3. CASE q # r
      BY <1>4, <2>1, <2>3
  <2> QED
      BY <2>2, <2>3
<1> QED
    BY <1>3, <1>4, <1>5, <1>6

(* A message a host may send, and a host that may send it.                 *)
Says(r, m) ==
    \/ \E status \in {"Running"} \cup Final : m = Message(r, "status", status)
    \/ \E result \in Results : m = Message(r, "result", result)
    \/ m = Message(r, "watchdog", "")

LEMMA SentTypes ==
    ASSUME IInv, NEW r \in Recipe, NEW m, Sends(r, m), Says(r, m)
    PROVE  /\ m \in MessageType /\ m.task = <<r, host[r].task>>
           /\ host[r].task \in 1 .. Tasks[r] /\ m.task \in JobOf(r)
           /\ pipe' = [pipe EXCEPT ![r] = Append(@, m)]
           /\ HostTypes
<1>1. host[r].task \in 1 .. Tasks[r]
    BY DEF Sends, IInv, Orders, AtTask, AtTaskOf
<1>2. <<r, host[r].task>> \in JobOf(r) /\ <<r, host[r].task>> \in Job
    BY <1>1, JobFacts
<1>3. m \in MessageType /\ m.task = <<r, host[r].task>>
  <2>1. ASSUME NEW status \in {"Running"} \cup Final,
               m = Message(r, "status", status)
        PROVE  m \in MessageType /\ m.task = <<r, host[r].task>>
      BY <1>2, <2>1 DEF Message, MessageType
  <2>2. ASSUME NEW result \in Results, m = Message(r, "result", result)
        PROVE  m \in MessageType /\ m.task = <<r, host[r].task>>
      BY <1>2, <2>2 DEF Message, MessageType
  <2>3. ASSUME m = Message(r, "watchdog", "")
        PROVE  m \in MessageType /\ m.task = <<r, host[r].task>>
      BY <1>2, <2>3 DEF Message, MessageType
  <2> QED
      BY <2>1, <2>2, <2>3 DEF Says
<1> QED
    BY <1>1, <1>2, <1>3 DEF Sends, IInv

(* The sends, with what else they change.                                  *)
Begins(r, m) ==
    /\ m = Message(r, "status", "Running")
    /\ host' = [host EXCEPT ![r].stage = "running"]
    /\ UNCHANGED <<link, owed, events>>
Reports(r, m) ==
    /\ events' = events + 1 /\ UNCHANGED <<host, link>>
    /\ \/ \E result \in Results :
             /\ m = Message(r, "result", result)
             /\ owed' = [owed EXCEPT ![<<r, host[r].task>>] = @ \cup {result}]
       \/ m = Message(r, "watchdog", "") /\ UNCHANGED owed
Ends(r, m) ==
    /\ \E status \in Final : m = Message(r, "status", status)
    /\ Begun(r, host[r].task + 1, "new")
    /\ UNCHANGED <<owed, events>>

LEMMA HostSends ==
    ASSUME NEW r \in Recipe, HostStarts(r) \/ HostReports(r) \/ HostEnds(r)
    PROVE  \E m : /\ Sends(r, m) /\ Says(r, m)
                  /\ Begins(r, m) \/ Reports(r, m) \/ Ends(r, m)
<1>1. CASE HostStarts(r)
    BY <1>1 DEF HostStarts, Begins, Says
<1>2. CASE HostReports(r)
    BY <1>2 DEF HostReports, Reports, Says
<1>3. CASE HostEnds(r)
    BY <1>3 DEF HostEnds, Ends, Says, Final
<1> QED
    BY <1>1, <1>2, <1>3

LEMMA SendTypes ==
    ASSUME IInv, NEW r \in Recipe,
           HostStarts(r) \/ HostReports(r) \/ HostEnds(r)
    PROVE  TypeOK' /\ HostTypes' /\ Idle'
<1>1. PICK m : /\ Sends(r, m) /\ Says(r, m)
               /\ Begins(r, m) \/ Reports(r, m) \/ Ends(r, m)
    BY HostSends
<1>2. /\ m \in MessageType /\ m.task = <<r, host[r].task>>
      /\ host[r].task \in 1 .. Tasks[r] /\ m.task \in JobOf(r)
      /\ pipe' = [pipe EXCEPT ![r] = Append(@, m)]
      /\ HostTypes
    BY <1>1, SentTypes
<1>3. /\ pipe' \in [Recipe -> Seq(MessageType)]
      /\ \A q \in Recipe : \A i \in DOMAIN pipe'[q] : pipe'[q][i].task[1] = q
      /\ \A q \in Recipe \ {r} : pipe'[q] = pipe[q]
  <2>1. m.task[1] = r
      BY <1>2
  <2> QED
      BY <1>2, <2>1, Prints
<1>4. link[r] = "up" /\ UNCHANGED <<main, appVars, recipeVars>>
    BY <1>1 DEF Sends
<1>5. /\ link \in [Recipe -> {"none", "up", "ended", "failed"}]
      /\ host \in [Recipe -> [task : Nat, stage : {"off", "new", "running"}]]
      /\ owed \in [Job -> SUBSET Results]
      /\ events \in Nat /\ host[r].task + 1 \in Nat
      /\ <<r, host[r].task>> \in Job
    BY <1>2, JobFacts DEF HostTypes
<1>6. /\ link' \in [Recipe -> {"none", "up", "ended", "failed"}]
      /\ \A q \in Recipe : link'[q] = "none" <=> link[q] = "none"
      /\ host' \in [Recipe -> [task : Nat, stage : {"off", "new", "running"}]]
      /\ events' \in Nat /\ owed' \in [Job -> SUBSET Results]
  <2>1. CASE Begins(r, m)
      BY <1>5, <2>1 DEF Begins
  <2>2. CASE Reports(r, m)
    <3>1. owed' \in [Job -> SUBSET Results]
      <4>1. CASE UNCHANGED owed
          BY <1>5, <4>1
      <4>2. CASE \E result \in Results :
                    owed' = [owed EXCEPT ![<<r, host[r].task>>] =
                                @ \cup {result}]
          BY <1>5, <4>2
      <4> QED
          BY <2>2, <4>1, <4>2, Zenon DEF Reports
    <3>2. events' = events + 1 /\ link' = link /\ host' = host
        BY <2>2, Zenon DEF Reports
    <3> QED
      <4> HIDE <2>2
      <4> QED
          BY <1>5, <3>1, <3>2
  <2>3. CASE Ends(r, m)
    <3>1. HostAt(host[r].task + 1, "new")
              \in [task : Nat, stage : {"off", "new", "running"}]
        BY <1>5 DEF HostAt
    <3>2. host' \in [Recipe -> [task : Nat, stage : {"off", "new", "running"}]]
        BY <1>5, <2>3, <3>1 DEF Ends, Begun
    <3>3. /\ link' \in [Recipe -> {"none", "up", "ended", "failed"}]
          /\ \A q \in Recipe : link'[q] = "none" <=> link[q] = "none"
        BY <1>4, <1>5, <2>3 DEF Ends, Begun
    <3> QED
        BY <1>5, <2>3, <3>2, <3>3 DEF Ends
  <2> QED
      BY <1>1, <2>1, <2>2, <2>3
<1>7. HostTypes'
    BY <1>3, <1>6 DEF HostTypes
<1>8. TypeOK'
  <2>1. /\ \A q \in Recipe : link[q] = "none" <=> conn[q] # "up"
        /\ \A q \in Recipe : conn[q] # "up" => pipe[q] = <<>>
      BY DEF IInv, RecipeSumsUp, TypeOK
  <2>2. /\ \A q \in Recipe : link'[q] = "none" <=> conn'[q] # "up"
        /\ \A q \in Recipe : conn'[q] # "up" => pipe'[q] = <<>>
      BY <1>3, <1>4, <1>6, <2>1 DEF recipeVars
  <2> QED
      BY <1>4, <2>2 DEF IInv, RecipeSumsUp, TypeOK, recipeVars, appVars
<1>9. Idle'
    BY <1>4 DEF IInv, Idle, recipeVars
<1> QED
    BY <1>7, <1>8, <1>9

(* There is a first task to do.                                            *)
LEMMA LeastNatural ==
    ASSUME NEW S \in SUBSET Nat, S # {}
    PROVE  \E n \in S : \A m \in S : n <= m
<1>1. PICK n \in S : \A m \in S : ~(<<m, n>> \in OpToRel(<, Nat))
    BY WFMin, NatLessThanWellFounded
<1>2. \A m \in S : ~(m < n)
    BY <1>1 DEF OpToRel
<1> QED
    BY <1>2

LEMMA FirstTodoBound ==
    ASSUME NEW d, NEW r \in Recipe
    PROVE  /\ FirstTodo(d, r) \in 1 .. Tasks[r] + 1
           /\ FirstTodo(d, r) <= Tasks[r] =>
                 /\ d.status[<<r, FirstTodo(d, r)>>] \notin Final
                 /\ \A i \in 1 .. Tasks[r] :
                       i < FirstTodo(d, r) => d.status[<<r, i>>] \in Final
<1>0. Tasks[r] \in Nat \ {0}
    BY ClientAssumption
<1>1. \A i \in 1 .. Tasks[r] :
         i \in Todo(d, r) <=> d.status[<<r, i>>] \notin Final
    BY DEF Todo, Finished, Final
<1>2. CASE Todo(d, r) = {}
    BY <1>0, <1>2 DEF FirstTodo
<1>3. CASE Todo(d, r) # {}
  <2>1. Todo(d, r) \subseteq Nat /\ Todo(d, r) \subseteq 1 .. Tasks[r]
      BY <1>0 DEF Todo
  <2>2. \E i \in Todo(d, r) : \A j \in Todo(d, r) : i <= j
      BY <1>3, <2>1, LeastNatural
  <2>3. /\ FirstTodo(d, r) \in Todo(d, r)
        /\ \A j \in Todo(d, r) : FirstTodo(d, r) <= j
      BY <1>3, <2>2 DEF FirstTodo
  <2> QED
      BY <1>0, <1>1, <2>1, <2>3
<1> QED
    BY <1>2, <1>3

LEMMA GotTypes ==
    ASSUME HostTypes, NEW d, NEW job
    PROVE  /\ Got(d, job) \in [Job -> SUBSET Results]
           /\ \A t \in Job : Got(d, job)[t] \subseteq owed[t]
           /\ \A t \in job : t \in Job =>
                 \A s \in Got(d, job)[t] : Id(s) <= Id(d.result[t])
BY DEF HostTypes, Got

(* A message is read: what is left in the output.                          *)
LEMMA Leaves ==
    ASSUME HostTypes, NEW r \in Recipe, pipe[r] # <<>>,
           pipe' = [pipe EXCEPT ![r] = Tail(@)]
    PROVE  /\ pipe[r][1] \in MessageType /\ pipe[r][1].task[1] = r
           /\ Head(pipe[r]) = pipe[r][1] /\ 1 \in DOMAIN pipe[r]
           /\ Len(pipe[r]) \in Nat \ {0} /\ Len(pipe'[r]) = Len(pipe[r]) - 1
           /\ DOMAIN pipe[r] = 1 .. Len(pipe[r])
           /\ DOMAIN pipe'[r] = 1 .. Len(pipe[r]) - 1
           /\ \A i \in 1 .. Len(pipe[r]) - 1 : pipe'[r][i] = pipe[r][i + 1]
           /\ \A q \in Recipe \ {r} : pipe'[q] = pipe[q]
           /\ pipe' \in [Recipe -> Seq(MessageType)]
           /\ \A q \in Recipe : \A i \in DOMAIN pipe'[q] :
                 pipe'[q][i].task[1] = q
<1>1. pipe \in [Recipe -> Seq(MessageType)]
    BY DEF HostTypes
<1>2. pipe'[r] = Tail(pipe[r]) /\ pipe[r] \in Seq(MessageType)
    BY <1>1
<1>3. /\ pipe'[r] \in Seq(MessageType) /\ Head(pipe[r]) \in MessageType
      /\ Len(pipe[r]) \in Nat \ {0} /\ Len(pipe'[r]) = Len(pipe[r]) - 1
      /\ DOMAIN pipe[r] = 1 .. Len(pipe[r])
      /\ DOMAIN pipe'[r] = 1 .. Len(pipe[r]) - 1
      /\ Head(pipe[r]) = pipe[r][1]
      /\ \A i \in 1 .. Len(pipe[r]) - 1 : pipe'[r][i] = pipe[r][i + 1]
  <2>1. PICK s : s = pipe[r]
      OBVIOUS
  <2>2. s \in Seq(MessageType) /\ s # <<>> /\ pipe'[r] = Tail(s)
      BY <1>2, <2>1
  <2>3. /\ Tail(s) \in Seq(MessageType) /\ Head(s) \in MessageType
        /\ Len(s) \in Nat \ {0} /\ Len(Tail(s)) = Len(s) - 1
        /\ DOMAIN s = 1 .. Len(s)
        /\ DOMAIN Tail(s) = 1 .. Len(s) - 1
        /\ Head(s) = s[1]
        /\ \A i \in 1 .. Len(s) - 1 : Tail(s)[i] = s[i + 1]
      BY <2>2, Taken
  <2> QED
      BY <2>1, <2>2, <2>3
<1>4. \A q \in Recipe \ {r} : pipe'[q] = pipe[q]
    BY <1>1
<1>5. pipe' \in [Recipe -> Seq(MessageType)]
    BY <1>1, <1>2, <1>3
<1>6. ASSUME NEW q \in Recipe, NEW i \in DOMAIN pipe'[q]
      PROVE  pipe'[q][i].task[1] = q
  <2>1. \A j \in DOMAIN pipe[q] : pipe[q][j].task[1] = q
      BY DEF HostTypes
  <2>2. CASE q = r
      BY <1>3, <2>1, <2>2
  <2>3. CASE q # r
      BY <1>4, <2>1, <2>3
  <2> QED
      BY <2>2, <2>3
<1>7. 1 \in DOMAIN pipe[r]
    BY <1>3
<1>8. pipe[r][1].task[1] = r
    BY <1>7 DEF HostTypes
<1> QED
    BY <1>3, <1>4, <1>5, <1>6, <1>7, <1>8

(* What reading message m does to the XML.                                 *)
ReadsStatus(m) ==
    /\ m.kind = "status" /\ m.value \in {"Running"} \cup Final
    /\ doc'.status = [doc.status EXCEPT ![m.task] = m.value]
    /\ doc'.result = doc.result /\ saved' = doc' /\ started' = TRUE
    /\ timer' = timer
ReadsResult(m) ==
    /\ m.kind = "result" /\ m.value \in Results
    /\ doc'.status = doc.status
    /\ \A t \in Job : Id(doc'.result[t]) >= Id(doc.result[t])
    /\ Id(doc'.result[m.task]) >= Id(m.value)
    /\ \A t \in Job \ {m.task} : doc'.result[t] = doc.result[t]
    /\ saved' = saved /\ started' = TRUE /\ timer' = timer
ReadsWatchdog(m) ==
    /\ m.kind = "watchdog"
    /\ doc' = doc /\ saved' = saved /\ started' = started
    /\ timer' = [timer EXCEPT ![m.task[1]] = TRUE]

LEMMA Reads ==
    ASSUME IInv, NEW r \in Recipe, ReadMessage(r)
    PROVE  LET m == pipe[r][1]
           IN /\ m \in MessageType /\ m.task \in JobOf(r) /\ m.task \in Job
              /\ m.task[1] = r /\ pipe[r] # <<>> /\ 1 \in DOMAIN pipe[r]
              /\ pipe' = [pipe EXCEPT ![r] = Tail(@)]
              /\ doc.status[m.task] \notin Final
              /\ doc' \in Doc /\ SumsUp(doc')
              /\ ReadsStatus(m) \/ ReadsResult(m) \/ ReadsWatchdog(m)
              /\ Running /\ conn[r] = "up"
              /\ UNCHANGED <<main, error, conn, cancelled, link, host, owed,
                             events>>
              /\ retries' = 0
<1> DEFINE m == pipe[r][1]
<1>1. /\ pipe[r] # <<>> /\ pipe' = [pipe EXCEPT ![r] = Tail(@)]
      /\ HostTypes
    BY DEF ReadMessage, IInv
<1>2. m \in MessageType /\ m.task[1] = r /\ Head(pipe[r]) = m /\ 1 \in DOMAIN pipe[r]
    BY <1>1, Leaves
<1>3. m.task \in Job /\ m.task \in JobOf(r)
    BY <1>2, JobOfSplit DEF MessageType
<1>4. doc.status[m.task] \notin Final
    BY <1>2 DEF IInv, Orders, Printed, PrintedBy
<1>5. doc \in Doc /\ SumsUp(doc)
    BY DEF IInv, RecipeSumsUp, TypeOK
<1>6. /\ doc' \in Doc /\ SumsUp(doc')
      /\ ReadsStatus(m) \/ ReadsResult(m) \/ ReadsWatchdog(m)
  <2>1. CASE m.kind = "status" /\ StatusCallback(m.task, m.value)
    <3>1. m.value \in {"Running"} \cup Final
        BY <1>2, <2>1 DEF MessageType
    <3>2. /\ doc' = StatusSet(doc, m.task, m.value) /\ saved' = doc'
          /\ started' = TRUE /\ timer' = timer
        BY <2>1 DEF StatusCallback
    <3>3. /\ doc' \in Doc /\ SumsUp(doc')
          /\ doc'.status = [doc.status EXCEPT ![m.task] = m.value]
          /\ doc'.result = doc.result
      <4> HIDE DEF m
      <4>1. ASSUME NEW t \in Job, doc.status[t] \notin Final,
                   NEW status \in {"Running"} \cup Final
            PROVE  /\ StatusSet(doc, t, status) \in Doc
                   /\ SumsUp(StatusSet(doc, t, status))
                   /\ StatusSet(doc, t, status).result = doc.result
                   /\ StatusSet(doc, t, status).status
                          = [doc.status EXCEPT ![t] = status]
          BY <1>5, <4>1, StatusSumsUp
      <4> QED
          BY <1>3, <1>4, <3>1, <3>2, <4>1, Zenon
    <3> QED
        BY <2>1, <3>1, <3>2, <3>3 DEF ReadsStatus
  <2>2. CASE m.kind = "result" /\ ResultsCallback(m.task, m.value)
    <3>1. m.value \in Results
        BY <1>2, <2>2 DEF MessageType
    <3>2. /\ doc' = Recorded(doc, m.task, m.value) /\ saved' = saved
          /\ started' = TRUE /\ timer' = timer
        BY <2>2 DEF ResultsCallback
    <3>3. /\ doc' \in Doc /\ SumsUp(doc')
          /\ doc'.status = doc.status
          /\ \A t \in Job : Id(doc'.result[t]) >= Id(doc.result[t])
          /\ Id(doc'.result[m.task]) >= Id(m.value)
          /\ \A t \in Job \ {m.task} : doc'.result[t] = doc.result[t]
      <4> HIDE DEF m
      <4> QED
          BY <1>3, <1>4, <1>5, <3>1, <3>2, RecordedSumsUp
    <3> QED
        BY <2>2, <3>1, <3>2, <3>3 DEF ReadsResult
  <2>3. CASE m.kind = "watchdog" /\ WatchdogCallback(r)
      BY <1>2, <1>5, <2>3 DEF WatchdogCallback, ReadsWatchdog
  <2> QED
      BY <1>2, <2>1, <2>2, <2>3 DEF ReadMessage
<1> QED
    BY <1>1, <1>2, <1>3, <1>4, <1>6 DEF ReadMessage

(* The types of the next state, action by action.                          *)
LEMMA Bounds == MaxRetries \in Nat /\ \A r \in Recipe : Tasks[r] \in Nat
BY ClientAssumption

Typed == RecipeSumsUp /\ HostTypes /\ Idle

LEMMA LinkTypes ==
    ASSUME IInv
    PROVE  /\ \A r \in Recipe : link[r] = "none" <=> conn[r] # "up"
           /\ \A r \in Recipe : conn[r] # "up" => pipe[r] = <<>>
           /\ link \in [Recipe -> {"none", "up", "ended", "failed"}]
           /\ host \in [Recipe -> [task : Nat, stage : {"off", "new", "running"}]]
           /\ conn \in [Recipe -> {"idle", "up", "waiting", "finished"}]
           /\ cancelled \in [Recipe -> BOOLEAN] /\ timer \in [Recipe -> BOOLEAN]
           /\ doc \in Doc /\ saved \in Doc /\ SumsUp(doc) /\ SumsUp(saved)
           /\ HostTypes
BY DEF IInv, RecipeSumsUp, TypeOK, HostTypes

LEMMA SendTyped ==
    ASSUME IInv, NEW r \in Recipe,
           HostStarts(r) \/ HostReports(r) \/ HostEnds(r)
    PROVE  Typed'
<1>1. PICK m : Sends(r, m)
    BY HostSends
<1>2. UNCHANGED <<doc, saved>>
    BY <1>1 DEF Sends, appVars
<1>3. SumsUp(doc) /\ SumsUp(saved)
    BY LinkTypes
<1>4. SumsUp(doc') /\ SumsUp(saved')
    BY <1>2, <1>3
<1> QED
    BY <1>4, SendTypes DEF Typed, RecipeSumsUp

LEMMA DropTyped ==
    ASSUME IInv, NEW r \in Recipe, Drop(r) \/ WatchdogTimeout(r)
    PROVE  Typed'
<1>1. UNCHANGED <<main, doc, saved, started, retries, conn, pipe, host, owed>>
    BY DEF Drop, WatchdogTimeout, appVars, recipeVars
<1>2. /\ link' \in [Recipe -> {"none", "up", "ended", "failed"}]
      /\ \A q \in Recipe : link'[q] = "none" <=> link[q] = "none"
    BY LinkTypes DEF Drop, WatchdogTimeout, Cancelled
<1>3. /\ cancelled' \in [Recipe -> BOOLEAN] /\ timer' \in [Recipe -> BOOLEAN]
      /\ error' \in {error, "watchdog"}
    BY LinkTypes DEF Drop, WatchdogTimeout, Cancelled, recipeVars, appVars
<1>4. events' \in Nat
    BY LinkTypes DEF Drop, WatchdogTimeout, HostTypes
<1>5. HostTypes'
    BY <1>1, <1>2, <1>4, LinkTypes DEF HostTypes
<1>6. Idle'
    BY <1>1 DEF IInv, Idle
<1>7. TypeOK'
    BY <1>1, <1>2, <1>3 DEF IInv, RecipeSumsUp, TypeOK
<1>8. SumsUp(doc') /\ SumsUp(saved')
    BY <1>1, LinkTypes
<1> QED
    BY <1>5, <1>6, <1>7, <1>8 DEF Typed, RecipeSumsUp

LEMMA BeginsAt ==
    ASSUME IInv, NEW r \in Recipe, RunRecipe(r)
    PROVE  /\ conn' = [conn EXCEPT ![r] = "up"] /\ conn[r] # "up"
           /\ pipe[r] = <<>> /\ Running
           /\ UNCHANGED <<main, appVars, cancelled, timer, pipe, owed, events>>
           /\ link' \in [Recipe -> {"none", "up", "ended", "failed"}]
           /\ host' \in [Recipe -> [task : Nat, stage : {"off", "new", "running"}]]
           /\ \A q \in Recipe \ {r} : link'[q] = link[q] /\ host'[q] = host[q]
           /\ link'[r] # "none"
           /\ link'[r] = "up" => /\ host'[r].task = FirstTodo(doc, r)
                                 /\ FirstTodo(doc, r) <= Tasks[r]
<1>1. /\ conn[r] # "up" /\ conn' = [conn EXCEPT ![r] = "up"] /\ Running
      /\ UNCHANGED <<main, appVars, cancelled, timer, pipe, owed, events>>
    BY DEF RunRecipe
<1>2. pipe[r] = <<>>
    BY <1>1, LinkTypes
<1>3. CASE link' = [link EXCEPT ![r] = "failed"] /\ UNCHANGED host
    BY <1>1, <1>2, <1>3, LinkTypes
<1>4. CASE \E stage \in {"new", "running"} : Begun(r, FirstTodo(doc, r), stage)
  <2> DEFINE k == FirstTodo(doc, r)
  <2>1. PICK stage \in {"new", "running"} : Begun(r, k, stage)
      BY <1>4
  <2>2. k \in Nat /\ Tasks[r] \in Nat
    <3>1. Tasks[r] \in Nat
        BY Bounds
    <3>2. k \in 1 .. Tasks[r] + 1
        BY FirstTodoBound, Zenon
    <3> QED
        BY <3>1, <3>2
  <2>3. /\ host' = [host EXCEPT ![r] = HostAt(k, stage)]
        /\ link' = [link EXCEPT ![r] = IF k > Tasks[r] THEN "ended" ELSE "up"]
      BY <2>1 DEF Begun
  <2>4. /\ HostAt(k, stage) \in [task : Nat, stage : {"off", "new", "running"}]
        /\ HostAt(k, stage).task = k
      BY <2>2 DEF HostAt
  <2>5. /\ host' \in [Recipe -> [task : Nat, stage : {"off", "new", "running"}]]
        /\ host'[r].task = k
        /\ \A q \in Recipe \ {r} : host'[q] = host[q]
      BY <2>3, <2>4, LinkTypes
  <2>6. /\ link' \in [Recipe -> {"none", "up", "ended", "failed"}]
        /\ \A q \in Recipe \ {r} : link'[q] = link[q]
        /\ link'[r] # "none"
        /\ link'[r] = "up" => k <= Tasks[r]
      BY <2>2, <2>3, LinkTypes
  <2> QED
      BY <1>1, <1>2, <2>5, <2>6
<1> QED
    BY <1>3, <1>4 DEF RunRecipe

LEMMA RunTyped ==
    ASSUME IInv, NEW r \in Recipe, RunRecipe(r)
    PROVE  Typed'
<1>1. UNCHANGED <<main, doc, saved, started, retries, error, cancelled, timer,
                  pipe, owed, events>>
    BY BeginsAt DEF appVars
<1>2. HostTypes'
    BY <1>1, BeginsAt, LinkTypes DEF HostTypes
<1>3. Idle'
    BY <1>1, BeginsAt DEF IInv, Idle, Running
<1>4. /\ conn' \in [Recipe -> {"idle", "up", "waiting", "finished"}]
      /\ \A q \in Recipe : link'[q] = "none" <=> conn'[q] # "up"
      /\ \A q \in Recipe : conn'[q] # "up" => pipe'[q] = <<>>
  <2>1. /\ conn' = [conn EXCEPT ![r] = "up"] /\ link'[r] # "none"
        /\ \A q \in Recipe \ {r} : link'[q] = link[q]
      BY BeginsAt
  <2>2. /\ \A q \in Recipe : link[q] = "none" <=> conn[q] # "up"
        /\ \A q \in Recipe : conn[q] # "up" => pipe[q] = <<>>
        /\ conn \in [Recipe -> {"idle", "up", "waiting", "finished"}]
      BY LinkTypes
  <2> QED
      BY <1>1, <2>1, <2>2
<1>5. TypeOK'
    BY <1>1, <1>4 DEF IInv, RecipeSumsUp, TypeOK
<1>6. SumsUp(doc') /\ SumsUp(saved')
    BY <1>1, LinkTypes
<1> QED
    BY <1>2, <1>3, <1>5, <1>6 DEF Typed, RecipeSumsUp

LEMMA ReadTyped ==
    ASSUME IInv, NEW r \in Recipe, ReadMessage(r)
    PROVE  Typed'
<1> DEFINE m == pipe[r][1]
<1>1. /\ pipe[r] # <<>> /\ pipe' = [pipe EXCEPT ![r] = Tail(@)]
      /\ doc' \in Doc /\ SumsUp(doc')
      /\ ReadsStatus(m) \/ ReadsResult(m) \/ ReadsWatchdog(m)
      /\ Running /\ conn[r] = "up" /\ m.task[1] = r
      /\ UNCHANGED <<main, error, conn, cancelled, link, host, owed, events>>
      /\ retries' = 0
    BY Reads
<1>2. /\ pipe' \in [Recipe -> Seq(MessageType)]
      /\ \A q \in Recipe : \A i \in DOMAIN pipe'[q] : pipe'[q][i].task[1] = q
      /\ \A q \in Recipe \ {r} : pipe'[q] = pipe[q]
    BY <1>1, LinkTypes, Leaves
<1>3. HostTypes'
    BY <1>1, <1>2, LinkTypes DEF HostTypes
<1>4. Idle'
    BY <1>1 DEF Idle, IInv
<1>5. saved' \in Doc /\ SumsUp(saved')
  <2>1. saved' = saved \/ saved' = doc'
      BY <1>1 DEF ReadsStatus, ReadsResult, ReadsWatchdog
  <2> QED
      BY <1>1, <2>1, LinkTypes
<1>6. /\ started' \in BOOLEAN
      /\ timer' \in [Recipe -> BOOLEAN]
  <2>1. started \in BOOLEAN /\ timer \in [Recipe -> BOOLEAN]
      BY DEF IInv, RecipeSumsUp, TypeOK
  <2>2. /\ started' = TRUE \/ started' = started
        /\ timer' = timer \/ timer' = [timer EXCEPT ![r] = TRUE]
    <3> HIDE DEF m
    <3> QED
        BY <1>1 DEF ReadsStatus, ReadsResult, ReadsWatchdog
  <2> QED
      BY <2>1, <2>2
<1>7. retries' \in 0 .. MaxRetries
    BY <1>1, Bounds
<1>8. TypeOK'
  <2>1. /\ \A q \in Recipe : link'[q] = "none" <=> conn'[q] # "up"
        /\ \A q \in Recipe : conn'[q] # "up" => pipe'[q] = <<>>
      BY <1>1, <1>2, LinkTypes
  <2> QED
      BY <1>1, <1>5, <1>6, <1>7, <2>1 DEF IInv, RecipeSumsUp, TypeOK
<1> QED
    BY <1>1, <1>3, <1>4, <1>5, <1>8 DEF Typed, RecipeSumsUp

(* What the end of a process does.                                         *)
LEMMA Finishes ==
    ASSUME IInv, NEW r \in Recipe, ProcessFinish(r)
    PROVE  /\ Running /\ conn[r] = "up"
           /\ link' = [link EXCEPT ![r] = "none"]
           /\ pipe' = [pipe EXCEPT ![r] = <<>>]
           /\ host' = [host EXCEPT ![r] = NoHost]
           /\ owed' = Got(doc, JobOf(r))
           /\ UNCHANGED <<saved, started, cancelled, timer, events>>
           /\ doc' \in Doc /\ SumsUp(doc') /\ doc'.result = doc.result
           /\ \A t \in Job : \/ doc'.status[t] = doc.status[t]
                             \/ t \in JobOf(r) /\ doc.status[t] \notin Final
           /\ \A t \in Job : t[1] # r => doc'.status[t] = doc.status[t]
           /\ \/ /\ doc' = doc /\ UNCHANGED <<main, error>>
                 /\ conn' = [conn EXCEPT ![r] = "waiting"]
                 /\ retries < MaxRetries /\ retries' = retries + 1
              \/ /\ \A t \in JobOf(r) : doc'.status[t] \in Final
                 /\ conn' = [conn EXCEPT ![r] = "finished"]
                 /\ error' \in {error, "connection", "result", "none"}
                 /\ error' = "none" => ~Failed(doc, r) /\ error = "none"
                 /\ main' \in {main, "quitting"} /\ retries' = retries
<1>1. /\ Running /\ conn[r] = "up"
      /\ link' = [link EXCEPT ![r] = "none"]
      /\ pipe' = [pipe EXCEPT ![r] = <<>>]
      /\ host' = [host EXCEPT ![r] = NoHost]
      /\ owed' = Got(doc, JobOf(r))
      /\ UNCHANGED <<saved, started, cancelled, timer, events>>
    BY DEF ProcessFinish
<1>2. doc \in Doc /\ SumsUp(doc)
    BY LinkTypes
<1>3. CASE Retry(r)
  <2>1. /\ doc' = doc /\ UNCHANGED <<main, error>>
        /\ conn' = [conn EXCEPT ![r] = "waiting"]
        /\ retries < MaxRetries /\ retries' = retries + 1
      BY <1>3 DEF Retry, MayRetry
  <2> QED
      BY <1>1, <1>2, <2>1
<1>4. CASE RecipeFinish(r)
  <2>1. doc' = Closed(doc, r)
      BY <1>4 DEF RecipeFinish
  <2>2. /\ conn' = [conn EXCEPT ![r] = "finished"]
        /\ error' \in {error, "connection", "result", "none"}
        /\ error' = "none" => ~Failed(doc, r) /\ error = "none"
        /\ main' \in {main, "quitting"} /\ retries' = retries
      BY <1>4 DEF RecipeFinish
  <2>3. /\ doc' \in Doc /\ SumsUp(doc') /\ doc'.result = doc.result
        /\ \A t \in JobOf(r) : doc'.status[t] \in Final
        /\ \A t \in Job : \/ doc'.status[t] = doc.status[t]
                          \/ t \in JobOf(r) /\ doc.status[t] \notin Final
        /\ \A t \in Job : t[1] # r => doc'.status[t] = doc.status[t]
      BY <1>2, <2>1, ClosedSumsUp
  <2> QED
      BY <1>1, <2>2, <2>3
<1> QED
    BY <1>3, <1>4 DEF ProcessFinish

LEMMA FinishTyped ==
    ASSUME IInv, NEW r \in Recipe, ProcessFinish(r)
    PROVE  Typed'
<1>0. /\ link' = [link EXCEPT ![r] = "none"]
      /\ pipe' = [pipe EXCEPT ![r] = <<>>]
      /\ host' = [host EXCEPT ![r] = NoHost]
      /\ conn' = [conn EXCEPT ![r] = "waiting"]
            \/ conn' = [conn EXCEPT ![r] = "finished"]
    BY Finishes
<1>10. /\ link \in [Recipe -> {"none", "up", "ended", "failed"}]
      /\ host \in [Recipe -> [task : Nat, stage : {"off", "new", "running"}]]
      /\ conn \in [Recipe -> {"idle", "up", "waiting", "finished"}]
      /\ pipe \in [Recipe -> Seq(MessageType)]
      /\ \A q \in Recipe : \A i \in DOMAIN pipe[q] : pipe[q][i].task[1] = q
    BY LinkTypes DEF HostTypes
<1>1. \A q \in Recipe \ {r} : pipe'[q] = pipe[q] /\ link'[q] = link[q]
    BY <1>0, <1>10
<1>2. pipe'[r] = <<>> /\ link'[r] = "none" /\ DOMAIN pipe'[r] = {}
    BY <1>0, <1>10
<1>3. HostTypes'
  <2>1. pipe' \in [Recipe -> Seq(MessageType)]
      BY <1>0, <1>10, EmptySeq
  <2>2. \A q \in Recipe : \A i \in DOMAIN pipe'[q] : pipe'[q][i].task[1] = q
      BY <1>1, <1>2, <1>10
  <2>3. /\ link' \in [Recipe -> {"none", "up", "ended", "failed"}]
        /\ host' \in [Recipe -> [task : Nat, stage : {"off", "new", "running"}]]
      BY <1>0, <1>10 DEF NoHost
  <2>4. owed' \in [Job -> SUBSET Results] /\ events' \in Nat
      BY Finishes, LinkTypes, GotTypes DEF HostTypes
  <2> QED
      BY <2>1, <2>2, <2>3, <2>4 DEF HostTypes
<1>4. /\ conn' \in [Recipe -> {"idle", "up", "waiting", "finished"}]
      /\ \A q \in Recipe \ {r} : conn'[q] = conn[q]
      /\ conn'[r] # "up"
    BY <1>0, <1>10
<1>5. main' \in {main, "quitting"} /\ error' \in {error, "connection", "result", "none"}
    BY Finishes
<1>6. Idle'
    BY <1>5, Finishes DEF Idle, Running
<1>7. retries' \in 0 .. MaxRetries
  <2>1. retries \in 0 .. MaxRetries /\ MaxRetries \in Nat
      BY Bounds DEF IInv, RecipeSumsUp, TypeOK
  <2>2. \/ retries' = retries
        \/ retries < MaxRetries /\ retries' = retries + 1
      BY Finishes
  <2> QED
      BY <2>1, <2>2
<1>8. TypeOK'
  <2>1. /\ \A q \in Recipe : link'[q] = "none" <=> conn'[q] # "up"
        /\ \A q \in Recipe : conn'[q] # "up" => pipe'[q] = <<>>
      BY <1>1, <1>2, <1>4, LinkTypes
  <2>2. doc' \in Doc /\ UNCHANGED <<saved, started, cancelled, timer>>
      BY Finishes
  <2> QED
      BY <1>4, <1>5, <1>7, <2>1, <2>2 DEF IInv, RecipeSumsUp, TypeOK
<1>9. SumsUp(doc') /\ SumsUp(saved')
    BY Finishes, LinkTypes
<1> QED
    BY <1>3, <1>6, <1>8, <1>9 DEF Typed, RecipeSumsUp

LEMMA LoopTyped ==
    ASSUME IInv, QuitLoop \/ UNCHANGED vars
    PROVE  Typed'
<1>1. /\ UNCHANGED <<doc, started, retries, error, conn, cancelled, timer, link,
                     pipe, host, owed, events>>
      /\ main' = main \/ main' = "exited"
      /\ saved' = saved \/ saved' = doc
    BY DEF QuitLoop, vars, appVars, recipeVars, hostVars
<1>2. saved' \in Doc /\ SumsUp(saved') /\ SumsUp(doc')
    BY <1>1, LinkTypes
<1>3. HostTypes'
    BY <1>1, LinkTypes DEF HostTypes
<1>4. Idle'
    BY <1>1 DEF IInv, Idle
<1>5. TypeOK'
    BY <1>1, <1>2 DEF IInv, RecipeSumsUp, TypeOK
<1> QED
    BY <1>2, <1>3, <1>4, <1>5 DEF Typed, RecipeSumsUp

LEMMA KillTyped ==
    ASSUME IInv, Kill
    PROVE  Typed'
<1>1. /\ \A r \in Recipe : conn'[r] = "idle" /\ link'[r] = "none" /\ pipe'[r] = <<>>
      /\ conn' \in [Recipe -> {"idle", "up", "waiting", "finished"}]
      /\ link' \in [Recipe -> {"none", "up", "ended", "failed"}]
      /\ host' \in [Recipe -> [task : Nat, stage : {"off", "new", "running"}]]
      /\ pipe' \in [Recipe -> Seq(MessageType)]
    BY EmptySeq DEF Kill, NoHost
<1>2. owed' \in [Job -> SUBSET Results] /\ events' \in Nat
    BY LinkTypes, GotTypes DEF Kill, HostTypes
<1>3. /\ main' = "killed"
      /\ UNCHANGED <<doc, saved, started, retries, error, cancelled, timer>>
    BY DEF Kill, appVars
<1>4. HostTypes' /\ Idle'
  <2>1. \A r \in Recipe : DOMAIN pipe'[r] = {}
      BY <1>1
  <2> QED
      BY <1>1, <1>2, <2>1 DEF HostTypes, Idle
<1>5. TypeOK'
    BY <1>1, <1>3 DEF IInv, RecipeSumsUp, TypeOK
<1>6. SumsUp(doc') /\ SumsUp(saved')
    BY <1>3, LinkTypes
<1> QED
    BY <1>4, <1>5, <1>6 DEF Typed, RecipeSumsUp

LEMMA RestartTyped ==
    ASSUME IInv, Restart
    PROVE  Typed'
<1>1. /\ main' \in {"nothing to do", "running"} /\ main = "killed"
      /\ doc' = saved /\ started' = FALSE /\ retries' = 0 /\ error' = "none"
      /\ UNCHANGED <<saved, conn, link, pipe, host, owed, events>>
    BY DEF Restart, hostVars
<1>2. cancelled' \in [Recipe -> BOOLEAN] /\ timer' \in [Recipe -> BOOLEAN]
    BY DEF Restart
<1>3. HostTypes'
    BY <1>1, LinkTypes DEF HostTypes
<1>4. Idle'
    BY <1>1 DEF IInv, Idle
<1>5. retries' \in 0 .. MaxRetries
  <2>1. retries' = 0 /\ MaxRetries \in Nat
      BY <1>1, Bounds
  <2> QED
      BY <2>1
<1>8. started' \in BOOLEAN
    BY <1>1
<1>6. TypeOK'
    BY <1>1, <1>2, <1>5, <1>8 DEF IInv, RecipeSumsUp, TypeOK
<1>7. SumsUp(doc') /\ SumsUp(saved')
    BY <1>1, LinkTypes
<1> QED
    BY <1>3, <1>4, <1>6, <1>7 DEF Typed, RecipeSumsUp

-----------------------------------------------------------------------------
(* The order.                                                              *)
OrderedAt(r) == PrintedBy(r) /\ AtTaskOf(r)

LEMMA JobAt ==
    ASSUME NEW r \in Recipe, NEW t \in JobOf(r)
    PROVE  t \in Job /\ t[1] = r /\ t[2] \in Nat
BY Bounds DEF JobOf, Job

(* The messages of a host are about the tasks of its recipe.               *)
LEMMA MessageAbout ==
    ASSUME IInv, NEW r \in Recipe, NEW i \in DOMAIN pipe[r]
    PROVE  /\ pipe[r][i] \in MessageType /\ pipe[r][i].task \in JobOf(r)
           /\ pipe[r][i].task \in Job
           /\ pipe[r][i].task[1] = r /\ pipe[r][i].task[2] \in Nat
           /\ DOMAIN pipe[r] = 1 .. Len(pipe[r]) /\ Len(pipe[r]) \in Nat
<1>1. pipe[r] \in Seq(MessageType) /\ pipe[r][i].task[1] = r
    BY LinkTypes DEF HostTypes
<1>2. /\ pipe[r][i] \in MessageType
      /\ DOMAIN pipe[r] = 1 .. Len(pipe[r]) /\ Len(pipe[r]) \in Nat
    BY <1>1, LenProperties
<1>3. pipe[r][i].task \in Job
    BY <1>2 DEF MessageType
<1> QED
    BY <1>1, <1>2, <1>3, JobOfSplit, JobAt

LEMMA OrderedNow ==
    ASSUME IInv, NEW r \in Recipe
    PROVE  OrderedAt(r) /\ InOrder(doc) /\ InOrder(saved)
BY DEF IInv, Orders, Printed, AtTask, OrderedAt

(* What a step does to the other recipes does not disturb this one.        *)
LEMMA Untouched ==
    ASSUME IInv, NEW r \in Recipe, pipe'[r] = pipe[r],
           \A t \in JobOf(r) : doc'.status[t] = doc.status[t],
           link'[r] = "up" => link[r] = "up" /\ host'[r] = host[r]
    PROVE  OrderedAt(r)'
<1>1. OrderedAt(r)
    BY OrderedNow
<1>2. \A t \in JobOf(r) : \A n : EndRead(t, n)' <=> EndRead(t, n)
    BY JobAt DEF EndRead
<1>3. PrintedBy(r)'
    BY <1>1, <1>2, MessageAbout DEF OrderedAt, PrintedBy
<1>4. AtTaskOf(r)'
  <2> SUFFICES ASSUME link'[r] = "up" PROVE AtTaskOf(r)'
      BY DEF AtTaskOf
  <2>1. link[r] = "up" /\ host'[r] = host[r]
      OBVIOUS
  <2>2. host[r].task \in 1 .. Tasks[r]
      BY <1>1, <2>1 DEF OrderedAt, AtTaskOf
  <2>3. <<r, host[r].task>> \in JobOf(r)
      BY <2>2, JobFacts
  <2> QED
      BY <1>1, <1>2, <2>1, <2>3 DEF OrderedAt, AtTaskOf
<1> QED
    BY <1>3, <1>4 DEF OrderedAt

LEMMA Emptied ==
    ASSUME NEW r \in Recipe, pipe'[r] = <<>>, link'[r] # "up"
    PROVE  OrderedAt(r)'
BY DEF OrderedAt, PrintedBy, AtTaskOf

LEMMA SendOrdered ==
    ASSUME IInv, NEW r \in Recipe, NEW m, Sends(r, m), Says(r, m),
           \/ /\ ~IsFinal(m) /\ link' = link
              /\ host'[r].task = host[r].task
           \/ /\ IsFinal(m)
              /\ link'[r] = "up" => /\ host'[r].task = host[r].task + 1
                                    /\ host[r].task + 1 <= Tasks[r]
    PROVE  OrderedAt(r)'
<1> DEFINE k == host[r].task
<1>0. PICK n : n = Len(pipe[r])
    OBVIOUS
<1>1. /\ m \in MessageType /\ m.task = <<r, k>>
      /\ k \in 1 .. Tasks[r] /\ m.task \in JobOf(r)
      /\ pipe' = [pipe EXCEPT ![r] = Append(@, m)]
      /\ HostTypes /\ m.task[1] = r /\ m.task[2] = k
    BY SentTypes
<1>2. /\ n \in Nat /\ DOMAIN pipe[r] = 1 .. n
      /\ Len(pipe'[r]) = n + 1 /\ DOMAIN pipe'[r] = 1 .. n + 1
      /\ \A i \in 1 .. n : pipe'[r][i] = pipe[r][i]
      /\ pipe'[r][n + 1] = m
  <2>1. HostTypes /\ m \in MessageType /\ m.task[1] = r
        /\ pipe' = [pipe EXCEPT ![r] = Append(@, m)]
      BY <1>1
  <2>2. /\ pipe[r] \in Seq(MessageType)
        /\ pipe'[r] = Append(pipe[r], m)
      BY <2>1 DEF HostTypes
  <2> QED
      BY <1>0, <2>1, <2>2, Appended
<1>3. link[r] = "up" /\ doc' = doc /\ Tasks[r] \in Nat
    BY Bounds DEF Sends, appVars
<1>4. /\ doc.status[<<r, k>>] \notin Final
      /\ \A t \in JobOf(r) : t[2] < k =>
            doc.status[t] \in Final \/ EndRead(t, n)
      /\ \A i \in 1 .. n : /\ pipe[r][i].task[2] <= k
                           /\ IsFinal(pipe[r][i]) => pipe[r][i].task[2] < k
    BY <1>0, <1>2, <1>3, OrderedNow DEF OrderedAt, AtTaskOf
<1>5. \A i \in 1 .. n :
         /\ doc.status[pipe[r][i].task] \notin Final
         /\ \A t \in JobOf(r) :
               t[2] < pipe[r][i].task[2] => doc.status[t] \in Final \/ EndRead(t, i)
         /\ \A j \in 1 .. n :
               /\ i < j => pipe[r][i].task[2] <= pipe[r][j].task[2]
               /\ i < j /\ IsFinal(pipe[r][i])
                     => pipe[r][i].task[2] < pipe[r][j].task[2]
    BY <1>2, OrderedNow DEF OrderedAt, PrintedBy
<1>6. ASSUME NEW t \in JobOf(r), NEW i \in 1 .. n + 1, NEW j \in Nat, j <= i,
             EndRead(t, j)
      PROVE  EndRead(t, i)'
  <2>1. t[1] = r
      BY JobAt
  <2>2. PICK h \in DOMAIN pipe[r] :
            h <= j /\ IsFinal(pipe[r][h]) /\ pipe[r][h].task = t
      BY <1>6, <2>1 DEF EndRead
  <2>3. h \in DOMAIN pipe'[r] /\ pipe'[r][h] = pipe[r][h] /\ h <= i
      BY <1>2, <1>6, <2>2
  <2> QED
      BY <2>1, <2>2, <2>3 DEF EndRead
<1>7. PrintedBy(r)'
  <2>1. ASSUME NEW i \in 1 .. n
        PROVE  /\ doc'.status[pipe'[r][i].task] \notin Final
               /\ \A t \in JobOf(r) : t[2] < pipe'[r][i].task[2]
                     => doc'.status[t] \in Final \/ EndRead(t, i)'
               /\ \A j \in 1 .. n + 1 :
                     /\ i < j => pipe'[r][i].task[2] <= pipe'[r][j].task[2]
                     /\ i < j /\ IsFinal(pipe'[r][i])
                           => pipe'[r][i].task[2] < pipe'[r][j].task[2]
    <3>1. pipe'[r][i] = pipe[r][i]
        BY <1>2
    <3>2. /\ doc'.status[pipe'[r][i].task] \notin Final
          /\ \A t \in JobOf(r) : t[2] < pipe'[r][i].task[2]
                => doc'.status[t] \in Final \/ EndRead(t, i)'
        BY <1>3, <1>5, <1>6, <1>2, <3>1
    <3>3. ASSUME NEW j \in 1 .. n + 1
          PROVE  /\ i < j => pipe'[r][i].task[2] <= pipe'[r][j].task[2]
                 /\ i < j /\ IsFinal(pipe'[r][i])
                       => pipe'[r][i].task[2] < pipe'[r][j].task[2]
      <4>1. CASE j = n + 1
          BY <1>1, <1>2, <1>4, <3>1, <4>1
      <4>2. CASE j # n + 1
        <5>1. j \in 1 .. n /\ pipe'[r][j] = pipe[r][j]
            BY <1>2, <4>2
        <5> QED
            BY <1>5, <3>1, <5>1
      <4> QED
          BY <4>1, <4>2
    <3> QED
        BY <3>2, <3>3
  <2>2. /\ doc'.status[pipe'[r][n + 1].task] \notin Final
        /\ \A t \in JobOf(r) : t[2] < pipe'[r][n + 1].task[2]
              => doc'.status[t] \in Final \/ EndRead(t, n + 1)'
    <3>1. \A t \in JobOf(r) : t[2] < k
              => doc'.status[t] \in Final \/ EndRead(t, n + 1)'
        BY <1>2, <1>3, <1>4, <1>6
    <3> QED
        BY <1>1, <1>2, <1>3, <1>4, <3>1
  <2>3. \A j \in 1 .. n + 1 : ~(n + 1 < j)
      BY <1>2
  <2>4. \A i \in 1 .. n + 1 : i \in 1 .. n \/ i = n + 1
      BY <1>2
  <2> QED
      BY <1>2, <2>1, <2>2, <2>3, <2>4 DEF PrintedBy
<1>8. \A t \in JobOf(r) : t[2] < k =>
         doc'.status[t] \in Final \/ EndRead(t, n + 1)'
    BY <1>2, <1>3, <1>4, <1>6
<1>11. \A t : EndRead(t, Len(pipe[r]))' <=> EndRead(t, n + 1)'
    BY <1>2 DEF EndRead
<1>9. CASE ~IsFinal(m) /\ link' = link /\ host'[r].task = host[r].task
  <2>1. ASSUME NEW i \in DOMAIN pipe'[r]
        PROVE  /\ pipe'[r][i].task[2] <= k
               /\ IsFinal(pipe'[r][i]) => pipe'[r][i].task[2] < k
    <3>1. CASE i \in 1 .. n
        BY <1>2, <1>4, <3>1
    <3>2. CASE i = n + 1
        BY <1>1, <1>2, <1>9, <3>2
    <3> QED
        BY <1>2, <3>1, <3>2
  <2>2. AtTaskOf(r)'
      BY <1>1, <1>2, <1>3, <1>4, <1>8, <1>9, <1>11, <2>1 DEF AtTaskOf
  <2> QED
      BY <1>7, <2>2 DEF OrderedAt
<1>10. CASE /\ IsFinal(m)
            /\ link'[r] = "up" => /\ host'[r].task = host[r].task + 1
                                  /\ host[r].task + 1 <= Tasks[r]
  <2> SUFFICES ASSUME link'[r] = "up" PROVE AtTaskOf(r)'
      BY <1>7 DEF OrderedAt, AtTaskOf
  <2>0. k \in Nat
      BY <1>1, <1>3
  <2>1. host'[r].task = k + 1 /\ k + 1 <= Tasks[r]
      BY <1>10
  <2>2. k + 1 \in 1 .. Tasks[r]
      BY <1>3, <2>0, <2>1
  <2>3. doc'.status[<<r, k + 1>>] \notin Final
    <3>1. /\ <<r, k + 1>> \in Job /\ <<r, k>> \in Job
          /\ <<r, k + 1>>[1] = r /\ <<r, k + 1>>[2] = k + 1
          /\ <<r, k>>[1] = r /\ <<r, k>>[2] = k
        BY <1>1, <2>2, JobFacts
    <3>2. InOrder(doc)
        BY OrderedNow
    <3>3. k < k + 1
        BY <2>0
    <3> QED
        BY <1>3, <1>4, <3>1, <3>2, <3>3 DEF InOrder
  <2>4. ASSUME NEW t \in JobOf(r), t[2] < k + 1
        PROVE  doc'.status[t] \in Final \/ EndRead(t, n + 1)'
    <3>1. CASE t[2] < k
        BY <1>8, <3>1
    <3>2. CASE t[2] = k
      <4>1. t = <<r, k>> /\ t[1] = r
          BY <3>2, JobAt, JobFacts
      <4>2. n + 1 \in DOMAIN pipe'[r] /\ n + 1 <= n + 1
          BY <1>2
      <4>3. IsFinal(pipe'[r][n + 1]) /\ pipe'[r][n + 1].task = t
          BY <1>1, <1>2, <1>10, <4>1
      <4> QED
          BY <4>1, <4>2, <4>3 DEF EndRead
    <3> QED
        BY <2>0, <2>4, <3>1, <3>2, JobAt
  <2>5. ASSUME NEW i \in DOMAIN pipe'[r]
        PROVE  pipe'[r][i].task[2] < k + 1
    <3>1. CASE i \in 1 .. n
      <4>1. /\ pipe'[r][i] = pipe[r][i] /\ pipe[r][i].task[2] <= k
            /\ pipe[r][i].task[2] \in Nat
          BY <1>2, <1>4, <3>1, MessageAbout
      <4> QED
          BY <2>0, <4>1
    <3>2. CASE i = n + 1
        BY <1>1, <1>2, <2>0, <3>2
    <3> QED
        BY <1>2, <3>1, <3>2
  <2>6. \A i \in DOMAIN pipe'[r] :
           /\ pipe'[r][i].task[2] <= k + 1
           /\ IsFinal(pipe'[r][i]) => pipe'[r][i].task[2] < k + 1
    <3>1. \A i \in DOMAIN pipe'[r] : pipe'[r][i].task[2] \in Nat
      <4>1. ASSUME NEW i \in DOMAIN pipe'[r] PROVE pipe'[r][i].task[2] \in Nat
        <5>1. CASE i \in 1 .. n
            BY <1>2, <5>1, MessageAbout
        <5>2. CASE i = n + 1
            BY <1>1, <1>2, <2>0, <5>2
        <5> QED
            BY <1>2, <5>1, <5>2
      <4> QED
          BY <4>1
    <3> QED
        BY <2>0, <2>5, <3>1
  <2> QED
      BY <1>2, <2>1, <2>2, <2>3, <2>4, <2>6, <1>11 DEF AtTaskOf
<1> QED
    BY <1>9, <1>10

LEMMA InOrderSame ==
    ASSUME NEW d, NEW e, InOrder(d), \A t \in Job : e.status[t] = d.status[t]
    PROVE  InOrder(e)
BY DEF InOrder

LEMMA HostOrdered ==
    ASSUME IInv, NEW r \in Recipe,
           HostStarts(r) \/ HostReports(r) \/ HostEnds(r)
    PROVE  Orders'
<1>1. PICK m : /\ Sends(r, m) /\ Says(r, m)
               /\ Begins(r, m) \/ Reports(r, m) \/ Ends(r, m)
    BY HostSends
<1>2. /\ \A q \in Recipe \ {r} : pipe'[q] = pipe[q]
      /\ doc' = doc /\ saved' = saved
    BY <1>1, LinkTypes DEF Sends, appVars, HostTypes
<1>3. /\ \A q \in Recipe \ {r} : link'[q] = link[q] /\ host'[q] = host[q]
      /\ \/ /\ ~IsFinal(m) /\ link' = link
            /\ host'[r].task = host[r].task
         \/ /\ IsFinal(m)
            /\ link'[r] = "up" => /\ host'[r].task = host[r].task + 1
                                  /\ host[r].task + 1 <= Tasks[r]
  <2>0. /\ host \in [Recipe -> [task : Nat, stage : {"off", "new", "running"}]]
        /\ link \in [Recipe -> {"none", "up", "ended", "failed"}]
      BY LinkTypes
  <2>1. CASE Begins(r, m)
    <3>1. ~IsFinal(m)
        BY <2>1 DEF Begins, Message, IsFinal, Final
    <3>2. host' = [host EXCEPT ![r].stage = "running"] /\ link' = link
        BY <2>1 DEF Begins
    <3> HIDE <2>1
    <3> QED
        BY <2>0, <3>1, <3>2
  <2>2. CASE Reports(r, m)
    <3>1. ~IsFinal(m)
      <4>1. \/ \E result \in Results : m = Message(r, "result", result)
            \/ m = Message(r, "watchdog", "")
          BY <2>2, Zenon DEF Reports
      <4>2. ASSUME NEW result, m = Message(r, "result", result)
            PROVE  ~IsFinal(m)
          BY <4>2 DEF Message, IsFinal
      <4>3. ASSUME m = Message(r, "watchdog", "")
            PROVE  ~IsFinal(m)
          BY <4>3 DEF Message, IsFinal
      <4> QED
          BY <4>1, <4>2, <4>3, Zenon
    <3>2. host' = host /\ link' = link
        BY <2>2, Zenon DEF Reports
    <3> QED
        BY <3>1, <3>2
  <2>3. CASE Ends(r, m)
    <3> DEFINE k == host[r].task
    <3>1. IsFinal(m)
        BY <2>3 DEF Ends, Message, IsFinal, Final
    <3>2. k \in Nat /\ Tasks[r] \in Nat
        BY <2>0, Bounds
    <3>3. /\ host' = [host EXCEPT ![r] = [task |-> k + 1, stage |-> "new"]]
          /\ link' = [link EXCEPT ![r] =
                         IF k + 1 > Tasks[r] THEN "ended" ELSE "up"]
        BY <2>3 DEF Ends, Begun, HostAt
    <3>4. host'[r].task = k + 1 /\ \A q \in Recipe \ {r} : host'[q] = host[q]
        BY <2>0, <3>3
    <3>5. /\ link'[r] = "up" => k + 1 <= Tasks[r]
          /\ \A q \in Recipe \ {r} : link'[q] = link[q]
        BY <2>0, <3>2, <3>3
    <3> QED
        BY <3>1, <3>4, <3>5
  <2> QED
      BY <1>1, <2>1, <2>2, <2>3
<1>4. OrderedAt(r)'
    BY <1>1, <1>3, SendOrdered
<1>5. \A q \in Recipe \ {r} : OrderedAt(q)'
    BY <1>2, <1>3, Untouched
<1>6. InOrder(doc') /\ InOrder(saved')
    BY <1>2, OrderedNow
<1> QED
    BY <1>4, <1>5, <1>6 DEF Orders, OrderedAt, Printed, AtTask

(* Nothing is printed or read, and no host gets the XML.                   *)
LEMMA QuietOrdered ==
    ASSUME IInv, UNCHANGED <<doc, pipe, host>>,
           saved' = saved \/ saved' = doc,
           \A r \in Recipe : link'[r] = "up" => link[r] = "up"
    PROVE  Orders'
<1>1. \A q \in Recipe : OrderedAt(q)'
    BY Untouched
<1>2. InOrder(doc') /\ InOrder(saved')
    BY DEF IInv, Orders
<1> QED
    BY <1>1, <1>2 DEF Orders, OrderedAt, Printed, AtTask

LEMMA RunOrdered ==
    ASSUME IInv, NEW r \in Recipe, RunRecipe(r)
    PROVE  Orders'
<1>1. /\ UNCHANGED <<doc, saved, pipe>> /\ pipe[r] = <<>>
      /\ \A q \in Recipe \ {r} : link'[q] = link[q] /\ host'[q] = host[q]
      /\ link'[r] = "up" => /\ host'[r].task = FirstTodo(doc, r)
                            /\ FirstTodo(doc, r) <= Tasks[r]
    BY BeginsAt DEF appVars
<1>2. \A q \in Recipe \ {r} : OrderedAt(q)'
    BY <1>1, Untouched
<1>3. PrintedBy(r)'
    BY <1>1 DEF PrintedBy
<1>4. AtTaskOf(r)'
  <2> SUFFICES ASSUME link'[r] = "up" PROVE AtTaskOf(r)'
      BY DEF AtTaskOf
  <2> DEFINE k == FirstTodo(doc, r)
  <2>1. host'[r].task = k /\ k <= Tasks[r] /\ Tasks[r] \in Nat
      BY <1>1, Bounds
  <2>2. k \in 1 .. Tasks[r] + 1
      BY FirstTodoBound, Zenon
  <2>3. k \in 1 .. Tasks[r]
      BY <2>1, <2>2
  <2>4. /\ doc.status[<<r, k>>] \notin Final
        /\ \A i \in 1 .. Tasks[r] : i < k => doc.status[<<r, i>>] \in Final
      BY <2>1, FirstTodoBound, Zenon
  <2>5. \A t \in JobOf(r) : t[2] < k => doc.status[t] \in Final
    <3>1. \A t \in JobOf(r) : t = <<r, t[2]>> /\ t[2] \in 1 .. Tasks[r]
        BY JobFacts DEF JobOf
    <3> HIDE DEF k
    <3> QED
        BY <2>4, <3>1
  <2> HIDE DEF k
  <2> QED
      BY <1>1, <2>1, <2>3, <2>4, <2>5 DEF AtTaskOf
<1>5. InOrder(doc') /\ InOrder(saved')
    BY <1>1, OrderedNow
<1> QED
    BY <1>2, <1>3, <1>4, <1>5 DEF Orders, OrderedAt, Printed, AtTask

LEMMA FinishOrdered ==
    ASSUME IInv, NEW r \in Recipe, ProcessFinish(r)
    PROVE  Orders'
<1>1. /\ \A q \in Recipe \ {r} : /\ link'[q] = link[q] /\ host'[q] = host[q]
                                 /\ pipe'[q] = pipe[q]
      /\ pipe'[r] = <<>> /\ link'[r] = "none"
  <2>1. /\ link' = [link EXCEPT ![r] = "none"]
        /\ pipe' = [pipe EXCEPT ![r] = <<>>]
        /\ host' = [host EXCEPT ![r] = NoHost]
      BY Finishes
  <2>2. DOMAIN link = Recipe /\ DOMAIN host = Recipe /\ DOMAIN pipe = Recipe
      BY LinkTypes DEF HostTypes
  <2> QED
      BY <2>1, <2>2
<1>2. /\ saved' = saved
      /\ \A t \in Job : t[1] # r => doc'.status[t] = doc.status[t]
      /\ \A t \in Job : \/ doc'.status[t] = doc.status[t]
                        \/ t \in JobOf(r) /\ doc.status[t] \notin Final
      /\ doc' = doc \/ \A t \in JobOf(r) : doc'.status[t] \in Final
    BY Finishes
<1>3. OrderedAt(r)'
    BY <1>1, Emptied
<1>4. \A q \in Recipe \ {r} : OrderedAt(q)'
  <2> SUFFICES ASSUME NEW q \in Recipe \ {r} PROVE OrderedAt(q)'
      OBVIOUS
  <2>1. \A t \in JobOf(q) : doc'.status[t] = doc.status[t]
      BY <1>2, JobAt
  <2> QED
      BY <1>1, <2>1, Untouched
<1>5. InOrder(doc')
  <2>1. InOrder(doc)
      BY OrderedNow
  <2>2. CASE doc' = doc
      BY <2>1, <2>2
  <2>3. CASE \A t \in JobOf(r) : doc'.status[t] \in Final
    <3> SUFFICES ASSUME NEW t \in Job, NEW u \in Job, t[1] = u[1], t[2] < u[2],
                        doc'.status[u] \in Final
                 PROVE  doc'.status[t] \in Final
        BY DEF InOrder
    <3>1. CASE t[1] = r
        BY <2>3, <3>1, JobOfSplit
    <3>2. CASE t[1] # r
        BY <1>2, <2>1, <3>2 DEF InOrder
    <3> QED
        BY <3>1, <3>2
  <2> QED
      BY <1>2, <2>2, <2>3
<1>6. InOrder(saved')
    BY <1>2, OrderedNow
<1> QED
    BY <1>3, <1>4, <1>5, <1>6 DEF Orders, OrderedAt, Printed, AtTask

LEMMA StopOrdered ==
    ASSUME IInv, doc' = doc \/ doc' = saved, saved' = saved,
           \A r \in Recipe : pipe'[r] = <<>> /\ link'[r] # "up"
    PROVE  Orders'
<1>1. \A q \in Recipe : OrderedAt(q)'
    BY Emptied
<1>2. InOrder(doc') /\ InOrder(saved')
    BY OrderedNow DEF IInv, Orders
<1> QED
    BY <1>1, <1>2 DEF Orders, OrderedAt, Printed, AtTask

(* The status of a task that is not finished is read.                      *)
LEMMA ReadOrdered ==
    ASSUME IInv, NEW r \in Recipe, ReadMessage(r)
    PROVE  Orders'
<1>0. PICK m : m = pipe[r][1]
    OBVIOUS
<1>1. PICK n : n = Len(pipe[r])
    OBVIOUS
<1>2. /\ m \in MessageType /\ m.task \in JobOf(r) /\ m.task \in Job
      /\ m.task[1] = r /\ doc.status[m.task] \notin Final
      /\ ReadsStatus(m) \/ ReadsResult(m) \/ ReadsWatchdog(m)
      /\ UNCHANGED <<link, host>>
      /\ doc \in Doc
    BY <1>0, Reads, LinkTypes
<1>3. /\ n \in Nat \ {0} /\ DOMAIN pipe[r] = 1 .. n
      /\ Len(pipe'[r]) = n - 1 /\ DOMAIN pipe'[r] = 1 .. n - 1
      /\ \A i \in 1 .. n - 1 : pipe'[r][i] = pipe[r][i + 1]
      /\ \A q \in Recipe \ {r} : pipe'[q] = pipe[q]
  <2>1. HostTypes /\ pipe[r] # <<>> /\ pipe' = [pipe EXCEPT ![r] = Tail(@)]
      BY Reads, LinkTypes
  <2>2. pipe[r] \in Seq(MessageType) /\ pipe'[r] = Tail(pipe[r])
        /\ \A q \in Recipe \ {r} : pipe'[q] = pipe[q]
      BY <2>1 DEF HostTypes
  <2>3. /\ Len(pipe[r]) \in Nat \ {0} /\ DOMAIN pipe[r] = 1 .. Len(pipe[r])
        /\ Len(pipe'[r]) = Len(pipe[r]) - 1
        /\ DOMAIN pipe'[r] = 1 .. Len(pipe[r]) - 1
        /\ \A i \in 1 .. Len(pipe[r]) - 1 : pipe'[r][i] = pipe[r][i + 1]
    <3> HIDE <2>1
    <3>1. pipe[r] # <<>>
        BY <2>1
    <3> QED
        BY <2>2, <3>1, Taken
  <2> QED
      BY <1>1, <2>2, <2>3
<1>4. \A t \in Job : \/ doc'.status[t] = doc.status[t]
                     \/ /\ t = m.task
                        /\ doc'.status[t] \in Final => IsFinal(m)
    BY <1>2 DEF ReadsStatus, ReadsResult, ReadsWatchdog, Doc, IsFinal, Final
<1>5. \A t \in Job : doc.status[t] \in Final => doc'.status[t] \in Final
    BY <1>2, <1>4
<1>6. IsFinal(m) => doc'.status[m.task] \in Final
    BY <1>2 DEF ReadsStatus, ReadsResult, ReadsWatchdog, Doc, IsFinal
<1>7. /\ \A i \in 1 .. n :
            /\ doc.status[pipe[r][i].task] \notin Final
            /\ \A t \in JobOf(r) : t[2] < pipe[r][i].task[2]
                  => doc.status[t] \in Final \/ EndRead(t, i)
            /\ \A j \in 1 .. n :
                  /\ i < j => pipe[r][i].task[2] <= pipe[r][j].task[2]
                  /\ i < j /\ IsFinal(pipe[r][i])
                        => pipe[r][i].task[2] < pipe[r][j].task[2]
      /\ \A i \in 1 .. n : pipe[r][i].task \in Job /\ pipe[r][i].task[2] \in Nat
    BY <1>3, OrderedNow, MessageAbout DEF OrderedAt, PrintedBy
<1>8. ASSUME NEW t \in JobOf(r), NEW i \in 1 .. n,
             doc.status[t] \in Final \/ EndRead(t, i)
      PROVE  doc'.status[t] \in Final \/ EndRead(t, i - 1)'
  <2>0. t \in Job /\ t[1] = r
      BY JobAt
  <2>1. CASE doc.status[t] \in Final
      BY <1>5, <2>0, <2>1
  <2>2. CASE EndRead(t, i)
    <3>1. PICK h \in DOMAIN pipe[r] :
              h <= i /\ IsFinal(pipe[r][h]) /\ pipe[r][h].task = t
        BY <2>0, <2>2 DEF EndRead
    <3>2. CASE h = 1
        BY <1>0, <1>6, <3>1, <3>2
    <3>3. CASE h # 1
      <4>1. /\ h - 1 \in DOMAIN pipe'[r] /\ h - 1 <= i - 1
            /\ h - 1 \in 1 .. n - 1 /\ (h - 1) + 1 = h
          BY <1>3, <3>1, <3>3
      <4>2. pipe'[r][h - 1] = pipe[r][h]
          BY <1>3, <4>1
      <4> QED
          BY <2>0, <3>1, <4>1, <4>2 DEF EndRead
    <3> QED
        BY <3>2, <3>3
  <2> QED
      BY <1>8, <2>1, <2>2
<1>9. PrintedBy(r)'
  <2>1. ASSUME NEW i \in 1 .. n - 1
        PROVE  /\ doc'.status[pipe'[r][i].task] \notin Final
               /\ \A t \in JobOf(r) : t[2] < pipe'[r][i].task[2]
                     => doc'.status[t] \in Final \/ EndRead(t, i)'
               /\ \A j \in 1 .. n - 1 :
                     /\ i < j => pipe'[r][i].task[2] <= pipe'[r][j].task[2]
                     /\ i < j /\ IsFinal(pipe'[r][i])
                           => pipe'[r][i].task[2] < pipe'[r][j].task[2]
    <3>1. /\ i + 1 \in 1 .. n /\ pipe'[r][i] = pipe[r][i + 1] /\ 1 \in 1 .. n
          /\ 1 < i + 1 /\ (i + 1) - 1 = i
        BY <1>3
    <3>2. doc'.status[pipe'[r][i].task] \notin Final
      <4>1. doc.status[pipe[r][i + 1].task] \notin Final /\ pipe[r][i + 1].task \in Job
          BY <1>7, <3>1
      <4>2. IsFinal(m) => pipe[r][i + 1].task # m.task
        <5>1. IsFinal(m) => m.task[2] < pipe[r][i + 1].task[2]
            BY <1>0, <1>7, <3>1
        <5>2. pipe[r][i + 1].task[2] \in Nat
            BY <1>7, <3>1
        <5> QED
            BY <5>1, <5>2
      <4> QED
          BY <1>4, <3>1, <4>1, <4>2
    <3>3. ASSUME NEW t \in JobOf(r), t[2] < pipe'[r][i].task[2]
          PROVE  doc'.status[t] \in Final \/ EndRead(t, i)'
      <4>1. doc.status[t] \in Final \/ EndRead(t, i + 1)
          BY <1>7, <3>1, <3>3
      <4> QED
          BY <1>8, <3>1, <4>1
    <3>4. ASSUME NEW j \in 1 .. n - 1
          PROVE  /\ i < j => pipe'[r][i].task[2] <= pipe'[r][j].task[2]
                 /\ i < j /\ IsFinal(pipe'[r][i])
                       => pipe'[r][i].task[2] < pipe'[r][j].task[2]
      <4>1. /\ j + 1 \in 1 .. n /\ pipe'[r][j] = pipe[r][j + 1]
            /\ i < j => i + 1 < j + 1
          BY <1>3
      <4> QED
          BY <1>7, <3>1, <4>1
    <3> QED
        BY <3>2, <3>3, <3>4
  <2> QED
      BY <1>3, <2>1 DEF PrintedBy
<1>10. AtTaskOf(r)'
  <2> SUFFICES ASSUME link'[r] = "up" PROVE AtTaskOf(r)'
      BY DEF AtTaskOf
  <2>1. PICK k : k = host[r].task
      OBVIOUS
  <2>2. /\ k \in 1 .. Tasks[r] /\ doc.status[<<r, k>>] \notin Final
        /\ \A t \in JobOf(r) : t[2] < k =>
              doc.status[t] \in Final \/ EndRead(t, n)
        /\ \A i \in 1 .. n :
              /\ pipe[r][i].task[2] <= k
              /\ IsFinal(pipe[r][i]) => pipe[r][i].task[2] < k
      BY <1>1, <1>2, <1>3, <2>1, OrderedNow DEF OrderedAt, AtTaskOf
  <2>3. doc'.status[<<r, k>>] \notin Final
    <3>1. <<r, k>> \in Job /\ <<r, k>>[2] = k /\ k \in Nat
        BY <2>2, JobFacts
    <3>2. IsFinal(m) => m.task[2] < k
        BY <1>0, <1>3, <2>2
    <3>3. IsFinal(m) => m.task # <<r, k>>
        BY <3>1, <3>2
    <3> QED
        BY <1>4, <2>2, <3>1, <3>3
  <2>4. \A t \in JobOf(r) : t[2] < k =>
           doc'.status[t] \in Final \/ EndRead(t, n - 1)'
    <3>1. n \in 1 .. n
        BY <1>3
    <3> QED
        BY <1>8, <2>2, <3>1
  <2>5. \A t : EndRead(t, Len(pipe[r]))' <=> EndRead(t, n - 1)'
      BY <1>3 DEF EndRead
  <2>6. \A i \in 1 .. n - 1 : /\ pipe'[r][i].task[2] <= k
                              /\ IsFinal(pipe'[r][i]) => pipe'[r][i].task[2] < k
    <3> SUFFICES ASSUME NEW i \in 1 .. n - 1
                 PROVE  /\ pipe'[r][i].task[2] <= k
                        /\ IsFinal(pipe'[r][i]) => pipe'[r][i].task[2] < k
        OBVIOUS
    <3>1. i + 1 \in 1 .. n /\ pipe'[r][i] = pipe[r][i + 1]
        BY <1>3
    <3> QED
        BY <2>2, <3>1
  <2> QED
      BY <1>2, <1>3, <2>1, <2>2, <2>3, <2>4, <2>5, <2>6 DEF AtTaskOf
<1>11. \A q \in Recipe \ {r} : OrderedAt(q)'
  <2> SUFFICES ASSUME NEW q \in Recipe \ {r} PROVE OrderedAt(q)'
      OBVIOUS
  <2>1. \A t \in JobOf(q) : doc'.status[t] = doc.status[t]
      BY <1>2, <1>4, JobAt
  <2> QED
      BY <1>2, <1>3, <2>1, Untouched
<1>12. InOrder(doc')
  <2> SUFFICES ASSUME NEW t \in Job, NEW u \in Job, t[1] = u[1], t[2] < u[2],
                      doc'.status[u] \in Final
               PROVE  doc'.status[t] \in Final
      BY DEF InOrder
  <2>1. CASE doc.status[u] \in Final
      BY <1>5, <2>1, OrderedNow DEF InOrder
  <2>2. CASE doc.status[u] \notin Final
    <3>1. u = m.task /\ t \in JobOf(r)
        BY <1>2, <1>4, <2>2, JobOfSplit
    <3>2. 1 \in 1 .. n
        BY <1>3
    <3>3. doc.status[t] \in Final \/ EndRead(t, 1)
        BY <1>0, <1>7, <3>1, <3>2
    <3>4. doc'.status[t] \in Final \/ EndRead(t, 1 - 1)'
        BY <1>8, <3>1, <3>2, <3>3
    <3>5. ~EndRead(t, 1 - 1)'
        BY <1>2, <1>3, <3>1, JobAt DEF EndRead
    <3> QED
        BY <3>4, <3>5
  <2> QED
      BY <2>1, <2>2
<1>13. InOrder(saved')
  <2>1. saved' = saved \/ saved' = doc'
      BY <1>2 DEF ReadsStatus, ReadsResult, ReadsWatchdog
  <2> QED
      BY <1>12, <2>1, OrderedNow
<1> QED
    BY <1>9, <1>10, <1>11, <1>12, <1>13 DEF Orders, OrderedAt, Printed, AtTask

-----------------------------------------------------------------------------
(* The results.                                                            *)
Kept == ResultsKept /\ Behind
KeptAt(t, s) ==
    \/ main = "killed"
    \/ Id(s) <= Id(doc.result[t])
    \/ Waiting(t, s)

LEMMA KeptNow ==
    ASSUME IInv, NEW t \in Job, NEW s \in owed[t]
    PROVE  /\ KeptAt(t, s)
           /\ saved.status[t] = "Completed" => Id(s) <= Id(saved.result[t])
           /\ main = "killed" => Id(s) <= Id(saved.result[t])
BY DEF IInv, ResultsKept, KeptAt, Behind

LEMMA BehindNow ==
    ASSUME IInv, NEW t \in Job, saved.status[t] = "Completed"
    PROVE  doc.status[t] = "Completed"
BY DEF IInv, Behind

(* Nothing about a finished task is left to read.                          *)
LEMMA NoneWaiting ==
    ASSUME IInv, NEW t \in Job, doc.status[t] \in Final, NEW s
    PROVE  ~Waiting(t, s)
<1> SUFFICES ASSUME NEW i \in DOMAIN pipe[t[1]],
                    pipe[t[1]][i] = [kind |-> "result", task |-> t, value |-> s]
             PROVE  FALSE
    BY DEF Waiting
<1>1. pipe[t[1]][i].task = t /\ t[1] \in Recipe
    BY JobFacts
<1>2. doc.status[pipe[t[1]][i].task] \notin Final
    BY <1>1 DEF IInv, Orders, Printed, PrintedBy
<1> QED
    BY <1>1, <1>2

(* Steps that leave the XML, what is owed and the output of the hosts.     *)
LEMMA SameKept ==
    ASSUME IInv, UNCHANGED <<doc, saved, pipe, owed>>, main' = main
    PROVE  Kept'
<1>1. \A t, s : Waiting(t, s)' <=> Waiting(t, s)
    BY DEF Waiting
<1> QED
    BY <1>1 DEF IInv, Kept, ResultsKept, Behind

LEMMA HostKept ==
    ASSUME IInv, NEW r \in Recipe,
           HostStarts(r) \/ HostReports(r) \/ HostEnds(r)
    PROVE  Kept'
<1>1. PICK m : /\ Sends(r, m) /\ Says(r, m)
               /\ Begins(r, m) \/ Reports(r, m) \/ Ends(r, m)
    BY HostSends
<1>2. /\ m \in MessageType /\ m.task = <<r, host[r].task>>
      /\ m.task \in JobOf(r) /\ m.task \in Job
      /\ pipe' = [pipe EXCEPT ![r] = Append(@, m)]
      /\ HostTypes /\ m.task[1] = r
      /\ host[r].task \in 1 .. Tasks[r]
    BY <1>1, SentTypes, JobAt
<1>3. UNCHANGED <<main, doc, saved>> /\ main # "killed" /\ link[r] = "up"
    BY <1>1 DEF Sends, appVars, Running
<1>4. /\ \A q \in Recipe \ {r} : pipe'[q] = pipe[q]
      /\ pipe[r] \in Seq(MessageType) /\ pipe'[r] = Append(pipe[r], m)
    BY <1>2 DEF HostTypes
<1>5. /\ Len(pipe[r]) \in Nat /\ DOMAIN pipe[r] = 1 .. Len(pipe[r])
      /\ DOMAIN pipe'[r] = 1 .. Len(pipe[r]) + 1
      /\ \A i \in 1 .. Len(pipe[r]) : pipe'[r][i] = pipe[r][i]
      /\ pipe'[r][Len(pipe[r]) + 1] = m
    BY <1>2, <1>4, Appended
<1>6. ASSUME NEW t \in Job, NEW s, Waiting(t, s)
      PROVE  Waiting(t, s)'
  <2>1. t[1] \in Recipe
      BY JobFacts
  <2>2. PICK i \in DOMAIN pipe[t[1]] :
            pipe[t[1]][i] = [kind |-> "result", task |-> t, value |-> s]
      BY <1>6 DEF Waiting
  <2>3. i \in DOMAIN pipe'[t[1]] /\ pipe'[t[1]][i] = pipe[t[1]][i]
    <3>1. CASE t[1] # r
      <4>1. pipe'[t[1]] = pipe[t[1]]
          BY <1>4, <2>1, <3>1
      <4> QED
          BY <2>2, <4>1
    <3>2. CASE t[1] = r
      <4>1. i \in DOMAIN pipe[r]
          BY <2>2, <3>2
      <4>2. i \in DOMAIN pipe'[r] /\ pipe'[r][i] = pipe[r][i]
          BY <1>5, <4>1
      <4> QED
          BY <3>2, <4>2
    <3> QED
        BY <3>1, <3>2
  <2> QED
      BY <2>2, <2>3 DEF Waiting
<1>7. ASSUME NEW t \in Job, NEW s \in owed'[t]
      PROVE  \/ s \in owed[t]
             \/ /\ t = m.task
                /\ m = [kind |-> "result", task |-> t, value |-> s]
  <2>1. CASE owed' = owed
      BY <1>7, <2>1
  <2>2. CASE Reports(r, m) /\ owed' # owed
    <3>1. PICK result \in Results :
              /\ m = Message(r, "result", result)
              /\ owed' = [owed EXCEPT ![<<r, host[r].task>>] = @ \cup {result}]
        BY <2>2, Zenon DEF Reports
    <3>2. m = [kind |-> "result", task |-> m.task, value |-> result]
        BY <3>1 DEF Message
    <3>3. owed' = [owed EXCEPT ![m.task] = @ \cup {result}]
        BY <1>2, <3>1
    <3>4. owed \in [Job -> SUBSET Results]
        BY LinkTypes DEF HostTypes
    <3> HIDE <3>1, <2>2
    <3>5. CASE t = m.task
      <4>1. owed'[t] = owed[t] \cup {result}
          BY <3>3, <3>4, <3>5
      <4> QED
          BY <1>7, <3>2, <3>5, <4>1
    <3>6. CASE t # m.task
        BY <1>7, <3>3, <3>4, <3>6
    <3> QED
        BY <3>5, <3>6
  <2>3. owed' = owed \/ Reports(r, m)
      BY <1>1 DEF Begins, Ends
  <2> QED
      BY <2>1, <2>2, <2>3
<1>8. doc.status[m.task] \notin Final
    BY <1>2, <1>3, OrderedNow DEF OrderedAt, AtTaskOf
<1>9. ASSUME NEW t \in Job, NEW s \in owed'[t]
      PROVE  /\ Id(s) <= Id(doc'.result[t]) \/ Waiting(t, s)'
             /\ saved'.status[t] = "Completed" => Id(s) <= Id(saved'.result[t])
  <2>1. CASE s \in owed[t]
    <3>1. /\ KeptAt(t, s)
          /\ saved.status[t] = "Completed" => Id(s) <= Id(saved.result[t])
        BY <2>1, KeptNow
    <3> QED
        BY <1>3, <1>6, <3>1 DEF KeptAt
  <2>2. CASE t = m.task /\ m = [kind |-> "result", task |-> t, value |-> s]
    <3>1. Waiting(t, s)'
      <4>1. t[1] = r
          BY <1>2, <2>2
      <4>2. Len(pipe[r]) + 1 \in DOMAIN pipe'[t[1]]
          BY <1>5, <4>1
      <4> QED
          BY <1>5, <2>2, <4>1, <4>2 DEF Waiting
    <3>2. saved'.status[t] # "Completed"
        BY <1>3, <1>8, <2>2, BehindNow DEF Final
    <3> QED
        BY <3>1, <3>2
  <2> QED
      BY <1>7, <2>1, <2>2
<1>10. \A t \in Job : saved'.status[t] = "Completed"
                         => doc'.status[t] = "Completed"
    BY <1>3, BehindNow
<1> QED
    BY <1>3, <1>9, <1>10 DEF Kept, ResultsKept, Behind

LEMMA ReadKept ==
    ASSUME IInv, NEW r \in Recipe, ReadMessage(r)
    PROVE  Kept'
<1>0. PICK m : m = pipe[r][1]
    OBVIOUS
<1>1. /\ m \in MessageType /\ m.task \in Job /\ m.task[1] = r
      /\ pipe[r] # <<>> /\ pipe' = [pipe EXCEPT ![r] = Tail(@)]
      /\ doc.status[m.task] \notin Final
      /\ ReadsStatus(m) \/ ReadsResult(m) \/ ReadsWatchdog(m)
      /\ Running /\ main' = main /\ owed' = owed /\ doc \in Doc
      /\ HostTypes
    BY <1>0, Reads, LinkTypes
<1>2. main # "killed" /\ main' # "killed"
    BY <1>1 DEF Running
<1>3. /\ pipe[r] \in Seq(MessageType) /\ pipe'[r] = Tail(pipe[r])
      /\ \A q \in Recipe \ {r} : pipe'[q] = pipe[q]
    BY <1>1 DEF HostTypes
<1>4. /\ Len(pipe[r]) \in Nat \ {0} /\ DOMAIN pipe[r] = 1 .. Len(pipe[r])
      /\ DOMAIN pipe'[r] = 1 .. Len(pipe[r]) - 1
      /\ \A i \in 1 .. Len(pipe[r]) - 1 : pipe'[r][i] = pipe[r][i + 1]
  <2>1. pipe[r] # <<>>
      BY <1>1
  <2> QED
      BY <1>3, <2>1, Taken
<1>5. ASSUME NEW t \in Job, NEW s, Waiting(t, s)
      PROVE  \/ Waiting(t, s)'
             \/ m = [kind |-> "result", task |-> t, value |-> s]
  <2>1. t[1] \in Recipe
      BY JobFacts
  <2>2. PICK i \in DOMAIN pipe[t[1]] :
            pipe[t[1]][i] = [kind |-> "result", task |-> t, value |-> s]
      BY <1>5 DEF Waiting
  <2>3. CASE t[1] # r
      BY <1>3, <2>1, <2>2, <2>3 DEF Waiting
  <2>4. CASE t[1] = r /\ i = 1
      BY <1>0, <2>2, <2>4
  <2>5. CASE t[1] = r /\ i # 1
    <3>1. i - 1 \in DOMAIN pipe'[r] /\ pipe'[r][i - 1] = pipe[r][i]
        BY <1>4, <2>2, <2>5
    <3> QED
        BY <2>2, <2>5, <3>1 DEF Waiting
  <2> QED
      BY <2>3, <2>4, <2>5
<1>6. ASSUME NEW t \in Job, NEW s \in owed[t]
      PROVE  Id(s) <= Id(doc'.result[t]) \/ Waiting(t, s)'
  <2>1. Id(s) <= Id(doc.result[t]) \/ Waiting(t, s)
      BY <1>2, KeptNow DEF KeptAt
  <2>2. CASE Id(s) <= Id(doc.result[t])
    <3>1. Id(doc'.result[t]) >= Id(doc.result[t])
        BY <1>1, IdOrder DEF ReadsStatus, ReadsResult, ReadsWatchdog
    <3> QED
        BY <2>2, <3>1, IdOrder
  <2>3. CASE m = [kind |-> "result", task |-> t, value |-> s]
    <3>1. m.kind = "result" /\ m.task = t /\ m.value = s
        BY <2>3
    <3>2. Id(doc'.result[t]) >= Id(s)
        BY <1>1, <3>1 DEF ReadsStatus, ReadsResult, ReadsWatchdog
    <3> QED
        BY <3>2, IdOrder
  <2> QED
      BY <1>5, <2>1, <2>2, <2>3
<1>7. CASE ReadsStatus(m)
  <2>1. ASSUME NEW t \in Job, saved'.status[t] = "Completed", NEW s \in owed[t]
        PROVE  Id(s) <= Id(saved'.result[t])
    <3>1. saved' = doc' /\ doc'.result = doc.result
        BY <1>7 DEF ReadsStatus
    <3>2. ~Waiting(t, s)'
      <4>1. CASE t # m.task
        <5>1. doc.status[t] \in Final
            BY <1>1, <1>7, <2>1, <4>1 DEF ReadsStatus, Final, Doc
        <5>2. ~Waiting(t, s)
            BY <5>1, NoneWaiting
        <5>3. Waiting(t, s)' => Waiting(t, s)
          <6> SUFFICES ASSUME NEW i \in DOMAIN pipe'[t[1]],
                  pipe'[t[1]][i] = [kind |-> "result", task |-> t, value |-> s]
                       PROVE  Waiting(t, s)
              BY DEF Waiting
          <6>1. t[1] \in Recipe
              BY JobFacts
          <6>2. CASE t[1] # r
              BY <1>3, <6>1, <6>2 DEF Waiting
          <6>3. CASE t[1] = r
            <7>1. i + 1 \in DOMAIN pipe[r] /\ pipe'[r][i] = pipe[r][i + 1]
                BY <1>4, <6>3
            <7> QED
                BY <6>3, <7>1 DEF Waiting
          <6> QED
              BY <6>2, <6>3
        <5> QED
            BY <5>2, <5>3
      <4>2. CASE t = m.task
        <5>1. IsFinal(m)
            BY <1>1, <1>7, <2>1, <4>2 DEF ReadsStatus, IsFinal, Final, Doc
        <5>2. 1 \in DOMAIN pipe[r] /\ t[1] = r
            BY <1>1, <1>4, <4>2
        <5>3. \A i \in DOMAIN pipe'[r] : pipe'[r][i].task # t
          <6> SUFFICES ASSUME NEW i \in DOMAIN pipe'[r]
                       PROVE  pipe'[r][i].task # t
              OBVIOUS
          <6>1. /\ i + 1 \in DOMAIN pipe[r] /\ pipe'[r][i] = pipe[r][i + 1]
                /\ 1 < i + 1
              BY <1>4
          <6>2. m.task[2] < pipe[r][i + 1].task[2]
              BY <1>0, <5>1, <5>2, <6>1, OrderedNow DEF OrderedAt, PrintedBy
          <6>3. pipe[r][i + 1].task[2] \in Nat /\ m.task[2] \in Nat
              BY <1>0, <5>2, <6>1, MessageAbout
          <6> QED
              BY <4>2, <6>1, <6>2, <6>3
        <5> QED
            BY <5>2, <5>3 DEF Waiting
      <4> QED
          BY <4>1, <4>2
    <3> QED
        BY <1>6, <2>1, <3>1, <3>2
  <2>2. saved' = doc'
      BY <1>7 DEF ReadsStatus
  <2> QED
      BY <1>1, <1>2, <1>6, <2>1, <2>2 DEF Kept, ResultsKept, Behind
<1>8. CASE ReadsResult(m) \/ ReadsWatchdog(m)
  <2>1. saved' = saved /\ doc'.status = doc.status
      BY <1>8 DEF ReadsResult, ReadsWatchdog
  <2>2. \A t \in Job : saved'.status[t] = "Completed"
                          => doc'.status[t] = "Completed"
      BY <2>1, BehindNow
  <2>3. \A t \in Job : \A s \in owed[t] :
            saved'.status[t] = "Completed" => Id(s) <= Id(saved'.result[t])
      BY <2>1, KeptNow
  <2> QED
      BY <1>1, <1>2, <1>6, <2>2, <2>3 DEF Kept, ResultsKept, Behind
<1> QED
    BY <1>1, <1>7, <1>8

LEMMA FinishKept ==
    ASSUME IInv, NEW r \in Recipe, ProcessFinish(r)
    PROVE  Kept'
<1>1. /\ saved' = saved /\ doc'.result = doc.result /\ owed' = Got(doc, JobOf(r))
      /\ main' \in {main, "quitting"} /\ Running
      /\ \A t \in Job : \/ doc'.status[t] = doc.status[t]
                        \/ t \in JobOf(r) /\ doc.status[t] \notin Final
      /\ HostTypes
    BY Finishes, LinkTypes
<1>2. main # "killed" /\ main' # "killed"
    BY <1>1 DEF Running
<1>3. \A q \in Recipe \ {r} : pipe'[q] = pipe[q]
    BY Finishes, LinkTypes DEF HostTypes
<1>4. /\ \A t \in Job : owed'[t] \subseteq owed[t]
      /\ \A t \in JobOf(r) : \A s \in owed'[t] : Id(s) <= Id(doc.result[t])
    BY <1>1, GotTypes, JobFacts
<1>5. ASSUME NEW t \in Job, NEW s \in owed'[t]
      PROVE  Id(s) <= Id(doc'.result[t]) \/ Waiting(t, s)'
  <2>1. CASE t \in JobOf(r)
      BY <1>1, <1>4, <2>1
  <2>2. CASE t \notin JobOf(r)
    <3>1. t[1] \in Recipe \ {r}
        BY <2>2, JobFacts, JobOfSplit
    <3>2. Waiting(t, s) => Waiting(t, s)'
        BY <1>3, <3>1 DEF Waiting
    <3>3. s \in owed[t]
        BY <1>4
    <3> QED
        BY <1>1, <1>2, <3>2, <3>3, KeptNow DEF KeptAt
  <2> QED
      BY <2>1, <2>2
<1>6. \A t \in Job : saved'.status[t] = "Completed"
                        => doc'.status[t] = "Completed"
    BY <1>1, BehindNow DEF Final
<1>7. \A t \in Job : \A s \in owed'[t] :
         saved'.status[t] = "Completed" => Id(s) <= Id(saved'.result[t])
    BY <1>1, <1>4, KeptNow
<1> QED
    BY <1>2, <1>5, <1>6, <1>7 DEF Kept, ResultsKept, Behind

LEMMA QuitKept ==
    ASSUME IInv, QuitLoop
    PROVE  Kept'
<1>1. /\ main = "quitting" /\ main' = "exited" /\ saved' = doc
      /\ UNCHANGED <<doc, pipe, owed>>
    BY DEF QuitLoop, hostVars
<1>2. \A t, s : Waiting(t, s)' <=> Waiting(t, s)
    BY <1>1 DEF Waiting
<1>3. \A t \in Job : \A s \in owed'[t] :
         /\ Id(s) <= Id(doc'.result[t]) \/ Waiting(t, s)'
         /\ saved'.status[t] = "Completed" => Id(s) <= Id(saved'.result[t])
    BY <1>1, <1>2, KeptNow, NoneWaiting DEF KeptAt, Final
<1> QED
    BY <1>1, <1>3 DEF Kept, ResultsKept, Behind

LEMMA KillKept ==
    ASSUME IInv, Kill \/ Restart
    PROVE  Kept'
<1>1. CASE Kill
  <2>1. /\ main' = "killed" /\ saved' = saved /\ doc' = doc
        /\ owed' = Got(saved, Job)
      BY <1>1 DEF Kill, appVars
  <2>2. \A t \in Job : \A s \in owed'[t] : Id(s) <= Id(saved'.result[t])
      BY <2>1, LinkTypes, GotTypes
  <2> QED
      BY <2>1, <2>2, BehindNow DEF Kept, ResultsKept, Behind
<1>2. CASE Restart
  <2>1. /\ main = "killed" /\ main' # "killed" /\ saved' = saved
        /\ doc' = saved /\ owed' = owed
      BY <1>2 DEF Restart, hostVars
  <2> QED
      BY <2>1, KeptNow DEF Kept, ResultsKept, Behind
<1> QED
    BY <1>1, <1>2

-----------------------------------------------------------------------------
(* The error.                                                              *)
LEMMA SeenNow ==
    ASSUME IInv, error = "none", NEW t \in Job, conn[t[1]] = "finished"
    PROVE  doc.result[t] \in {"PASS", "SKIPPED"}
BY DEF IInv, Seen

LEMMA SeenNext == IInv /\ [Next]_vars => Seen'
<1> SUFFICES ASSUME IInv, [Next]_vars PROVE Seen'
    OBVIOUS
<1>0. \A t \in Job : t[1] \in Recipe
    BY JobFacts
<1>1. ASSUME NEW r \in Recipe, HostStarts(r) \/ HostReports(r) \/ HostEnds(r)
      PROVE  Seen'
  <2>1. PICK m : Sends(r, m)
      BY <1>1, HostSends
  <2>2. UNCHANGED <<error, conn, doc>>
      BY <2>1 DEF Sends, appVars, recipeVars
  <2> QED
      BY <2>2 DEF IInv, Seen
<1>2. ASSUME NEW r \in Recipe, Drop(r)
      PROVE  Seen'
  <2>1. UNCHANGED <<error, conn, doc>>
      BY <1>2 DEF Drop, appVars, recipeVars
  <2> QED
      BY <2>1 DEF IInv, Seen
<1>3. ASSUME NEW r \in Recipe, RunRecipe(r)
      PROVE  Seen'
  <2>1. UNCHANGED <<error, doc>> /\ conn' = [conn EXCEPT ![r] = "up"]
      BY <1>3, BeginsAt DEF appVars
  <2>2. conn \in [Recipe -> {"idle", "up", "waiting", "finished"}]
      BY LinkTypes
  <2>3. \A q \in Recipe : conn'[q] = "finished" => conn[q] = "finished"
      BY <2>1, <2>2
  <2> QED
      BY <1>0, <2>1, <2>3 DEF IInv, Seen
<1>4. ASSUME NEW r \in Recipe, ReadMessage(r)
      PROVE  Seen'
  <2>0. PICK m : m = pipe[r][1]
      OBVIOUS
  <2>1. /\ UNCHANGED <<error, conn>> /\ conn[r] = "up" /\ m.task[1] = r
        /\ ReadsStatus(m) \/ ReadsResult(m) \/ ReadsWatchdog(m)
      BY <1>4, <2>0, Reads
  <2>2. \A t \in Job : t[1] # r => doc'.result[t] = doc.result[t]
      BY <2>1 DEF ReadsStatus, ReadsResult, ReadsWatchdog
  <2> QED
      BY <2>1, <2>2, SeenNow DEF Seen
<1>5. ASSUME NEW r \in Recipe, ProcessFinish(r)
      PROVE  Seen'
  <2>1. /\ doc'.result = doc.result
        /\ \/ conn' = [conn EXCEPT ![r] = "waiting"] /\ error' = error
           \/ /\ conn' = [conn EXCEPT ![r] = "finished"]
              /\ error' = "none" => ~Failed(doc, r) /\ error = "none"
      BY <1>5, Finishes
  <2>2. conn \in [Recipe -> {"idle", "up", "waiting", "finished"}]
      BY LinkTypes
  <2> SUFFICES ASSUME error' = "none", NEW t \in Job, conn'[t[1]] = "finished"
               PROVE  doc'.result[t] \in {"PASS", "SKIPPED"}
      BY DEF Seen
  <2>3. error = "none"
      BY <2>1
  <2>4. CASE t[1] = r
    <3>1. ~Failed(doc, r)
        BY <2>1, <2>2, <2>4
    <3> QED
        BY <2>1, <2>4, <3>1, JobOfSplit DEF Failed
  <2>5. CASE t[1] # r
      BY <1>0, <2>1, <2>2, <2>3, <2>5, SeenNow
  <2> QED
      BY <2>4, <2>5
<1>6. ASSUME NEW r \in Recipe, WatchdogTimeout(r)
      PROVE  Seen'
  <2>1. error' # "none"
      BY <1>6 DEF WatchdogTimeout
  <2> QED
      BY <2>1 DEF Seen
<1>7. CASE QuitLoop \/ UNCHANGED vars
  <2>1. UNCHANGED <<error, conn, doc>>
      BY <1>7 DEF QuitLoop, vars, appVars, recipeVars
  <2> QED
      BY <2>1 DEF IInv, Seen
<1>8. CASE Kill
  <2>1. \A r \in Recipe : conn'[r] = "idle"
      BY <1>8 DEF Kill
  <2> QED
      BY <1>0, <2>1 DEF Seen
<1>9. CASE Restart
  <2>1. \A r \in Recipe : conn'[r] = "idle"
      BY <1>9 DEF Restart, IInv, Idle
  <2> QED
      BY <1>0, <2>1 DEF Seen
<1> QED
    BY <1>1, <1>2, <1>3, <1>4, <1>5, <1>6, <1>7, <1>8, <1>9
    DEF Next, Client, Host

-----------------------------------------------------------------------------
(* The invariant is inductive.                                             *)
LEMMA IInvNext == IInv /\ [Next]_vars => IInv'
<1> SUFFICES ASSUME IInv, [Next]_vars PROVE Typed' /\ Orders' /\ Kept'
    BY SeenNext DEF IInv, Typed, Kept
<1>1. ASSUME NEW r \in Recipe, HostStarts(r) \/ HostReports(r) \/ HostEnds(r)
      PROVE  Typed' /\ Orders' /\ Kept'
    BY <1>1, SendTyped, HostOrdered, HostKept
<1>2. ASSUME NEW r \in Recipe, Drop(r) \/ WatchdogTimeout(r)
      PROVE  Typed' /\ Orders' /\ Kept'
  <2>1. /\ UNCHANGED <<main, doc, saved, pipe, host, owed>>
        /\ \A q \in Recipe : link'[q] = "up" => link[q] = "up"
      BY <1>2, LinkTypes DEF Drop, WatchdogTimeout, Cancelled, appVars
  <2> QED
      BY <1>2, <2>1, DropTyped, QuietOrdered, SameKept
<1>3. ASSUME NEW r \in Recipe, RunRecipe(r)
      PROVE  Typed' /\ Orders' /\ Kept'
  <2>1. UNCHANGED <<main, doc, saved, pipe, owed>>
      BY <1>3, BeginsAt DEF appVars
  <2> QED
      BY <1>3, <2>1, RunTyped, RunOrdered, SameKept
<1>4. ASSUME NEW r \in Recipe, ReadMessage(r)
      PROVE  Typed' /\ Orders' /\ Kept'
    BY <1>4, ReadTyped, ReadOrdered, ReadKept
<1>5. ASSUME NEW r \in Recipe, ProcessFinish(r)
      PROVE  Typed' /\ Orders' /\ Kept'
    BY <1>5, FinishTyped, FinishOrdered, FinishKept
<1>6. CASE QuitLoop
  <2>1. UNCHANGED <<doc, pipe, host, link>> /\ saved' = doc
      BY <1>6 DEF QuitLoop, hostVars
  <2> QED
      BY <1>6, <2>1, LoopTyped, QuietOrdered, QuitKept
<1>7. CASE Kill
  <2>1. /\ doc' = doc /\ saved' = saved
        /\ \A r \in Recipe : pipe'[r] = <<>> /\ link'[r] # "up"
      BY <1>7 DEF Kill, appVars
  <2> QED
      BY <1>7, <2>1, KillTyped, StopOrdered, KillKept
<1>8. CASE Restart
  <2>1. /\ doc' = saved /\ saved' = saved /\ pipe' = pipe /\ link' = link
        /\ \A r \in Recipe : conn[r] = "idle"
      BY <1>8 DEF Restart, hostVars, IInv, Idle
  <2>2. \A r \in Recipe : pipe'[r] = <<>> /\ link'[r] # "up"
      BY <2>1, LinkTypes
  <2> QED
      BY <1>8, <2>1, <2>2, RestartTyped, StopOrdered, KillKept
<1>9. CASE UNCHANGED vars
  <2>1. UNCHANGED <<main, doc, saved, pipe, host, link, owed>>
      BY <1>9 DEF vars, appVars, hostVars
  <2> QED
      BY <1>9, <2>1, LoopTyped, QuietOrdered, SameKept
<1> QED
    BY <1>1, <1>2, <1>3, <1>4, <1>5, <1>6, <1>7, <1>8, <1>9
    DEF Next, Client, Host

LEMMA Inductive == Spec => []IInv
<1> QED
    BY Initially, IInvNext, PTL DEF Spec

(* The types, and a recipe says what its tasks say, in memory and in       *)
(* job.xml (client.c:266, :570 and :1004).                                 *)
THEOREM RecipesSumUp == Spec => []RecipeSumsUp
<1>1. IInv => RecipeSumsUp
    BY DEF IInv
<1> QED
    BY Inductive, <1>1, PTL

(* What a host printed is on its way or in the result of its task, unless  *)
(* it went down with a connection or the client, and a job.xml that calls  *)
(* a task completed has its results (client.c:240 and :573).               *)
THEOREM NoResultForgotten == Spec => []ResultsKept
<1>1. IInv => ResultsKept
    BY DEF IInv
<1> QED
    BY Inductive, <1>1, PTL

(* A client that exits with success looked at the result of each recipe    *)
(* that it saw to its end, and each of them is good (client.c:1011).       *)
THEOREM SuccessIsGood == Spec => []NoHiddenFailure
<1>1. IInv => NoHiddenFailure
    BY DEF IInv, Seen, NoHiddenFailure
<1> QED
    BY Inductive, <1>1, PTL

(* The tasks of a recipe finish in their order, in memory and in job.xml,  *)
(* so that a host that is given the XML again runs all of them that are    *)
(* left when it starts at the first that is open (client.c:573).           *)
THEOREM TasksFinishInOrder == Spec => [](InOrder(doc) /\ InOrder(saved))
<1>1. IInv => InOrder(doc) /\ InOrder(saved)
    BY DEF IInv, Orders
<1> QED
    BY Inductive, <1>1, PTL

(* While the client runs, the status of a task that is completed or        *)
(* aborted is never set again: not by a message that was still to be read, *)
(* not by a host that is reached again, and not by recipe_finish           *)
(* (client.c:570 and :1004).                                               *)
FinishedStays ==
    main # "killed" =>
        \A t \in Job : doc.status[t] \in Final
                          => doc'.status[t] = doc.status[t]

LEMMA StaysNext == IInv /\ [Next]_vars => FinishedStays
<1> SUFFICES ASSUME IInv, [Next]_vars, main # "killed",
                    NEW t \in Job, doc.status[t] \in Final
             PROVE  doc'.status[t] = doc.status[t]
    BY DEF FinishedStays
<1>1. ASSUME NEW r \in Recipe, HostStarts(r) \/ HostReports(r) \/ HostEnds(r)
      PROVE  doc' = doc
  <2>1. PICK m : Sends(r, m)
      BY <1>1, HostSends
  <2> QED
      BY <2>1 DEF Sends, appVars
<1>2. ASSUME NEW r \in Recipe, Drop(r) \/ RunRecipe(r) \/ WatchdogTimeout(r)
      PROVE  doc' = doc
    BY <1>2 DEF Drop, RunRecipe, WatchdogTimeout, appVars
<1>3. ASSUME NEW r \in Recipe, ReadMessage(r)
      PROVE  doc'.status[t] = doc.status[t]
  <2>1. PICK m : m = pipe[r][1]
      OBVIOUS
  <2>2. /\ doc.status[m.task] \notin Final /\ doc \in Doc
        /\ ReadsStatus(m) \/ ReadsResult(m) \/ ReadsWatchdog(m)
      BY <1>3, <2>1, Reads, LinkTypes
  <2> QED
      BY <2>2 DEF ReadsStatus, ReadsResult, ReadsWatchdog, Doc
<1>4. ASSUME NEW r \in Recipe, ProcessFinish(r)
      PROVE  doc'.status[t] = doc.status[t]
    BY <1>4, Finishes
<1>5. CASE QuitLoop \/ Kill \/ Restart \/ UNCHANGED vars
    BY <1>5 DEF QuitLoop, Kill, Restart, vars, appVars
<1> QED
    BY <1>1, <1>2, <1>3, <1>4, <1>5 DEF Next, Client, Host

THEOREM FinishedForGood == Spec => [][FinishedStays]_vars
<1> QED
    BY Inductive, StaysNext, PTL DEF Spec
=============================================================================
