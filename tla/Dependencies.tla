---------------------------- MODULE Dependencies ----------------------------
(***************************************************************************)
(* dependency.c: what a task needs before it runs.  Each repodep is        *)
(* fetched, its metadata read and its own dependencies installed by a      *)
(* nested copy of the same procedure, whose end moves the cursor of its    *)
(* parent; then come the packages, in a batch of removals and one of       *)
(* installations, and then the soft ones, which may fail.  A step is the   *)
(* callback of what was started last, up to where it starts something      *)
(* else: it may end several nested copies at once.                         *)
(***************************************************************************)
EXTENDS Naturals, Sequences

CONSTANTS Tasks,           (* the main task and its repodeps               *)
          Main,
          Packages,
          Removals,        (* packages named with a leading "-"            *)
          Hard,            (* metadata->dependencies of each task          *)
          Soft,            (* metadata->softdependencies of the main task  *)
          Graphs           (* the metadata->repodeps to consider           *)

ASSUME DependencyAssumption ==
    /\ Main \in Tasks /\ Removals \subseteq Packages
    /\ Hard \in [Tasks -> Seq(Packages)] /\ Soft \in Seq(Packages)
    /\ Graphs \subseteq [Tasks -> Seq(Tasks)]

VARIABLES
    requires,   (* the repodeps of each task, one of Graphs                *)
    unpack,     (* fetch_method is TASK_FETCH_UNPACK, not a package        *)
    compat,     (* ignore_failed_install: rhts_compat                      *)
    stack,      (* the DependencyData, the innermost copy last             *)
    op,         (* what was started last and will call back                *)
    cancelled,  (* the cancellable                                         *)
    result,     (* what finish_cb of the main task was given               *)
    read,       (* history: tasks whose metadata was read                  *)
    settled,    (* history: packages dealt with, with their task           *)
    complete,   (* history: repodeps done with                             *)
    cause       (* history: something happened that may end it badly       *)

vars == <<requires, unpack, compat, stack, op, cancelled, result, read,
          settled, complete, cause>>

given == <<requires, unpack, compat>>

Elements(s) == {s[i] : i \in 1 .. Len(s)}

Commands == {"metadata", "remove", "install", "single", "soft"}

(* A DependencyData: the lists are cursors, remove and install the         *)
(* batches, name the task whose metadata it works on.                      *)
Data(t, state, soft, processed) ==
    [name |-> t, state |-> state, repodeps |-> requires[t],
     dependencies |-> Hard[t], soft |-> soft, processed |-> processed,
     remove |-> {}, install |-> {}]

Top == stack[Len(stack)]

Later(d) ==
    [d EXCEPT !.state = IF d.soft = <<>> THEN "DONE" ELSE "SOFT_RPM"]

(* dependency_batch_rpms: removals, then installations, then soft ones.    *)
Batch(d) == IF d.remove \cup d.install = {} THEN Later(d) ELSE d

(* dependency_rpm sorts the packages into the two batches.                 *)
Rpm(d) ==
    Batch([d EXCEPT !.state = "RPM",
                    !.remove = Elements(d.dependencies) \cap Removals,
                    !.install = Elements(d.dependencies) \ Removals])

(* dependency_handler, with restraint_fetch_repodeps for the first state:  *)
(* d as it is left when something was started, or DONE.                    *)
Handler(d) ==
    CASE d.state = "REPO" -> IF d.repodeps # <<>> THEN d ELSE Rpm(d)
      [] d.state = "RPM" -> Rpm(d)
      [] d.state = "SINGLE_RPM" ->
            IF d.dependencies # <<>> THEN d ELSE Later(d)
      [] d.state = "SOFT_RPM" -> Later(d)
      [] OTHER -> d

Started(d) ==
    CASE d.state = "REPO" -> "fetch"
      [] d.state = "RPM" -> IF d.remove # {} THEN "remove" ELSE "install"
      [] d.state = "SINGLE_RPM" -> "single"
      [] OTHER -> "soft"

(* The next repodep of d, or its packages after the last one.              *)
NextRepodep(d) == Handler([d EXCEPT !.repodeps = Tail(@)])

(* The copies s go on after a handler dealt with the innermost one.  Where *)
(* that is done, ldep_finish_cb moves the cursor of the copy around it,    *)
(* which may be done in turn: the innermost busy one is left.              *)
GoOn(s, without) ==
    LET Back(i) == IF i = Len(s) THEN s[i] ELSE NextRepodep(s[i])
        busy == {i \in 1 .. Len(s) : Back(i).state # "DONE"}
        k == CHOOSE i \in busy : \A j \in busy : j <= i
    IN IF busy = {}
       THEN /\ stack' = <<>> /\ op' = "none" /\ result' = "ok"
            /\ complete' = complete \cup without
                                \cup {s[i].name : i \in 1 .. Len(s)}
       ELSE /\ stack' = Append(SubSeq(s, 1, k - 1), Back(k))
            /\ op' = Started(Back(k))
            /\ complete' = complete \cup without
                                \cup {s[i].name : i \in k + 1 .. Len(s)}
            /\ UNCHANGED result

InTop(d) == [stack EXCEPT ![Len(stack)] = d]

(* finish_cb with an error, from the innermost copy to the main task.      *)
Fail ==
    /\ stack' = <<>> /\ op' = "none" /\ result' = "error"
    /\ UNCHANGED complete

Init ==
    /\ requires \in Graphs /\ unpack \in BOOLEAN /\ compat \in BOOLEAN
    /\ stack = <<>> /\ op = "start" /\ cancelled = FALSE
    /\ result = "none" /\ read = {Main} /\ settled = {} /\ complete = {}
    /\ cause = FALSE

FirstState_packages == "RPM"

(* Only a task that was unpacked has repodeps of its own to fetch.         *)
FirstState == IF unpack THEN "REPO" ELSE "RPM"

(* restraint_install_dependencies.                                         *)
InstallDependencies ==
    /\ op = "start"
    /\ GoOn(<<Handler(Data(Main, FirstState, Soft, {}))>>, {})
    /\ UNCHANGED <<given, cancelled, read, settled, cause>>

(* dep_mtdata_finish_cb: a copy of the innermost data for t, which keeps   *)
(* the soft dependencies and has its own copy of processed_deps.           *)
Nested(t, s) == Data(t, "REPO", s[Len(s)].soft, s[Len(s)].processed)

(* restraint_get_metadata called back for the repodep at the cursor of     *)
(* the innermost copy of s.                                                *)
Metadata(s, outcome) ==
    LET t == Head(s[Len(s)].repodeps)
    IN \/ /\ outcome = "parsed" /\ GoOn(Append(s, Handler(Nested(t, s))), {})
          /\ read' = read \cup {t} /\ UNCHANGED cause
       \/ /\ outcome = "unreadable" /\ Fail
          /\ cause' = TRUE /\ UNCHANGED read
       \/ /\ outcome = "missing"
          /\ GoOn([s EXCEPT ![Len(s)] = NextRepodep(@)], {t})
          /\ UNCHANGED <<read, cause>>

(* fetch_repodeps_finish_callback: a repodep met before is fetched all     *)
(* the same, and nothing else is done for it; without metadata and         *)
(* testinfo.desc, make is run to get the latter.                           *)
FetchFinished ==
    LET r == Head(Top.repodeps)
        new == InTop([Top EXCEPT !.processed = @ \cup {r}])
    IN /\ op = "fetch"
       /\ \/ Fail /\ cause' = TRUE /\ UNCHANGED read
          \/ /\ r \in Top.processed /\ GoOn(InTop(NextRepodep(Top)), {})
             /\ UNCHANGED <<read, cause>>
          \/ /\ r \notin Top.processed
             /\ \/ \E outcome \in {"parsed", "unreadable"} :
                       Metadata(new, outcome)
                \/ /\ stack' = new /\ op' = "metadata"
                   /\ UNCHANGED <<result, complete, read, cause>>
       /\ UNCHANGED <<given, cancelled, settled>>

(* mktinfo_cb: the exit code of make is not looked at.                     *)
TestinfoMade ==
    /\ op = "metadata"
    /\ \/ cancelled /\ Fail /\ UNCHANGED <<read, cause>>
       \/ /\ ~cancelled
          /\ \E outcome \in {"parsed", "unreadable", "missing"} :
                 Metadata(stack, outcome)
    /\ UNCHANGED <<given, cancelled, settled>>

Settle(packages) ==
    settled' = settled \cup {<<Top.name, p>> : p \in packages}

Fallback_toSoft(d) == Later([d EXCEPT !.remove = {}, !.install = {}])

(* Fall back to one-by-one installation mode.                              *)
Fallback(d) ==
    Handler([d EXCEPT !.state = "SINGLE_RPM", !.remove = {}, !.install = {}])

(* dependency_process_errors fails when cancelled, and on a bad exit code  *)
(* unless it is to be ignored; then goes on as after says.                 *)
Installed(packages, failed, after) ==
    \/ (cancelled \/ (failed /\ ~compat)) /\ Fail /\ cause' = TRUE
       /\ UNCHANGED settled
    \/ /\ ~cancelled /\ (failed => compat)
       /\ GoOn(InTop(after), {}) /\ Settle(packages) /\ UNCHANGED cause

(* dependency_batch_remove_cb and dependency_batch_install_cb.             *)
BatchFinished(failed) ==
    /\ \/ /\ op = "remove"
          /\ Installed(IF failed THEN {} ELSE Top.remove, failed,
                       IF failed THEN Fallback(Top)
                                 ELSE Batch([Top EXCEPT !.remove = {}]))
       \/ /\ op = "install"
          /\ Installed(IF failed THEN {} ELSE Top.install, failed,
                       IF failed THEN Fallback(Top)
                                 ELSE Later([Top EXCEPT !.install = {}]))
    /\ UNCHANGED <<given, cancelled, read>>

SingleFinished_sameAgain(failed) ==
    /\ op = "single"
    /\ Installed({Head(Top.dependencies)}, failed, Handler(Top))
    /\ UNCHANGED <<given, cancelled, read>>

(* dependency_callback: one package, whose failure is ignored too.         *)
SingleFinished(failed) ==
    /\ op = "single"
    /\ Installed({Head(Top.dependencies)}, failed,
                 Handler([Top EXCEPT !.dependencies = Tail(@)]))
    /\ UNCHANGED <<given, cancelled, read>>

(* softdependency_callback: the exit code is not looked at.                *)
SoftFinished(failed) ==
    /\ op = "soft"
    /\ \/ cancelled /\ Fail
       \/ /\ ~cancelled
          /\ GoOn(InTop(Handler([Top EXCEPT !.soft = Tail(@)])), {})
    /\ UNCHANGED <<given, cancelled, read, settled, cause>>

(* An abort request cancels, and what runs is killed.                      *)
Abort ==
    /\ ~cancelled /\ result = "none" /\ cancelled' = TRUE /\ cause' = TRUE
    /\ UNCHANGED <<given, stack, op, result, read, settled,
                   complete>>

Callback ==
    \/ InstallDependencies \/ FetchFinished \/ TestinfoMade
    \/ \E failed \in BOOLEAN : \/ BatchFinished(failed)
                               \/ SingleFinished(failed)
                               \/ SoftFinished(failed)

Next == Callback \/ Abort

Spec == Init /\ [][Next]_vars

(* Fetches end (see TaskFetch), and so do make and rstrnt-package.         *)
FairSpec == Spec /\ WF_vars(Callback)

----------------------------------------------------------------------------
DataType ==
    [name : Tasks, state : {"REPO", "RPM", "SINGLE_RPM", "SOFT_RPM"},
     repodeps : Seq(Tasks), dependencies : Seq(Packages),
     soft : Seq(Packages), processed : SUBSET Tasks,
     remove : SUBSET Removals, install : SUBSET (Packages \ Removals)]

(* Every variable has its type (checked with Truthful).                    *)
TypeOK ==
    /\ requires \in Graphs /\ unpack \in BOOLEAN /\ compat \in BOOLEAN
    /\ stack \in Seq(DataType)
    /\ op \in {"start", "none", "fetch"} \cup Commands
    /\ cancelled \in BOOLEAN /\ result \in {"none", "ok", "error"}
    /\ read \subseteq Tasks /\ settled \subseteq Tasks \X Packages
    /\ complete \subseteq Tasks /\ cause \in BOOLEAN

(* dependency.c answers truthfully.  With success, every package of every  *)
(* task it read was installed or removed, or tried on its own where        *)
(* failures are ignored, and every repodep was dealt with, if the  task    *)
(* was unpacked.  With an error, there was an abort, a fetch, a            *)
(* metadata file or a hard dependency that failed: soft ones never count.  *)
Truthful ==
    /\ TypeOK
    /\ result = "ok" =>
          \A t \in read :
              /\ \A p \in Elements(Hard[t]) : <<t, p>> \in settled
              /\ unpack => Elements(requires[t]) \subseteq complete
    /\ result = "error" => cause

(* Whatever the graph, also with cycles and repodeps met twice: a repodep  *)
(* is never being dealt with twice at a time, and no package of a task     *)
(* that was unpacked, the main one or a repodep, is touched before every   *)
(* repodep of it was dealt with, or is being dealt with around it.         *)
RepodepOrder ==
    /\ \A i, j \in 2 .. Len(stack) : stack[i].name = stack[j].name => i = j
    /\ \A i \in 1 .. Len(stack) :
          unpack /\ stack[i].state # "REPO" =>
              \A r \in Elements(requires[stack[i].name]) :
                  r \in complete \/ \E j \in 1 .. Len(stack) : stack[j].name = r

(* The dependencies of a task are installed or fail in the end: cycles of  *)
(* repodeps are cut, and no cursor stays where it is.                      *)
DependenciesEnd == <>(result # "none")

=============================================================================
