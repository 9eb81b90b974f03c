----------------------------- MODULE TaskFetch -----------------------------
(***************************************************************************)
(* fetch_git.c and fetch_uri.c, and restraint_task_fetch of task.c with    *)
(* its retries: the files of a task are unpacked from the stream of a git  *)
(* server, or from an archive that curl has downloaded into memory.  Each  *)
(* attempt has a FetchData that the sources of the main loop refer to and  *)
(* that is freed when the attempt is finished with.  With keepchanges what *)
(* is there already is kept.                                               *)
(*                                                                         *)
(* The content of the archive is a sequence of entries; libarchive, curl   *)
(* and the servers are external.  A stream that is cut is noticed by the   *)
(* transport or by libarchive, but not always: one that ends between two   *)
(* entries, or before the first, is a shorter archive to them.  Left out:  *)
(* the name that an entry gets below the task, the lines logged for it,    *)
(* and fetching a package, which is one command.                           *)
(***************************************************************************)
EXTENDS Naturals

CONSTANTS N,               (* entries of the archive                       *)
          MaxRetries,      (* TASK_FETCH_RETRIES                           *)
          MaxReboots       (* bound: reboots                               *)

ASSUME FetchAssumption ==
    /\ N \in Nat \ {0} /\ MaxRetries \in Nat /\ MaxReboots \in Nat

VARIABLES
    scheme,     (* git or uri: how the task is fetched                     *)
    keep,       (* task->keepchanges                                       *)
    wanted,     (* entries that the fragment of the URL selects            *)
    outcome,    (* what the fetch has come to                              *)
    files,      (* what is in the directory of the task                    *)
    sources,    (* sources of the main loop that refer to fetch_data       *)
    cd,         (* fetch_data->private_data is not NULL                    *)
    running,    (* cd->running                                             *)
    stream,     (* what the server sent                                    *)
    at,         (* entries read from it                                    *)
    match,      (* fetch_data->match_cnt                                   *)
    error,      (* fetch_data->error                                       *)
    retries,    (* app_data->fetch_retries                                 *)
    reboots,    (* counter for the bound                                   *)
    old,        (* history: the files when the attempt began               *)
    removed,    (* history: rmrf succeeded in this attempt                 *)
    curlFailed, (* history: curl_multi_socket_action has failed            *)
    stale       (* history: a source refers to a fetch_data that is freed  *)

choiceVars == <<scheme, keep, wanted>>
streamVars == <<cd, running, stream, curlFailed>>
readVars == <<at, match, error>>
taskVars == <<retries, reboots, stale>>
oldVars == <<old, removed>>
vars == <<choiceVars, outcome, files, sources, streamVars, readVars, taskVars,
          oldVars>>

Entry == 1 .. N
There(e) == files[e] # "absent"

(* A task is fetched for the first time, or an earlier run has left files  *)
(* that the user may have changed.                                         *)
Init ==
    /\ scheme \in {"git", "uri"} /\ keep \in BOOLEAN
    /\ wanted \in IF scheme = "git" THEN {Entry} ELSE SUBSET Entry
    /\ files \in [Entry -> {"absent", "mine"}] /\ old = files /\ removed = TRUE
    /\ outcome = "fetch" /\ sources = {}
    /\ cd = FALSE /\ running = FALSE /\ stream = "none" /\ curlFailed = FALSE
    /\ at = 0 /\ match = 0 /\ error = "none"
    /\ retries = 0 /\ reboots = 0 /\ stale = FALSE

-----------------------------------------------------------------------------
(* The start of an attempt.                                                *)
Emptied(left) == [e \in Entry |-> IF e \in left THEN files[e] ELSE "absent"]

Removed_always(left) == Emptied(left)

(* rmrf, unless changes are kept.  It stops at what it cannot remove, and  *)
(* nobody asks: what is left is there when the archive is unpacked.        *)
Removed(left) == IF keep THEN files ELSE Emptied(left)

Begin(method) ==
    /\ outcome = "fetch" /\ scheme = method
    /\ outcome' = "busy"
    /\ \E left \in SUBSET {e \in Entry : There(e)} :
          files' = Removed(left) /\ removed' = (left = {})
    /\ old' = files
    /\ running' = FALSE /\ at' = 0 /\ match' = 0
    /\ UNCHANGED <<choiceVars, taskVars>>

(* restraint_fetch_git talks to the server before it returns: connect,     *)
(* request, ACK and flush, any of which may fail.  A later flush packet is *)
(* the end of the file to libarchive, wherever it comes (myread).          *)
FetchGit ==
    /\ Begin("git")
    /\ \/ sources' = {"read"} /\ error' = "none"
       \/ sources' = {"finish"} /\ error' = "open"
    /\ stream' \in {"whole", "cut", "short"}
    /\ UNCHANGED <<cd, curlFailed>>

(* restraint_fetch_uri: update_timeout_cb arms timer_cb with 0 ms, and     *)
(* start_unpack looks at the transfer every 500.  What fails before        *)
(* private_data is set leaves none, what fails in myopen does.             *)
FetchUri ==
    /\ Begin("uri")
    /\ \/ sources' = {"timer", "unpack"} /\ error' = "none" /\ cd' = TRUE
       \/ sources' = {"finish"} /\ error' = "open" /\ cd' \in BOOLEAN
    /\ stream' = "none"
    /\ UNCHANGED curlFailed

-----------------------------------------------------------------------------
(* The transfer.  curl_multi_socket_action leaves a timer or a watch while *)
(* it has work; check_multi_info does not look at how the transfer ended.  *)
CurlCalled(source) ==
    /\ outcome = "busy" /\ source \in sources
    /\ UNCHANGED <<choiceVars, outcome, files, cd, at, match, taskVars,
                   oldVars>>

CurlGoesOn(source) ==
    /\ CurlCalled(source)
    /\ running' = TRUE
    /\ \E left \in {{"timer"}, {"socket"}, {"timer", "socket"}} :
          sources' = (sources \ {"timer", "socket"}) \cup left
    /\ UNCHANGED <<stream, curlFailed, error>>

TransferEnds(source) ==
    /\ CurlCalled(source)
    /\ running' = FALSE
    /\ sources' = sources \ {"timer", "socket"}
    /\ stream' \in {"whole", "cut", "short", "other"}
    /\ UNCHANGED <<curlFailed, error>>

CurlFails(source) ==
    /\ CurlCalled(source)
    /\ curlFailed' = TRUE /\ error' = "curl"
    /\ sources' = (sources \ {source}) \cup {"finish"}
    /\ running' \in BOOLEAN
    /\ UNCHANGED stream

(* timer_cb and event_cb.                                                  *)
Curl ==
    \E source \in {"timer", "socket"} :
        CurlGoesOn(source) \/ TransferEnds(source) \/ CurlFails(source)

(* start_unpack.  The timer of curl, armed earlier with 0 ms, is first.    *)
StartUnpack ==
    /\ outcome = "busy" /\ "unpack" \in sources
    /\ ~running /\ "timer" \notin sources
    /\ \/ /\ stream \in {"whole", "cut", "short"}
          /\ sources' = (sources \ {"unpack"}) \cup {"read"}
          /\ UNCHANGED error
       \/ /\ stream # "whole"
          /\ sources' = (sources \ {"unpack"}) \cup {"finish"}
          /\ error' = "archive"
    /\ UNCHANGED <<choiceVars, outcome, files, streamVars, at, match, taskVars,
                   oldVars>>

-----------------------------------------------------------------------------
(* git_archive_read_callback and http_archive_read_callback: an idle       *)
(* source that reads one entry each time, until it adds the finish.        *)
ReadEnds_kept == sources \cup {"finish"}
ReadEnds == (sources \ {"read"}) \cup {"finish"}

AtEnd == stream = "short" \/ (stream = "whole" /\ at = N)
Nothing == scheme = "uri" /\ match = 0

ReadEof ==
    /\ AtEnd
    /\ error' = IF Nothing THEN "nothing" ELSE error
    /\ sources' = ReadEnds
    /\ UNCHANGED <<files, at, match>>

ReadError ==
    /\ stream = "cut"
    /\ error' = "archive" /\ sources' = ReadEnds
    /\ UNCHANGED <<files, at, match>>

Kept(e) == keep /\ There(e)
Entered ==
    /\ stream \in {"whole", "cut", "short"} /\ at < N
    /\ at' = at + 1

Skip ==
    /\ Entered
    /\ at' \notin wanted \/ Kept(at')
    /\ UNCHANGED <<files, match, error, sources>>

(* The disk may be full, and the stream may break in the middle of a file. *)
Extract ==
    /\ Entered
    /\ at' \in wanted /\ ~Kept(at')
    /\ \/ /\ files' = [files EXCEPT ![at'] = "whole"]
          /\ match' = match + 1
          /\ UNCHANGED <<error, sources>>
       \/ /\ files' = [files EXCEPT ![at'] = "part"]
          /\ error' = "archive" /\ sources' = ReadEnds
          /\ UNCHANGED match

Read ==
    /\ outcome = "busy" /\ "read" \in sources
    /\ ReadEof \/ ReadError \/ Skip \/ Extract
    /\ UNCHANGED <<choiceVars, outcome, streamVars, taskVars, oldVars>>

-----------------------------------------------------------------------------
(* archive_finish_callback frees fetch_data and calls                      *)
(* fetch_finish_callback.  That of fetch_uri.c follows private_data first. *)
MayRetry == retries < MaxRetries
Retried_uncounted == retries
Retried == retries + 1

FetchFinish ==
    /\ retries' = IF error # "none" /\ MayRetry THEN Retried ELSE retries
    /\ outcome' = IF error = "none" THEN "ok"
                  ELSE IF MayRetry THEN "wait" ELSE "failed"

Finish ==
    /\ outcome = "busy" /\ "finish" \in sources
    /\ scheme = "uri" => cd
    /\ FetchFinish
    /\ stale' = (stale \/ sources # {"finish"})
    /\ sources' = {}
    /\ UNCHANGED <<choiceVars, files, streamVars, readVars, reboots, oldVars>>

Dies ==
    /\ outcome # "crashed" /\ outcome' = "crashed"
    /\ UNCHANGED <<choiceVars, files, sources, streamVars, readVars, taskVars,
                   oldVars>>

NullDereferenced ==
    /\ outcome = "busy" /\ "finish" \in sources /\ scheme = "uri" /\ ~cd
    /\ Dies

(* Undefined: a source uses what was freed, which goes well or does not.   *)
UsedAfterFree == stale /\ Dies

FetchRetry ==
    /\ outcome = "wait" /\ outcome' = "fetch"
    /\ UNCHANGED <<choiceVars, files, sources, streamVars, readVars, taskVars,
                   oldVars>>

(* Until the task is started a reboot fetches it again, with the files     *)
(* there are.                                                              *)
Reboot ==
    /\ reboots < MaxReboots /\ reboots' = reboots + 1
    /\ outcome # "failed" /\ outcome' = "fetch"
    /\ sources' = {} /\ retries' = 0 /\ stale' = FALSE /\ curlFailed' = FALSE
    /\ UNCHANGED <<choiceVars, files, cd, running, stream, readVars, oldVars>>

Next ==
    \/ FetchGit \/ FetchUri \/ StartUnpack \/ Read \/ Finish \/ FetchRetry
    \/ NullDereferenced \/ UsedAfterFree \/ Reboot \/ Curl

(* The main loop runs its sources.  A transfer ends: nothing but the       *)
(* server sees to it, for curl is given no time limit and the main loop    *)
(* waits for git in read().                                                *)
Spec ==
    /\ Init /\ [][Next]_vars
    /\ WF_vars(FetchGit \/ FetchUri) /\ WF_vars(StartUnpack) /\ WF_vars(Read)
    /\ WF_vars(Finish \/ NullDereferenced) /\ WF_vars(FetchRetry)
    /\ SF_vars(\E source \in {"timer", "socket"} : TransferEnds(source))

-----------------------------------------------------------------------------
(* Every variable has its type (checked with FinishedOnce).                *)
TypeOK ==
    /\ scheme \in {"git", "uri"} /\ keep \in BOOLEAN /\ wanted \subseteq Entry
    /\ outcome \in {"fetch", "busy", "wait", "ok", "failed", "crashed"}
    /\ files \in [Entry -> {"absent", "mine", "whole", "part"}]
    /\ old \in [Entry -> {"absent", "mine", "whole", "part"}]
    /\ sources \subseteq {"timer", "socket", "unpack", "read", "finish"}
    /\ cd \in BOOLEAN /\ running \in BOOLEAN
    /\ curlFailed \in BOOLEAN /\ stale \in BOOLEAN /\ removed \in BOOLEAN
    /\ stream \in {"none", "whole", "cut", "short", "other"}
    /\ at \in 0 .. N /\ match \in 0 .. at
    /\ error \in {"none", "open", "archive", "nothing", "curl"}
    /\ retries \in 0 .. MaxRetries /\ reboots \in 0 .. MaxReboots

(* A fetch is finished with once and nothing of it is left in the main     *)
(* loop: a source that refers to a freed fetch_data comes of a failure of  *)
(* curl itself, whose handlers add the finish and leave start_unpack and   *)
(* the other source behind (fetch_uri.c:270 and :336).                     *)
Stages == {"unpack", "read", "finish"}
FinishedOnce ==
    /\ TypeOK
    /\ stale => curlFailed
    /\ outcome = "busy" /\ ~curlFailed =>
          \E s \in Stages : sources \cap Stages = {s}

(* What is there when the fetch has ended well is what the task asked for: *)
(* each entry the fragment selects, whole, in place of what an earlier     *)
(* attempt, a reboot in the middle or the user left, and nothing else; and *)
(* with keepchanges what was there, as it was (git_archive_read_callback,  *)
(* http_archive_read_callback and rmrf).  The code lets three things pass  *)
(* for a good fetch: the entries missing from a stream that ended early    *)
(* between two of them (none at all only with git), what rmrf left when it *)
(* failed, and, with keepchanges, a file that an earlier attempt broke     *)
(* off in.                                                                 *)
Missing(e) == stream = "short" /\ e > at

Left(e) == files[e] = "absent" \/ (~removed /\ files[e] = old[e])

FetchedTree ==
    outcome = "ok" =>
        /\ \A e \in Entry :
              IF keep /\ old[e] # "absent" THEN files[e] = old[e]
              ELSE IF e \in wanted /\ ~Missing(e) THEN files[e] = "whole"
              ELSE Left(e)
        /\ scheme = "uri" => match > 0

(* The fetch ends, well or not, within its retries (task.c:101), whatever  *)
(* the server sends, if it does send or close; or restraintd dies.         *)
FetchEnds == []<>(outcome \in {"ok", "failed", "crashed"})

(* With keepchanges the user keeps what is in the directory of the task    *)
(* (docs/jobs.rst:83): a whole archive, all of whose files are there, is   *)
(* no reason to fail.                                                      *)
KeepIsNoError ==
    keep /\ wanted # {} /\ (\A e \in wanted : old[e] # "absent")
        => error # "nothing" \/ stream # "whole"
=============================================================================
