------------------------- MODULE TaskFetch_proofs --------------------------
(***************************************************************************)
(* The safety of TaskFetch: one finish for each attempt, and the right     *)
(* files when the fetch has ended well, for archives of any length, any    *)
(* number of retries and of reboots.                                       *)
(***************************************************************************)
EXTENDS TaskFetch, TLAPS

(* Nothing has gone wrong in the attempt under way, or at least not curl.  *)
Busy == outcome = "busy" /\ (error = "none" \/ ~curlFailed)

(* There is one source that leads to the finish.                           *)
OneStage ==
    /\ "unpack" \in sources \/ "read" \in sources \/ "finish" \in sources
    /\ ~("unpack" \in sources /\ "read" \in sources)
    /\ ~("unpack" \in sources /\ "finish" \in sources)
    /\ ~("read" \in sources /\ "finish" \in sources)

(* curl has sources only while start_unpack waits for it, and nothing is   *)
(* read before.                                                            *)
Waiting ==
    /\ "timer" \in sources \/ "socket" \in sources => "unpack" \in sources
    /\ "socket" \in sources => running
    /\ "unpack" \in sources => at = 0 /\ scheme = "uri"

Staged == Busy => OneStage /\ Waiting

(* What was read is as it should be, what was not is as it was.            *)
Right(e) ==
    IF keep /\ old[e] # "absent" THEN files[e] = old[e]
    ELSE IF e \in wanted THEN files[e] = "whole" ELSE Left(e)
Before(e) == IF keep /\ old[e] # "absent" THEN files[e] = old[e] ELSE Left(e)

Unpacked ==
    outcome = "busy" /\ error = "none" =>
        /\ \A e \in Entry : e <= at => Right(e)
        /\ \A e \in Entry : e > at => Before(e)
        /\ "finish" \in sources => /\ at = N \/ stream = "short"
                                   /\ scheme = "uri" => match > 0

Freed == stale => curlFailed

IInv == TypeOK /\ Staged /\ Unpacked /\ Freed /\ FetchedTree

USE FetchAssumption
    DEF vars, choiceVars, streamVars, readVars, taskVars, oldVars

-----------------------------------------------------------------------------
LEMMA InitOK == Init => IInv
<1> SUFFICES ASSUME Init PROVE IInv
  OBVIOUS
<1>1. wanted \subseteq Entry
  BY DEF Init
<1>2. /\ files \in [Entry -> {"absent", "mine", "whole", "part"}]
      /\ old = files
  BY DEF Init
<1>3. /\ cd \in BOOLEAN /\ running \in BOOLEAN
      /\ curlFailed \in BOOLEAN /\ stale \in BOOLEAN
  BY DEF Init
<1>4. TypeOK
  BY <1>1, <1>2, <1>3 DEF Init, TypeOK
<1> QED
  BY <1>4 DEF Init, IInv, Staged, Busy, Unpacked, Freed, FetchedTree

(* The strengthening says what FinishedOnce says.                          *)
LEMMA Implied == IInv => FinishedOnce
<1> SUFFICES ASSUME IInv PROVE FinishedOnce
  OBVIOUS
<1>1. ASSUME outcome = "busy", ~curlFailed
      PROVE  \E s \in Stages : sources \cap Stages = {s}
  <2>1. OneStage
    BY <1>1 DEF IInv, Staged, Busy
  <2>2. CASE "unpack" \in sources
    <3>1. sources \cap Stages = {"unpack"}
      BY <2>1, <2>2 DEF OneStage, Stages
    <3> QED  BY <3>1 DEF Stages
  <2>3. CASE "read" \in sources
    <3>1. sources \cap Stages = {"read"}
      BY <2>1, <2>3 DEF OneStage, Stages
    <3> QED  BY <3>1 DEF Stages
  <2>4. CASE "finish" \in sources
    <3>1. sources \cap Stages = {"finish"}
      BY <2>1, <2>4 DEF OneStage, Stages
    <3> QED  BY <3>1 DEF Stages
  <2> QED  BY <2>1, <2>2, <2>3, <2>4 DEF OneStage
<1> QED  BY <1>1 DEF IInv, FinishedOnce, Freed

-----------------------------------------------------------------------------
(* The start of an attempt.                                                *)
LEMMA StartOK == ASSUME IInv, FetchGit \/ FetchUri PROVE IInv'
<1>0. PICK left \in SUBSET {e \in Entry : There(e)} :
          files' = Removed(left) /\ removed' = (left = {})
  BY DEF FetchGit, FetchUri, Begin
<1>1. /\ outcome' = "busy" /\ old' = files /\ at' = 0
      /\ match' = 0 /\ running' = FALSE /\ stale' = stale
      /\ scheme' = scheme /\ keep' = keep /\ wanted' = wanted
      /\ retries' = retries /\ reboots' = reboots
      /\ curlFailed' = curlFailed
  BY DEF FetchGit, FetchUri, Begin
<1>2. TypeOK'
  <2>1. files' \in [Entry -> {"absent", "mine", "whole", "part"}]
    BY <1>0 DEF IInv, TypeOK, Removed, Emptied
  <2>2. cd' \in BOOLEAN
    BY DEF IInv, TypeOK, FetchGit, FetchUri
  <2>3. /\ sources' \subseteq {"timer", "socket", "unpack", "read", "finish"}
        /\ stream' \in {"none", "whole", "cut", "short", "other"}
        /\ error' \in {"none", "open", "archive", "nothing", "curl"}
    BY DEF FetchGit, FetchUri
  <2>4. /\ running' \in BOOLEAN /\ curlFailed' \in BOOLEAN
        /\ stale' \in BOOLEAN /\ keep' \in BOOLEAN
    BY <1>1 DEF IInv, TypeOK
  <2>6. removed' \in BOOLEAN
    BY <1>0
  <2>5. at' \in 0 .. N /\ match' \in 0 .. at'
    BY <1>1
  <2> QED  BY <1>1, <2>1, <2>2, <2>3, <2>4, <2>5, <2>6 DEF IInv, TypeOK
<1>3. Staged'
  <2>1. CASE FetchGit
    BY <1>1, <2>1 DEF Staged, OneStage, Waiting, FetchGit
  <2>2. CASE FetchUri
    BY <1>1, <2>2 DEF Staged, OneStage, Waiting, FetchUri, Begin
  <2> QED  BY <2>1, <2>2
<1>4. Unpacked'
  <2>1. \A e \in Entry : Before(e)'
    <3> SUFFICES ASSUME NEW e \in Entry PROVE Before(e)'
      OBVIOUS
    <3>1. CASE keep
      BY <1>0, <1>1, <3>1 DEF Before, Left, Removed
    <3>2. CASE ~keep
      <4>1. files'[e] = IF e \in left THEN files[e] ELSE "absent"
        BY <1>0, <3>2 DEF Removed, Emptied
      <4>2. e \in left => ~removed'
        BY <1>0
      <4> QED  BY <1>1, <3>2, <4>1, <4>2 DEF Before, Left
    <3> QED  BY <3>1, <3>2
  <2>2. error' = "none" => "finish" \notin sources'
    BY DEF FetchGit, FetchUri
  <2> QED  BY <1>1, <2>1, <2>2 DEF Unpacked, Entry
<1>5. Freed' /\ FetchedTree'
  BY <1>1 DEF IInv, Freed, FetchedTree
<1> QED  BY <1>2, <1>3, <1>4, <1>5 DEF IInv

(* The transfer only leaves and takes sources of curl.                     *)
LEMMA CurlOK == ASSUME IInv, Curl PROVE IInv'
<1>1. PICK source \in {"timer", "socket"} :
          CurlGoesOn(source) \/ TransferEnds(source) \/ CurlFails(source)
  BY DEF Curl
<1>2. /\ outcome = "busy" /\ outcome' = "busy" /\ source \in sources
      /\ UNCHANGED <<choiceVars, files, cd, at, match, taskVars, oldVars>>
  BY <1>1 DEF CurlGoesOn, TransferEnds, CurlFails, CurlCalled
<1>3. CASE CurlGoesOn(source)
  <2>1. /\ running' = TRUE /\ stream' = stream /\ curlFailed' = curlFailed
        /\ error' = error
        /\ \A s \in Stages : s \in sources' <=> s \in sources
        /\ sources' \subseteq sources \cup {"timer", "socket"}
    BY <1>3 DEF CurlGoesOn, Stages
  <2>2. TypeOK'
    BY <1>2, <2>1 DEF IInv, TypeOK
  <2>3. Staged'
    BY <1>1, <1>2, <2>1
       DEF IInv, Staged, Busy, OneStage, Waiting, Stages
  <2>4. Unpacked' /\ Freed' /\ FetchedTree'
    BY <1>2, <2>1
       DEF IInv, Unpacked, Right, Before, Left, Freed, FetchedTree, Stages
  <2> QED  BY <2>2, <2>3, <2>4 DEF IInv
<1>4. CASE TransferEnds(source)
  <2>1. /\ running' = FALSE /\ curlFailed' = curlFailed /\ error' = error
        /\ stream' \in {"whole", "cut", "short", "other"}
        /\ \A s \in Stages : s \in sources' <=> s \in sources
        /\ "timer" \notin sources' /\ "socket" \notin sources'
        /\ sources' \subseteq sources
    BY <1>4 DEF TransferEnds, Stages
  <2>2. TypeOK'
    BY <1>2, <2>1, ZenonT(30) DEF IInv, TypeOK
  <2>3. Staged'
    BY <1>1, <1>2, <2>1
       DEF IInv, Staged, Busy, OneStage, Waiting, Stages
  <2>4. Unpacked' /\ Freed' /\ FetchedTree'
    <3>1. ASSUME error = "none" PROVE "finish" \notin sources'
      BY <1>1, <1>2, <2>1, <3>1
         DEF IInv, Staged, Busy, OneStage, Waiting, Stages
    <3> QED  BY <1>2, <2>1, <3>1
             DEF IInv, Unpacked, Right, Before, Left, Freed, FetchedTree
  <2> QED  BY <2>2, <2>3, <2>4 DEF IInv
<1>5. CASE CurlFails(source)
  <2>1. /\ curlFailed' = TRUE /\ error' = "curl" /\ stream' = stream
        /\ running' \in BOOLEAN
        /\ sources' \subseteq sources \cup {"finish"}
    BY <1>5 DEF CurlFails
  <2>2. TypeOK'
    BY <1>2, <2>1 DEF IInv, TypeOK
  <2> QED  BY <1>2, <2>1, <2>2
           DEF IInv, Staged, Busy, Unpacked, Freed, FetchedTree
<1> QED  BY <1>1, <1>3, <1>4, <1>5

LEMMA StartUnpackOK == ASSUME IInv, StartUnpack PROVE IInv'
<1>1. /\ outcome = "busy" /\ "unpack" \in sources /\ ~running
      /\ "timer" \notin sources
      /\ UNCHANGED <<choiceVars, outcome, files, streamVars, at, match,
                     taskVars, oldVars>>
      /\ error' = error \/ error' = "archive"
      /\ \/ sources' = (sources \ {"unpack"}) \cup {"read"} /\ error' = error
         \/ sources' = (sources \ {"unpack"}) \cup {"finish"}
            /\ error' = "archive"
  BY DEF StartUnpack
<1>2. TypeOK'
  BY <1>1, ZenonT(30) DEF IInv, TypeOK
<1>3. Staged'
  BY <1>1 DEF IInv, Staged, Busy, OneStage, Waiting
<1>4. Unpacked'
  <2> SUFFICES ASSUME error' = "none" PROVE Unpacked'
    BY DEF Unpacked
  <2>1. error = "none" /\ sources' = (sources \ {"unpack"}) \cup {"read"}
    BY <1>1
  <2> QED  BY <1>1, <2>1 DEF IInv, Unpacked, Right, Before, Left
<1>5. Freed' /\ FetchedTree'
  BY <1>1 DEF IInv, Freed, FetchedTree
<1> QED  BY <1>2, <1>3, <1>4, <1>5 DEF IInv

-----------------------------------------------------------------------------
(* Reading.  While an entry is read nothing of curl is left.               *)
LEMMA ReadStaged ==
  ASSUME IInv, Read, outcome' = "busy", curlFailed' = curlFailed,
         sources' = sources \/ sources' = ReadEnds,
         error' = "none" => error = "none",
         stream' = stream, scheme' = scheme
  PROVE  Staged'
  BY DEF IInv, Read, Staged, Busy, OneStage, Waiting, ReadEnds

LEMMA ReadOK == ASSUME IInv, Read PROVE IInv'
<1>1. /\ outcome = "busy" /\ outcome' = "busy" /\ "read" \in sources
      /\ UNCHANGED <<choiceVars, streamVars, taskVars, oldVars>>
  BY DEF Read
<1>2. Freed' /\ FetchedTree'
  BY <1>1 DEF IInv, Freed, FetchedTree
<1>3. CASE ReadEof \/ ReadError
  <2>1. /\ files' = files /\ at' = at /\ match' = match
        /\ sources' = ReadEnds
        /\ error' \in {error, "nothing", "archive"}
        /\ error' = "none" => error = "none" /\ ReadEof /\ ~Nothing
    BY <1>3 DEF ReadEof, ReadError
  <2>2. TypeOK'
    BY <1>1, <2>1 DEF IInv, TypeOK, ReadEnds
  <2>3. Staged'
    BY <1>1, <2>1, ReadStaged
  <2>4. Unpacked'
    <3> SUFFICES ASSUME error' = "none" PROVE Unpacked'
      BY DEF Unpacked
    <3>1. (at = N \/ stream = "short") /\ (scheme = "uri" => match > 0)
      BY <2>1 DEF IInv, TypeOK, ReadEof, AtEnd, Nothing
    <3> QED  BY <1>1, <2>1, <3>1 DEF IInv, Unpacked, Right, Before, Left
  <2> QED  BY <1>2, <2>2, <2>3, <2>4 DEF IInv
<1>4. CASE Skip
  <2>1. /\ UNCHANGED <<files, match, error, sources>> /\ at' = at + 1
        /\ at < N
        /\ at' \notin wanted \/ Kept(at')
    BY <1>4 DEF Skip, Entered
  <2>2. TypeOK'
    BY <1>1, <2>1 DEF IInv, TypeOK
  <2>3. Staged'
    BY <1>1, <2>1, ReadStaged
  <2>4. Unpacked'
    <3> SUFFICES ASSUME error = "none" PROVE Unpacked'
      BY <2>1 DEF Unpacked
    <3>0. PICK k \in Entry : k = at + 1
      BY <2>1 DEF IInv, TypeOK, Entry
    <3>1. Before(k)
      BY <1>1, <2>1, <3>0 DEF IInv, TypeOK, Unpacked, Entry
    <3>2. Right(k)'
      BY <1>1, <2>1, <3>0, <3>1 DEF Right, Before, Left, Kept, There
    <3>3. ASSUME NEW e \in Entry PROVE (e <= at' => Right(e)')
                                        /\ (e > at' => Before(e)')
      <4>1. e <= at' <=> e <= at \/ e = k
        BY <2>1, <3>0 DEF IInv, TypeOK, Entry
      <4>2. Right(e) => Right(e)'
        BY <1>1, <2>1 DEF Right, Left
      <4>3. Before(e) => Before(e)'
        BY <1>1, <2>1 DEF Before, Left
      <4>4. e > at' => e > at
        BY <2>1 DEF IInv, TypeOK, Entry
      <4> QED  BY <1>1, <3>2, <4>1, <4>2, <4>3, <4>4 DEF IInv, Unpacked
    <3>4. "finish" \notin sources'
      BY <1>1, <2>1 DEF IInv, Staged, Busy, OneStage
    <3> QED  BY <3>3, <3>4 DEF Unpacked
  <2> QED  BY <1>2, <2>2, <2>3, <2>4 DEF IInv
<1>5. CASE Extract
  <2>1. /\ at' = at + 1 /\ at < N
        /\ at' \in wanted /\ ~Kept(at')
        /\ \/ /\ files' = [files EXCEPT ![at'] = "whole"]
              /\ match' = match + 1 /\ error' = error /\ sources' = sources
           \/ /\ files' = [files EXCEPT ![at'] = "part"]
              /\ error' = "archive" /\ sources' = ReadEnds /\ match' = match
    BY <1>5 DEF Extract, Entered
  <2>2. at' \in Entry
    BY <2>1 DEF IInv, TypeOK, Entry
  <2>3. TypeOK'
    <3>1. files' \in [Entry -> {"absent", "mine", "whole", "part"}]
      BY <2>1, <2>2 DEF IInv, TypeOK
    <3>2. at' \in 0 .. N /\ match' \in 0 .. at'
      BY <2>1 DEF IInv, TypeOK
    <3>3. /\ sources' \subseteq {"timer", "socket", "unpack", "read", "finish"}
          /\ error' \in {"none", "open", "archive", "nothing", "curl"}
      BY <2>1 DEF IInv, TypeOK, ReadEnds
    <3> QED  BY <1>1, <3>1, <3>2, <3>3 DEF IInv, TypeOK
  <2>4. Staged'
    BY <1>1, <2>1, ReadStaged
  <2>5. Unpacked'
    <3> SUFFICES ASSUME error' = "none" PROVE Unpacked'
      BY DEF Unpacked
    <3>1. /\ error = "none" /\ files' = [files EXCEPT ![at'] = "whole"]
          /\ sources' = sources
      BY <2>1
    <3>0. PICK k \in Entry : k = at + 1
      BY <2>1, <2>2
    <3>2. Before(k)
      BY <1>1, <2>1, <3>0, <3>1 DEF IInv, TypeOK, Unpacked, Entry
    <3>3. files'[k] = "whole"
          /\ \A e \in Entry : e # k => files'[e] = files[e]
      BY <2>1, <3>0, <3>1 DEF IInv, TypeOK
    <3>4. Right(k)'
      BY <1>1, <2>1, <3>0, <3>2, <3>3 DEF Right, Before, Left, Kept, There
    <3>5. ASSUME NEW e \in Entry PROVE (e <= at' => Right(e)')
                                        /\ (e > at' => Before(e)')
      <4>1. e <= at' <=> e <= at \/ e = k
        BY <2>1, <3>0 DEF IInv, TypeOK, Entry
      <4>2. e # k => (Right(e) => Right(e)') /\ (Before(e) => Before(e)')
        BY <1>1, <3>3 DEF Right, Before, Left
      <4>3. e > at' => e > at /\ e # k
        BY <2>1, <3>0 DEF IInv, TypeOK, Entry
      <4>4. e <= at => e # k
        BY <2>1, <3>0 DEF IInv, TypeOK, Entry
      <4> QED  BY <1>1, <3>1, <3>4, <4>1, <4>2, <4>3, <4>4 DEF IInv, Unpacked
    <3>6. "finish" \notin sources'
      BY <1>1, <3>1 DEF IInv, Staged, Busy, OneStage
    <3> QED  BY <3>5, <3>6 DEF Unpacked
  <2> QED  BY <1>2, <2>3, <2>4, <2>5 DEF IInv
<1> QED  BY <1>3, <1>4, <1>5 DEF Read

-----------------------------------------------------------------------------
LEMMA FinishOK == ASSUME IInv, Finish PROVE IInv'
<1>1. /\ outcome = "busy" /\ "finish" \in sources /\ sources' = {}
      /\ outcome' \in {"ok", "wait", "failed"}
      /\ outcome' = "ok" => error = "none"
      /\ UNCHANGED <<choiceVars, files, streamVars, readVars, reboots,
                     oldVars>>
      /\ stale' = (stale \/ sources # {"finish"})
  BY DEF Finish, FetchFinish
<1>2. TypeOK'
  <2>1. retries' \in 0 .. MaxRetries
    BY DEF IInv, TypeOK, Finish, FetchFinish, MayRetry, Retried
  <2>2. stale' \in BOOLEAN
    BY <1>1 DEF IInv, TypeOK
  <2> QED  BY <1>1, <2>1, <2>2 DEF IInv, TypeOK
<1>3. Freed'
  <2>1. ASSUME ~curlFailed PROVE sources = {"finish"}
    <3>1. OneStage /\ Waiting
      BY <1>1, <2>1 DEF IInv, Staged, Busy
    <3> QED  BY <1>1, <3>1 DEF IInv, TypeOK, OneStage, Waiting
  <2> QED  BY <1>1, <2>1 DEF IInv, Freed
<1>4. FetchedTree'
  <2> SUFFICES ASSUME outcome' = "ok" PROVE FetchedTree'
    BY DEF FetchedTree
  <2>2. error = "none" /\ (at = N \/ stream = "short")
        /\ (scheme = "uri" => match > 0)
    BY <1>1 DEF IInv, Unpacked
  <2>3. ASSUME NEW e \in Entry PROVE Missing(e) \/ Right(e)
    BY <1>1, <2>2 DEF IInv, TypeOK, Unpacked, Entry, Missing
  <2>4. ASSUME NEW e \in Entry, Missing(e) PROVE Before(e)
    BY <1>1, <2>2, <2>4 DEF IInv, Unpacked, Missing
  <2> QED  BY <1>1, <2>2, <2>3, <2>4
           DEF FetchedTree, Right, Before, Left, Missing
<1> QED  BY <1>1, <1>2, <1>3, <1>4 DEF IInv, Staged, Busy, Unpacked

LEMMA RestOK ==
  ASSUME IInv, NullDereferenced \/ UsedAfterFree \/ FetchRetry \/ Reboot
  PROVE  IInv'
<1>1. CASE NullDereferenced \/ UsedAfterFree
  <2>1. /\ outcome' = "crashed"
        /\ UNCHANGED <<choiceVars, files, sources, streamVars, readVars,
                       taskVars, oldVars>>
    BY <1>1 DEF NullDereferenced, UsedAfterFree, Dies
  <2>2. TypeOK'
    BY <2>1 DEF IInv, TypeOK
  <2> QED  BY <2>1, <2>2 DEF IInv, Staged, Busy, Unpacked, Freed, FetchedTree
<1>2. CASE FetchRetry
  <2>1. /\ outcome' = "fetch"
        /\ UNCHANGED <<choiceVars, files, sources, streamVars, readVars,
                       taskVars, oldVars>>
    BY <1>2 DEF FetchRetry
  <2>2. TypeOK'
    BY <2>1 DEF IInv, TypeOK
  <2> QED  BY <2>1, <2>2 DEF IInv, Staged, Busy, Unpacked, Freed, FetchedTree
<1>3. CASE Reboot
  <2>1. /\ outcome' = "fetch" /\ sources' = {} /\ retries' = 0
        /\ stale' = FALSE /\ curlFailed' = FALSE
        /\ reboots < MaxReboots /\ reboots' = reboots + 1
        /\ UNCHANGED <<choiceVars, files, cd, running, stream, readVars,
                       oldVars>>
    BY <1>3 DEF Reboot
  <2>2. reboots' \in 0 .. MaxReboots /\ retries' \in 0 .. MaxRetries
    BY <2>1 DEF IInv, TypeOK
  <2>3. curlFailed' \in BOOLEAN /\ stale' \in BOOLEAN
    BY <2>1
  <2>4. TypeOK'
    BY <2>1, <2>2, <2>3 DEF IInv, TypeOK
  <2> QED  BY <2>1, <2>4 DEF IInv, Staged, Busy, Unpacked, Freed, FetchedTree
<1> QED  BY <1>1, <1>2, <1>3

LEMMA Inductive == IInv /\ [Next]_vars => IInv'
<1> SUFFICES ASSUME IInv, [Next]_vars PROVE IInv'
  OBVIOUS
<1>1. CASE UNCHANGED vars
  BY <1>1 DEF IInv, TypeOK, Staged, Busy, OneStage, Waiting, Unpacked, Right,
              Before, Left, Missing, Freed, FetchedTree
<1>2. CASE Next
  BY <1>2, StartOK, CurlOK, StartUnpackOK, ReadOK, FinishOK, RestOK DEF Next
<1> QED  BY <1>1, <1>2

(* Each attempt is finished with once, and unless curl itself failed no    *)
(* source refers to a fetch_data that was freed (archive_finish_callback). *)
THEOREM FinishesOnce == Spec => []FinishedOnce
<1>1. Spec => []IInv
  BY InitOK, Inductive, PTL DEF Spec
<1> QED  BY <1>1, Implied, PTL

(* A fetch that ended well left the files the task asked for, whatever an  *)
(* earlier attempt or a reboot had left, but for the entries that a stream *)
(* which ended early did not bring, what rmrf could not remove, and what   *)
(* keepchanges kept of a broken attempt (git_archive_read_callback,        *)
(* http_archive_read_callback and rmrf).                                   *)
THEOREM FetchesTree == Spec => []FetchedTree
<1>1. Spec => []IInv
  BY InitOK, Inductive, PTL DEF Spec
<1>2. IInv => FetchedTree
  BY DEF IInv
<1> QED  BY <1>1, <1>2, PTL

=============================================================================
