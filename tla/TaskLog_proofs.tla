--------------------------- MODULE TaskLog_proofs ---------------------------
(***************************************************************************)
(* The safety of TaskLog.tla, for any recipe, any length of the logs and   *)
(* of a chunk, and any number of reboots.                                  *)
(*                                                                         *)
(* What is queued of one log is a chain (Chain): its chunks are in order,  *)
(* each begins where the one before it ended, the first where the part of  *)
(* the controller ends, and the last ends at the offset of the config      *)
(* file.  A chain is extended at its end by an upload, shortened at its    *)
(* head by an answer, and emptied by a reboot.  What a running task has    *)
(* logged is with the controller, in the chain before the end of the task, *)
(* or beyond the offset (Owed); the rest says where the uploader is        *)
(* (Uploading), that the offset in memory is that of the config file when  *)
(* it is used, or 0 and nothing is queued if it was not read (Offsets),    *)
(* and that the end of the current task is the only one in the queue       *)
(* (Ends).                                                                 *)
(***************************************************************************)
EXTENDS TaskLog, SequenceTheorems, TLAPS

(* The chunks of the log of t in a queue, and what holds for them when the *)
(* offset is at end and the controller has some of the log and lost some.  *)
Holds(q, t, i) == i \in 1 .. Len(q) /\ ~q[i].end /\ q[i].task = t

Ranges(q, t, end) ==
    \A i \in 1 .. Len(q) :
        Holds(q, t, i) => q[i].from < q[i].to /\ q[i].to <= end
Sorted(q, t) ==
    \A i, j \in 1 .. Len(q) :
        Holds(q, t, i) /\ Holds(q, t, j) /\ i < j => q[i].to <= q[j].from
Linked(q, t, has) ==
    \A i \in 1 .. Len(q) : Holds(q, t, i) =>
        \/ \E j \in 1 .. Len(q) :
               Holds(q, t, j) /\ j < i /\ q[j].to = q[i].from
        \/ /\ \A j \in 1 .. Len(q) : Holds(q, t, j) => ~(j < i)
           /\ Bytes(0, q[i].from) \subseteq has
Reached(q, t, end) ==
    \A i \in 1 .. Len(q) : Holds(q, t, i) =>
        \E j \in 1 .. Len(q) : Holds(q, t, j) /\ q[j].to = end
Fresh(q, t, end, seen) ==
    \A b \in seen :
        /\ b < end
        /\ \A i \in 1 .. Len(q) : Holds(q, t, i) /\ i > 1 => b < q[i].from
Covered(q, t, end, has) ==
    \A b \in Bytes(0, end) :
        \/ b \in has
        \/ \E i \in 1 .. Len(q) :
               Holds(q, t, i) /\ q[i].from <= b /\ b < q[i].to
MapRuns(q, t) ==
    \A i \in 1 .. Len(q) : Holds(q, t, i) /\ q[i].map > 0 =>
        /\ q[i].to <= q[i].map
        /\ q[i].to < q[i].map =>
              \E j \in 1 .. Len(q) :
                  Holds(q, t, j) /\ i < j /\ q[j].map = q[i].map

Chain(q, t, end, has, took, seen) ==
    /\ Ranges(q, t, end) /\ Sorted(q, t) /\ Linked(q, t, has \cup took)
    /\ Reached(q, t, end) /\ Fresh(q, t, end, seen)
    /\ Covered(q, t, end, has \cup took) /\ MapRuns(q, t)

(* What need not be sent again, nor is, unless the offset was not read.    *)
Seen(t) == IF t \in again THEN {} ELSE received[t]

Chains == \A t \in Task :
    Chain(queue, t, saved[t], received[t], lost[t], Seen(t))

(* The current task was not met by a reboot, or has been through TASK_IDLE.*)
Settled == state # "TASK_IDLE" \/ tasks > first

(* The end of the current task is in the queue once, and only then.        *)
Ends ==
    /\ \A i \in 1 .. Len(queue) :
          /\ queue[i].task <= tasks
          /\ queue[i].end => queue[i] = End(tasks) /\ state = "TASK_NEXT"
          /\ \A j \in 1 .. Len(queue) : queue[i].end /\ queue[j].end => i = j
    /\ state = "TASK_NEXT" => \E i \in 1 .. Len(queue) : queue[i].end
    /\ state # "TASK_IDLE" => tasks <= N
    /\ over = tasks - 1 \/ (over = tasks /\ queue # <<>> /\ queue[1].end)

(* Nothing is known of later tasks, and the offset of the current task is  *)
(* that of the config file, but between a reboot and TASK_IDLE, and when   *)
(* it was not read.                                                        *)
Offsets ==
    /\ \A t \in Task : t > tasks =>
          pool[t] = 0 /\ file[t] = 0 /\ offset[t] = 0 /\ saved[t] = 0
    /\ manager => \A t \in Task : saved[t] <= file[t]
    /\ first <= tasks
    /\ ~Settled => queue = <<>> /\ (tasks <= N => offset[tasks] = 0)
    /\ tasks <= N /\ Settled =>
          \/ offset[tasks] = saved[tasks]
          \/ /\ offset[tasks] = 0 /\ tasks \in again
             /\ \A i \in 1 .. Len(queue) : ~Holds(queue, tasks, i)

Uploading ==
    /\ source <= 1 /\ (tasks <= N => (source = 1) = id)
    /\ ~manager => source = 0 /\ ~id
    /\ source > 0 => Settled
    /\ (/\ manager /\ tasks <= N /\ state # "TASK_NEXT"
        /\ boots = 0 \/ tasks > first
        /\ file[tasks] + pool[tasks] > offset[tasks]) => source = 1

Using(q, t, n) == \E i \in 1 .. Len(q) : q[i].task = t /\ q[i].map = n
Maps ==
    \A t \in Task, n \in Nat :
        <<t, n>> \in mapped <=> n > 0 /\ Using(queue, t, n)

(* In the queue, before the end of any task.                               *)
Queued(q, t, b) ==
    \E i \in 1 .. Len(q) :
        /\ Holds(q, t, i) /\ q[i].from <= b /\ b < q[i].to
        /\ \A j \in 1 .. Len(q) : j < i => ~q[j].end
InCache(t, b) ==
    /\ manager /\ state # "TASK_NEXT"
    /\ saved[t] <= b /\ b < file[t] + pool[t]
Owed ==
    \A t \in Task : \A b \in owed[t] :
        /\ b \in 0 .. MaxBytes
        /\ \/ b \in received[t]
           \/ t = tasks /\ (Queued(queue, t, b) \/ InCache(t, b))

IInv == TypeOK /\ Chains /\ Ends /\ Offsets /\ Uploading /\ Maps /\ Owed

-----------------------------------------------------------------------------
(* The chunks of an upload.                                                *)
LEMMA DivBounds ==
    ASSUME NEW x \in Nat, NEW c \in Nat \ {0}
    PROVE  /\ x \div c \in Nat
           /\ (x \div c) * c <= x
           /\ x < (x \div c) * c + c
OBVIOUS

LEMMA Times ==
    ASSUME NEW c \in Nat \ {0}, NEW i \in Nat, NEW j \in Nat
    PROVE  /\ i * c \in Nat
           /\ (i + 1) * c = i * c + c
           /\ i <= j => i * c <= j * c
           /\ i * c < j * c => i < j
OBVIOUS

(* A run of chunks of one log, from one offset to another.                 *)
Run(s, t, from, to, map) ==
    /\ s \in Seq(MessageType) /\ s # <<>>
    /\ \A i \in 1 .. Len(s) :
          /\ ~s[i].end /\ s[i].task = t /\ s[i].map = map
          /\ from <= s[i].from /\ s[i].from < s[i].to /\ s[i].to <= to
          /\ \A j \in 1 .. Len(s) : i < j => s[i].to <= s[j].from
          /\ i > 1 => s[i].from = s[i - 1].to
    /\ s[1].from = from /\ s[Len(s)].to = to
    /\ \A b \in Nat : from <= b /\ b < to =>
          \E i \in 1 .. Len(s) : s[i].from <= b /\ b < s[i].to

LEMMA ChunksRun ==
    ASSUME NEW t \in Task, NEW from \in Nat, NEW length \in Nat, from < length
    PROVE  Run(Chunks(t, from, length), t, from, length, length)
<1> DEFINE c == ChunkLength
           x == length - from + c - 1
           n == x \div c
           s == Chunks(t, from, length)
<1>1. c \in Nat \ {0} /\ x \in Nat /\ c <= x
    BY LogAssumption
<1>2. n \in Nat /\ n * c <= x /\ x < n * c + c
    BY <1>1, DivBounds
<1>3. n >= 1
    BY <1>1, <1>2, Times
<1>4. from + (n - 1) * c < length /\ length <= from + n * c
  <2>1. n * c = (n - 1) * c + c /\ (n - 1) * c \in Nat /\ n * c \in Nat
    <3>1. n - 1 \in Nat /\ (n - 1) + 1 = n
        BY <1>2, <1>3
    <3> QED
        BY <1>1, <3>1, Times
  <2> QED
      BY <1>1, <1>2, <2>1
<1>5. s = [i \in 1 .. n |-> Chunk(t, from + (i - 1) * c,
                                  Least(from + i * c, length), length)]
    BY DEF Chunks
<1>6. \A i \in 1 .. n :
         /\ (i - 1) * c \in Nat /\ i * c \in Nat /\ i * c = (i - 1) * c + c
         /\ i < n => from + i * c < length
         /\ from + (i - 1) * c < length
  <2> SUFFICES ASSUME NEW i \in 1 .. n
               PROVE  /\ (i - 1) * c \in Nat /\ i * c \in Nat
                      /\ i * c = (i - 1) * c + c
                      /\ i < n => from + i * c < length
                      /\ from + (i - 1) * c < length
      OBVIOUS
  <2>1. /\ i - 1 \in Nat /\ (i - 1) + 1 = i /\ i \in Nat /\ n - 1 \in Nat
        /\ i - 1 <= n - 1 /\ i < n => i <= n - 1
      BY <1>2, <1>3
  <2>2. /\ (i - 1) * c \in Nat /\ i * c \in Nat /\ i * c = (i - 1) * c + c
        /\ (i - 1) * c <= (n - 1) * c /\ (n - 1) * c \in Nat
        /\ i <= n - 1 => i * c <= (n - 1) * c
    <3>1. (i - 1) * c \in Nat /\ ((i - 1) + 1) * c = (i - 1) * c + c
        BY <1>1, <2>1, Times
    <3>2. i * c \in Nat /\ (n - 1) * c \in Nat
        BY <1>1, <2>1, Times
    <3>3. (i - 1) * c <= (n - 1) * c
        BY <1>1, <2>1, Times
    <3>4. i <= n - 1 => i * c <= (n - 1) * c
        BY <1>1, <2>1, Times
    <3>5. i * c = (i - 1) * c + c
        BY <2>1, <3>1
    <3> QED
        BY <3>1, <3>2, <3>3, <3>4, <3>5
  <2>3. n * c \in Nat
      BY <1>1, <1>2, Times
  <2> QED
    <3> HIDE DEF c, n
    <3> QED
        BY <1>1, <1>4, <2>1, <2>2, <2>3
<1> DEFINE lo(i) == from + (i - 1) * c
           hi(i) == Least(from + i * c, length)
<1>7. \A i \in 1 .. n : /\ lo(i) \in Nat /\ hi(i) \in Nat
                        /\ from <= lo(i) /\ lo(i) < hi(i) /\ hi(i) <= length
                        /\ i < n => hi(i) = from + i * c
                        /\ i = n => hi(i) = length
                        /\ i = 1 => lo(i) = from
  <2> HIDE DEF c, n
  <2>1. \A i \in 1 .. n : i = n => length <= from + i * c
      BY <1>4
  <2> QED
      BY <1>1, <1>2, <1>6, <2>1 DEF Least
<1>8. \A i \in 1 .. n : s[i] = Chunk(t, lo(i), hi(i), length)
    BY <1>5
<1>9. s \in Seq(MessageType) /\ Len(s) = n /\ s # <<>>
  <2>1. \A i \in 1 .. n : Chunk(t, lo(i), hi(i), length) \in MessageType
    <3> HIDE DEF lo, hi
    <3> QED
        BY <1>7 DEF Chunk, MessageType
  <2>2. s = [i \in 1 .. n |-> Chunk(t, lo(i), hi(i), length)]
      BY <1>5
  <2>3. n \in Nat /\ n # 0
      BY <1>2, <1>3
  <2> HIDE DEF n, lo, hi, s
  <2>4. s \in [1 .. n -> MessageType]
      BY <2>1, <2>2
  <2>5. s \in Seq(MessageType)
      BY <2>3, <2>4
  <2>6. Len(s) = n
      BY <2>2, <2>3, <2>5
  <2> QED
      BY <2>3, <2>5, <2>6
<1>10. \A i \in 1 .. n : /\ ~s[i].end /\ s[i].task = t /\ s[i].map = length
                         /\ s[i].from = lo(i) /\ s[i].to = hi(i)
  <2> SUFFICES ASSUME NEW i \in 1 .. n
               PROVE  /\ ~s[i].end /\ s[i].task = t /\ s[i].map = length
                      /\ s[i].from = lo(i) /\ s[i].to = hi(i)
      OBVIOUS
  <2>1. s[i] = [task |-> t, end |-> FALSE, from |-> lo(i), to |-> hi(i),
                map |-> length]
      BY <1>8 DEF Chunk
  <2> HIDE DEF lo, hi, s, n
  <2> QED
      BY <2>1
<1>11. ASSUME NEW i \in 1 .. n, NEW j \in 1 .. n, i < j
       PROVE  hi(i) <= lo(j) /\ (j = i + 1 => hi(i) = lo(j))
  <2>1. /\ i <= j - 1 /\ j - 1 \in Nat /\ i \in Nat /\ i < n
        /\ j = i + 1 => j - 1 = i
      BY <1>2, <1>11
  <2>2. i * c <= (j - 1) * c
      BY <1>1, <2>1, Times
  <2>3. (j - 1) * c \in Nat /\ i * c \in Nat
      BY <1>6
  <2>4. hi(i) = from + i * c
      BY <1>7, <2>1
  <2>5. j = i + 1 => (j - 1) * c = i * c
      BY <2>1
  <2> HIDE DEF hi, c, n
  <2> QED
      BY <2>2, <2>3, <2>4, <2>5
<1>12. ASSUME NEW b \in Nat, from <= b, b < length
       PROVE  \E i \in 1 .. n : lo(i) <= b /\ b < hi(i)
  <2> DEFINE k == (b - from) \div c
  <2>1. b - from \in Nat
      BY <1>12
  <2>2. k \in Nat /\ k * c <= b - from /\ b - from < k * c + c
      BY <1>1, <2>1, DivBounds
  <2>3. (k + 1) * c = k * c + c /\ k * c \in Nat /\ (k + 1) * c \in Nat
        /\ n * c \in Nat
      BY <1>1, <1>2, <2>2, Times
  <2>4. k * c < n * c
    <3> HIDE DEF k, n, c
    <3> QED
        BY <1>4, <1>12, <2>2, <2>3
  <2>5. k < n
      BY <1>1, <1>2, <2>2, <2>4, Times
  <2>6. k + 1 \in 1 .. n /\ (k + 1) - 1 = k
      BY <1>2, <2>2, <2>5
  <2>7. lo(k + 1) = from + k * c /\ hi(k + 1) = Least(from + (k * c + c), length)
      BY <2>3, <2>6
  <2>8. lo(k + 1) <= b /\ b < hi(k + 1)
    <3> HIDE DEF k, lo, hi, c, n
    <3> QED
        BY <1>12, <2>2, <2>3, <2>7 DEF Least
  <2> QED
      BY <2>6, <2>8
<1> HIDE DEF lo, hi, s, n
<1>13. \A i \in 1 .. n : i > 1 => s[i].from = s[i - 1].to
  <2> SUFFICES ASSUME NEW i \in 1 .. n, i > 1 PROVE s[i].from = s[i - 1].to
      OBVIOUS
  <2>1. i - 1 \in 1 .. n /\ i - 1 < i /\ i = (i - 1) + 1
      BY <1>2
  <2> QED
      BY <1>10, <1>11, <2>1
<1>14. s[1].from = from /\ s[n].to = length
    BY <1>2, <1>3, <1>7, <1>10
<1>15. \A b \in Nat : from <= b /\ b < length =>
          \E i \in 1 .. n : s[i].from <= b /\ b < s[i].to
    BY <1>10, <1>12
<1>16. \A i \in 1 .. n :
          /\ ~s[i].end /\ s[i].task = t /\ s[i].map = length
          /\ from <= s[i].from /\ s[i].from < s[i].to /\ s[i].to <= length
          /\ \A j \in 1 .. n : i < j => s[i].to <= s[j].from
    BY <1>7, <1>10, <1>11
<1> QED
    BY <1>9, <1>13, <1>14, <1>15, <1>16 DEF Run, s

-----------------------------------------------------------------------------
(* What extending and taking do to a chain.                                *)
LEMMA Concatenated ==
    ASSUME NEW q \in Seq(MessageType), NEW s \in Seq(MessageType)
    PROVE  /\ q \o s \in Seq(MessageType)
           /\ Len(q) \in Nat /\ Len(s) \in Nat
           /\ Len(q \o s) = Len(q) + Len(s)
           /\ \A i \in 1 .. Len(q) : (q \o s)[i] = q[i]
           /\ \A k \in 1 .. Len(s) : (q \o s)[Len(q) + k] = s[k]
BY ConcatProperties, LenProperties

LEMMA Elements1 ==
    ASSUME NEW q \in Seq(MessageType), NEW i \in 1 .. Len(q)
    PROVE  /\ q[i] \in MessageType /\ Len(q) \in Nat
           /\ q[i].from \in Nat /\ q[i].to \in Nat /\ q[i].map \in Nat
           /\ q[i].task \in Task /\ q[i].end \in BOOLEAN
<1>1. q[i] \in MessageType /\ Len(q) \in Nat
    BY ElementOfSeq, LenProperties
<1> QED
    BY <1>1 DEF MessageType

(* The chunks of an upload, at the end of the queue.                       *)
LEMMA ChainExtended ==
    ASSUME NEW q \in Seq(MessageType), NEW s, NEW t \in Task,
           NEW from \in Nat, NEW to \in Nat, NEW map \in {0, to},
           NEW has, NEW took, NEW seen \in SUBSET Nat,
           Chain(q, t, from, has, took, seen), Run(s, t, from, to, map)
    PROVE  Chain(q \o s, t, to, has, took, seen)
<1> DEFINE r == q \o s
<1>0. PICK n : n = Len(q)
    OBVIOUS
<1>1. PICK l : l = Len(s)
    OBVIOUS
<1>2. s \in Seq(MessageType) /\ s # <<>>
    BY DEF Run
<1>3. /\ n \in Nat /\ l \in Nat \ {0} /\ Len(r) = n + l
      /\ \A i \in 1 .. n : r[i] = q[i]
      /\ \A k \in 1 .. l : r[n + k] = s[k]
      /\ r \in Seq(MessageType)
  <2>1. Len(s) # 0
      BY <1>2, EmptySeq
  <2> QED
      BY <1>0, <1>1, <1>2, <2>1, Concatenated
<1>4. /\ \A k \in 1 .. l :
            /\ ~s[k].end /\ s[k].task = t /\ s[k].map = map
            /\ from <= s[k].from /\ s[k].from < s[k].to /\ s[k].to <= to
            /\ \A j \in 1 .. l : k < j => s[k].to <= s[j].from
            /\ k > 1 => s[k].from = s[k - 1].to
      /\ s[1].from = from /\ s[l].to = to
      /\ \A b \in Nat : from <= b /\ b < to =>
            \E k \in 1 .. l : s[k].from <= b /\ b < s[k].to
      /\ \A k \in 1 .. l : s[k].from \in Nat /\ s[k].to \in Nat
      /\ from < to
  <2>1. /\ \A k \in 1 .. l :
              /\ ~s[k].end /\ s[k].task = t /\ s[k].map = map
              /\ from <= s[k].from /\ s[k].from < s[k].to /\ s[k].to <= to
              /\ \A j \in 1 .. l : k < j => s[k].to <= s[j].from
              /\ k > 1 => s[k].from = s[k - 1].to
        /\ s[1].from = from /\ s[l].to = to
        /\ \A b \in Nat : from <= b /\ b < to =>
              \E k \in 1 .. l : s[k].from <= b /\ b < s[k].to
      BY <1>1 DEF Run
  <2>2. \A k \in 1 .. l : s[k].from \in Nat /\ s[k].to \in Nat
      BY <1>1, <1>2, Elements1
  <2>3. 1 \in 1 .. l
      BY <1>3
  <2>4. from < to
      BY <2>1, <2>2, <2>3
  <2> QED
      BY <2>1, <2>2, <2>4
<1>5. \A i \in 1 .. n : q[i].from \in Nat /\ q[i].to \in Nat
    BY <1>0, Elements1
<1> HIDE DEF r
<1>6. \A i \in 1 .. n + l : \/ i \in 1 .. n
                            \/ \E k \in 1 .. l : i = n + k
  <2> SUFFICES ASSUME NEW i \in 1 .. n + l, i \notin 1 .. n
               PROVE  \E k \in 1 .. l : i = n + k
      OBVIOUS
  <2>1. i - n \in 1 .. l /\ i = n + (i - n)
      BY <1>3
  <2> QED
      BY <2>1
<1>7. \A i \in 1 .. n : Holds(r, t, i) <=> Holds(q, t, i)
    BY <1>0, <1>3 DEF Holds
<1>8. \A k \in 1 .. l : Holds(r, t, n + k) /\ n + k \in 1 .. n + l
  <2> SUFFICES ASSUME NEW k \in 1 .. l
               PROVE  Holds(r, t, n + k) /\ n + k \in 1 .. n + l
      OBVIOUS
  <2>1. n + k \in 1 .. n + l /\ r[n + k] = s[k]
      BY <1>3
  <2>2. ~s[k].end /\ s[k].task = t
      BY <1>4
  <2> QED
      BY <1>3, <2>1, <2>2 DEF Holds
<1>9. Ranges(r, t, to)
  <2> SUFFICES ASSUME NEW i \in 1 .. n + l, Holds(r, t, i)
               PROVE  r[i].from < r[i].to /\ r[i].to <= to
      BY <1>3 DEF Ranges
  <2>1. CASE i \in 1 .. n
    <3>1. q[i].from < q[i].to /\ q[i].to <= from
        BY <1>0, <1>7, <2>1 DEF Chain, Ranges
    <3> QED
        BY <1>3, <1>4, <1>5, <2>1, <3>1, SMTT(30)
  <2>2. CASE \E k \in 1 .. l : i = n + k
      BY <1>3, <1>4, <2>2, ZenonT(30)
  <2> QED
      BY <1>6, <2>1, <2>2
<1>10. Sorted(r, t)
  <2> SUFFICES ASSUME NEW i \in 1 .. n + l, NEW j \in 1 .. n + l,
                      Holds(r, t, i), Holds(r, t, j), i < j
               PROVE  r[i].to <= r[j].from
      BY <1>3 DEF Sorted
  <2>1. CASE i \in 1 .. n /\ j \in 1 .. n
    <3>1. q[i].to <= q[j].from
        BY <1>0, <1>7, <2>1 DEF Chain, Sorted
    <3> QED
        BY <1>3, <2>1, <3>1
  <2>2. CASE i \in 1 .. n /\ \E k \in 1 .. l : j = n + k
    <3>1. q[i].to <= from
        BY <1>0, <1>7, <2>2 DEF Chain, Ranges
    <3>2. r[i].to <= from /\ from <= r[j].from
        BY <1>3, <1>4, <2>2, <3>1, SMTT(30)
    <3>3. r[i].to \in Nat /\ r[j].from \in Nat
      <4>1. PICK k \in 1 .. l : j = n + k
          BY <2>2
      <4>2. r[i] = q[i] /\ r[j] = s[k]
          BY <1>3, <2>2, <4>1
      <4> QED
          BY <1>4, <1>5, <2>2, <4>2
    <3> QED
        BY <3>2, <3>3
  <2>3. CASE \E k \in 1 .. l : i = n + k
    <3>1. PICK k \in 1 .. l : i = n + k
        BY <2>3
    <3>2. j \notin 1 .. n
        BY <1>3, <3>1
    <3>3. PICK h \in 1 .. l : j = n + h
        BY <1>6, <3>2
    <3>4. k < h
        BY <1>3, <3>1, <3>3
    <3> QED
        BY <1>3, <1>4, <3>1, <3>3, <3>4
  <2> QED
      BY <1>6, <2>1, <2>2, <2>3
<1>11. \A b : b \in seen => b \in Nat /\ b < from
    BY DEF Chain, Fresh
<1>12. Linked(r, t, has \cup took)
  <2> SUFFICES ASSUME NEW i \in 1 .. n + l, Holds(r, t, i)
               PROVE  \/ \E j \in 1 .. n + l :
                             Holds(r, t, j) /\ j < i /\ r[j].to = r[i].from
                      \/ /\ \A j \in 1 .. n + l : Holds(r, t, j) => ~(j < i)
                         /\ Bytes(0, r[i].from) \subseteq has \cup took
      BY <1>3 DEF Linked
  <2>0. \A j \in 1 .. n : j \in 1 .. n + l
      BY <1>3
  <2>1. CASE i \in 1 .. n
    <3>1. \/ \E j \in 1 .. n :
                 Holds(q, t, j) /\ j < i /\ q[j].to = q[i].from
          \/ /\ \A j \in 1 .. n : Holds(q, t, j) => ~(j < i)
             /\ Bytes(0, q[i].from) \subseteq has \cup took
        BY <1>0, <1>7, <2>1 DEF Chain, Linked
    <3>2. \A j \in 1 .. n + l : j < i => j \in 1 .. n
        BY <1>3, <2>1
    <3> QED
        BY <1>3, <1>7, <2>0, <2>1, <3>1, <3>2
  <2>2. CASE i = n + 1 /\ \E j \in 1 .. n : Holds(q, t, j)
    <3>1. PICK j \in 1 .. n : Holds(q, t, j) /\ q[j].to = from
        BY <1>0, <2>2 DEF Chain, Reached
    <3>2. 1 \in 1 .. l /\ r[n + 1] = s[1] /\ s[1].from = from
        BY <1>3, <1>4
    <3>3. r[i].from = from /\ j < i
        BY <1>3, <2>2, <3>2
    <3>4. j \in 1 .. n + l /\ Holds(r, t, j) /\ r[j] = q[j]
        BY <1>3, <1>7, <2>0, <3>1
    <3> QED
        BY <3>1, <3>3, <3>4
  <2>3. CASE i = n + 1 /\ ~\E j \in 1 .. n : Holds(q, t, j)
    <3>1. r[i].from = from
        BY <1>3, <1>4, <2>3, SMTT(30)
    <3>2. \A j \in 1 .. n + l : j < i => j \in 1 .. n
        BY <1>3, <2>3
    <3>3. Bytes(0, from) \subseteq has \cup took
        BY <1>0, <2>3 DEF Chain, Covered
    <3>4. \A j \in 1 .. n + l : Holds(r, t, j) => ~(j < i)
        BY <1>7, <2>3, <3>2
    <3>5. Bytes(0, r[i].from) \subseteq has \cup took
        BY <3>1, <3>3
    <3> QED
        BY <3>4, <3>5
  <2>4. CASE \E k \in 1 .. l : i = n + k /\ k > 1
    <3>1. PICK k \in 1 .. l : i = n + k /\ k > 1
        BY <2>4
    <3>2. k - 1 \in 1 .. l /\ n + (k - 1) \in 1 .. n + l /\ n + (k - 1) < i
        BY <1>3, <3>1
    <3>3. Holds(r, t, n + (k - 1)) /\ r[n + (k - 1)].to = r[i].from
        BY <1>3, <1>4, <1>8, <3>1, <3>2
    <3> QED
        BY <3>2, <3>3
  <2>5. \/ i \in 1 .. n \/ i = n + 1
        \/ \E k \in 1 .. l : i = n + k /\ k > 1
    <3>1. ASSUME NEW k \in 1 .. l, i = n + k, i # n + 1 PROVE k > 1
        BY <1>3, <3>1
    <3> QED
        BY <1>6, <3>1
  <2> QED
      BY <2>1, <2>2, <2>3, <2>4, <2>5
<1>13. Reached(r, t, to)
  <2>1. l \in 1 .. l
      BY <1>3
  <2> QED
      BY <1>3, <1>4, <1>8, <2>1 DEF Reached
<1>14. Fresh(r, t, to, seen)
  <2> SUFFICES ASSUME NEW b \in seen
               PROVE  /\ b < to
                      /\ \A i \in 1 .. n + l :
                            Holds(r, t, i) /\ i > 1 => b < r[i].from
      BY <1>3 DEF Fresh
  <2>1. b \in Nat /\ b < from
      BY <1>11
  <2>2. ASSUME NEW i \in 1 .. n + l, Holds(r, t, i), i > 1
        PROVE  b < r[i].from
    <3>1. CASE i \in 1 .. n
      <4>1. b < q[i].from
          BY <1>0, <1>7, <2>2, <3>1 DEF Chain, Fresh
      <4> QED
          BY <1>3, <3>1, <4>1
    <3>2. CASE \E k \in 1 .. l : i = n + k
      <4>1. PICK k \in 1 .. l : i = n + k
          BY <3>2
      <4>2. r[i] = s[k] /\ from <= s[k].from /\ s[k].from \in Nat
          BY <1>3, <1>4, <4>1
      <4> QED
          BY <2>1, <4>2
    <3> QED
        BY <1>3, <1>6, <2>2, <3>1, <3>2
  <2> QED
      BY <1>4, <2>1, <2>2
<1>15. Covered(r, t, to, has \cup took)
  <2> SUFFICES ASSUME NEW b \in Bytes(0, to)
               PROVE  \/ b \in has \cup took
                      \/ \E i \in 1 .. n + l :
                             Holds(r, t, i) /\ r[i].from <= b /\ b < r[i].to
      BY <1>3 DEF Covered
  <2>0. b \in 0 .. MaxBytes /\ b \in Nat /\ b < to
      BY LogAssumption DEF Bytes
  <2>1. CASE b < from
    <3>1. b \in Bytes(0, from)
        BY <2>0, <2>1 DEF Bytes
    <3>2. \/ b \in has \cup took
          \/ \E i \in 1 .. n : Holds(q, t, i) /\ q[i].from <= b /\ b < q[i].to
        BY <1>0, <3>1 DEF Chain, Covered
    <3>3. \A i \in 1 .. n : i \in 1 .. n + l
        BY <1>3
    <3> QED
        BY <1>3, <1>7, <3>2, <3>3
  <2>2. CASE ~(b < from)
    <3>1. PICK k \in 1 .. l : s[k].from <= b /\ b < s[k].to
        BY <1>4, <2>0, <2>2
    <3> QED
        BY <1>3, <1>8, <3>1
  <2> QED
      BY <2>1, <2>2
<1>16. MapRuns(r, t)
  <2> SUFFICES ASSUME NEW i \in 1 .. n + l, Holds(r, t, i), r[i].map > 0
               PROVE  /\ r[i].to <= r[i].map
                      /\ r[i].to < r[i].map =>
                            \E j \in 1 .. n + l :
                                Holds(r, t, j) /\ i < j /\ r[j].map = r[i].map
      BY <1>3 DEF MapRuns
  <2>1. CASE i \in 1 .. n
    <3>1. /\ q[i].to <= q[i].map
          /\ q[i].to < q[i].map =>
                \E j \in 1 .. n :
                    Holds(q, t, j) /\ i < j /\ q[j].map = q[i].map
        BY <1>0, <1>3, <1>7, <2>1 DEF Chain, MapRuns
    <3>2. \A j \in 1 .. n : j \in 1 .. n + l
        BY <1>3
    <3> QED
        BY <1>3, <1>7, <2>1, <3>1, <3>2
  <2>2. CASE \E k \in 1 .. l : i = n + k
    <3>1. PICK k \in 1 .. l : i = n + k
        BY <2>2
    <3>2. r[i] = s[k] /\ r[i].map = map /\ map = to /\ r[i].to <= to
        BY <1>3, <1>4, <3>1
    <3>3. CASE k = l
        BY <1>3, <1>4, <3>1, <3>2, <3>3
    <3>4. CASE k # l
      <4>1. k < l /\ l \in 1 .. l /\ n + l \in 1 .. n + l /\ i < n + l
          BY <1>3, <3>1, <3>4
      <4>2. Holds(r, t, n + l) /\ r[n + l].map = map
          BY <1>3, <1>4, <1>8, <4>1, ZenonT(30)
      <4> QED
          BY <3>2, <4>1, <4>2
    <3> QED
        BY <3>3, <3>4
  <2> QED
      BY <1>6, <2>1, <2>2
<1> QED
    BY <1>9, <1>10, <1>12, <1>13, <1>14, <1>15, <1>16 DEF Chain, r

(* What comes behind a chain and is not of its log.                        *)
LEMMA ChainKept ==
    ASSUME NEW q \in Seq(MessageType), NEW r \in Seq(MessageType),
           NEW t \in Task, NEW end, NEW has, NEW took, NEW seen,
           Chain(q, t, end, has, took, seen), Len(q) <= Len(r),
           \A i \in 1 .. Len(q) : r[i] = q[i],
           \A i \in 1 .. Len(r) : i \in 1 .. Len(q) \/ r[i].end \/ r[i].task # t
    PROVE  Chain(r, t, end, has, took, seen)
<1>0. PICK n : n = Len(q)
    OBVIOUS
<1>1. PICK l : l = Len(r)
    OBVIOUS
<1>2. /\ n \in Nat /\ l \in Nat /\ n <= l
      /\ \A i \in 1 .. n : r[i] = q[i] /\ i \in 1 .. l
    BY <1>0, <1>1, LenProperties
<1>3. \A i : Holds(r, t, i) <=> Holds(q, t, i)
    BY <1>0, <1>1, <1>2 DEF Holds
<1>4. \A i : Holds(q, t, i) => i \in 1 .. n /\ i \in 1 .. l /\ r[i] = q[i]
    BY <1>0, <1>2 DEF Holds
<1>5. Ranges(r, t, end)
    BY <1>0, <1>1, <1>3, <1>4 DEF Chain, Ranges
<1>6. Sorted(r, t)
    BY <1>0, <1>1, <1>3, <1>4 DEF Chain, Sorted
<1>7. Linked(r, t, has \cup took)
    BY <1>0, <1>1, <1>3, <1>4 DEF Chain, Linked
<1>8. Reached(r, t, end)
    BY <1>0, <1>1, <1>3, <1>4 DEF Chain, Reached
<1>9. Fresh(r, t, end, seen)
    BY <1>0, <1>1, <1>3, <1>4 DEF Chain, Fresh
<1>10. Covered(r, t, end, has \cup took)
    BY <1>0, <1>1, <1>3, <1>4 DEF Chain, Covered
<1>11. MapRuns(r, t)
    BY <1>0, <1>1, <1>3, <1>4 DEF Chain, MapRuns
<1> QED
    BY <1>5, <1>6, <1>7, <1>8, <1>9, <1>10, <1>11 DEF Chain

(* The controller has the head: its answer comes, or was lost.             *)
LEMMA ChainReceived ==
    ASSUME NEW q \in Seq(MessageType), q # <<>>, NEW t \in Task, NEW end,
           end \in Nat, NEW has, NEW took, NEW seen,
           NEW has2, NEW took2, NEW seen2,
           Chain(q, t, end, has, took, seen),
           has \subseteq has2, took \subseteq took2,
           Holds(q, t, 1) =>
               seen2 \subseteq seen \cup Bytes(q[1].from, q[1].to),
           ~Holds(q, t, 1) => seen2 \subseteq seen
    PROVE  Chain(q, t, end, has2, took2, seen2)
<1>0. PICK n : n = Len(q)
    OBVIOUS
<1>1. n \in Nat /\ 1 \in 1 .. n
    BY <1>0, LenProperties, EmptySeq
<1>2. \A i \in 1 .. n : q[i].from \in Nat /\ q[i].to \in Nat
    BY <1>0, Elements1
<1>3. has \cup took \subseteq has2 \cup took2
    OBVIOUS
<1>4. Linked(q, t, has2 \cup took2)
    BY <1>3 DEF Chain, Linked
<1>5. Covered(q, t, end, has2 \cup took2)
    BY <1>3 DEF Chain, Covered
<1>6. Fresh(q, t, end, seen2)
  <2> SUFFICES ASSUME NEW b \in seen2
               PROVE  /\ b < end
                      /\ \A i \in 1 .. n : Holds(q, t, i) /\ i > 1
                                              => b < q[i].from
      BY <1>0 DEF Fresh
  <2>1. CASE b \in seen
      BY <1>0, <2>1 DEF Chain, Fresh
  <2>2. CASE b \notin seen
    <3>1. Holds(q, t, 1) /\ b \in Bytes(q[1].from, q[1].to)
        BY <2>2
    <3>2. b \in Nat /\ b < q[1].to
        BY <3>1, LogAssumption DEF Bytes
    <3>3. q[1].to <= end
        BY <1>0, <1>1, <3>1 DEF Chain, Ranges
    <3>4. ASSUME NEW i \in 1 .. n, Holds(q, t, i), i > 1
          PROVE  b < q[i].from
      <4>1. q[1].to <= q[i].from
          BY <1>0, <1>1, <3>1, <3>4 DEF Chain, Sorted
      <4>2. q[1].to \in Nat /\ q[i].from \in Nat
          BY <1>1, <1>2
      <4> QED
          BY <3>2, <4>1, <4>2
    <3>5. b < end
        BY <1>1, <1>2, <3>2, <3>3
    <3> QED
        BY <3>4, <3>5
  <2> QED
      BY <2>1, <2>2
<1> QED
    BY <1>4, <1>5, <1>6 DEF Chain

(* The head, which the controller has or which is lost, leaves the queue.  *)
LEMMA ChainTaken ==
    ASSUME NEW q \in Seq(MessageType), q # <<>>, NEW t \in Task, NEW end,
           end \in Nat, NEW has, NEW took, NEW seen,
           Chain(q, t, end, has, took, seen),
           Holds(q, t, 1) => Bytes(q[1].from, q[1].to) \subseteq has \cup took
    PROVE  Chain(Tail(q), t, end, has, took, seen)
<1> DEFINE r == Tail(q)
<1>0. PICK n : n = Len(q)
    OBVIOUS
<1>1. /\ n \in Nat \ {0} /\ r \in Seq(MessageType) /\ Len(r) = n - 1
      /\ \A i \in 1 .. n - 1 : r[i] = q[i + 1]
    BY <1>0, HeadTailProperties, LenProperties, EmptySeq
<1>2. \A i \in 1 .. n : q[i].from \in Nat /\ q[i].to \in Nat
    BY <1>0, Elements1
<1> HIDE DEF r
<1>3. \A i \in 1 .. n - 1 : /\ i + 1 \in 1 .. n /\ r[i] = q[i + 1]
                            /\ Holds(r, t, i) <=> Holds(q, t, i + 1)
    BY <1>0, <1>1 DEF Holds
<1>4. \A j \in 1 .. n : \/ j = 1
                        \/ /\ j - 1 \in 1 .. n - 1 /\ (j - 1) + 1 = j
                           /\ r[j - 1] = q[j]
                           /\ Holds(r, t, j - 1) <=> Holds(q, t, j)
  <2> SUFFICES ASSUME NEW j \in 1 .. n, j # 1
               PROVE  /\ j - 1 \in 1 .. n - 1 /\ (j - 1) + 1 = j
                      /\ r[j - 1] = q[j]
                      /\ Holds(r, t, j - 1) <=> Holds(q, t, j)
      OBVIOUS
  <2>1. j - 1 \in 1 .. n - 1 /\ (j - 1) + 1 = j
      BY <1>1
  <2> QED
      BY <1>3, <2>1
<1>5. Ranges(r, t, end)
  <2> SUFFICES ASSUME NEW i \in 1 .. n - 1, Holds(r, t, i)
               PROVE  r[i].from < r[i].to /\ r[i].to <= end
      BY <1>1 DEF Ranges
  <2> QED
      BY <1>0, <1>3 DEF Chain, Ranges
<1>6. Sorted(r, t)
  <2> SUFFICES ASSUME NEW i \in 1 .. n - 1, NEW j \in 1 .. n - 1,
                      Holds(r, t, i), Holds(r, t, j), i < j
               PROVE  r[i].to <= r[j].from
      BY <1>1 DEF Sorted
  <2>1. i + 1 < j + 1
      BY <1>1
  <2> QED
      BY <1>0, <1>3, <2>1 DEF Chain, Sorted
<1>7. Linked(r, t, has \cup took)
  <2> SUFFICES ASSUME NEW i \in 1 .. n - 1, Holds(r, t, i)
               PROVE  \/ \E j \in 1 .. n - 1 :
                             Holds(r, t, j) /\ j < i /\ r[j].to = r[i].from
                      \/ /\ \A j \in 1 .. n - 1 : Holds(r, t, j) => ~(j < i)
                         /\ Bytes(0, r[i].from) \subseteq has \cup took
      BY <1>1 DEF Linked
  <2>0. Holds(q, t, i + 1) /\ i + 1 \in 1 .. n /\ r[i] = q[i + 1] /\ 1 \in 1 .. n
      BY <1>1, <1>3
  <2>1. CASE \E j \in 1 .. n : /\ Holds(q, t, j) /\ j < i + 1
                               /\ q[j].to = q[i + 1].from
    <3>1. PICK j \in 1 .. n : /\ Holds(q, t, j) /\ j < i + 1
                              /\ q[j].to = q[i + 1].from
        BY <2>1
    <3>2. CASE j = 1
      <4>1. \A h \in 1 .. n - 1 : Holds(r, t, h) => ~(h < i)
        <5> SUFFICES ASSUME NEW h \in 1 .. n - 1, Holds(r, t, h), h < i
                     PROVE  FALSE
            OBVIOUS
        <5>1. /\ Holds(q, t, h + 1) /\ h + 1 \in 1 .. n
              /\ 1 < h + 1 /\ h + 1 < i + 1
            BY <1>1, <1>3
        <5>2. /\ q[1].to <= q[h + 1].from /\ q[h + 1].from < q[h + 1].to
              /\ q[h + 1].to <= q[i + 1].from
            BY <1>0, <2>0, <3>1, <3>2, <5>1 DEF Chain, Sorted, Ranges
        <5> QED
            BY <1>2, <2>0, <3>1, <3>2, <5>1, <5>2
      <4>2. Bytes(0, q[1].from) \subseteq has \cup took
        <5>1. \A h \in 1 .. n : ~(h < 1)
            BY <1>1
        <5> QED
            BY <1>0, <2>0, <3>1, <3>2, <5>1 DEF Chain, Linked
      <4>3. Bytes(q[1].from, q[1].to) \subseteq has \cup took
          BY <3>1, <3>2
      <4>4. Bytes(0, q[1].to) \subseteq
                Bytes(0, q[1].from) \cup Bytes(q[1].from, q[1].to)
          BY <1>2, <2>0, LogAssumption DEF Bytes
      <4>5. r[i].from = q[1].to
          BY <2>0, <3>1, <3>2
      <4>6. Bytes(0, r[i].from) \subseteq has \cup took
          BY <4>2, <4>3, <4>4, <4>5
      <4> QED
          BY <4>1, <4>6
    <3>3. CASE j # 1
      <4>1. /\ j - 1 \in 1 .. n - 1 /\ (j - 1) + 1 = j
            /\ Holds(r, t, j - 1) /\ r[j - 1] = q[j]
          BY <1>4, <3>1, <3>3
      <4>2. j - 1 < i
          BY <1>1, <3>1
      <4> QED
          BY <2>0, <3>1, <4>1, <4>2
    <3> QED
        BY <3>2, <3>3
  <2>2. CASE /\ \A j \in 1 .. n : Holds(q, t, j) => ~(j < i + 1)
             /\ Bytes(0, q[i + 1].from) \subseteq has \cup took
    <3>1. \A j \in 1 .. n - 1 : Holds(r, t, j) => ~(j < i)
      <4> SUFFICES ASSUME NEW j \in 1 .. n - 1, Holds(r, t, j), j < i
                   PROVE  FALSE
          OBVIOUS
      <4>1. Holds(q, t, j + 1) /\ j + 1 \in 1 .. n /\ j + 1 < i + 1
          BY <1>1, <1>3
      <4> QED
          BY <2>2, <4>1
    <3> QED
        BY <2>0, <2>2, <3>1
  <2> QED
      BY <1>0, <2>0, <2>1, <2>2 DEF Chain, Linked
<1>8. Reached(r, t, end)
  <2> SUFFICES ASSUME NEW i \in 1 .. n - 1, Holds(r, t, i)
               PROVE  \E j \in 1 .. n - 1 : Holds(r, t, j) /\ r[j].to = end
      BY <1>1 DEF Reached
  <2>0. Holds(q, t, i + 1) /\ i + 1 \in 1 .. n /\ 1 \in 1 .. n /\ 1 < i + 1
      BY <1>1, <1>3
  <2>1. PICK j \in 1 .. n : Holds(q, t, j) /\ q[j].to = end
      BY <1>0, <2>0 DEF Chain, Reached
  <2>2. j # 1
    <3> SUFFICES ASSUME j = 1 PROVE FALSE
        OBVIOUS
    <3>1. /\ q[1].to <= q[i + 1].from /\ q[i + 1].from < q[i + 1].to
          /\ q[i + 1].to <= end
        BY <1>0, <2>0, <2>1 DEF Chain, Sorted, Ranges
    <3> QED
        BY <1>2, <2>0, <2>1, <3>1
  <2> QED
      BY <1>4, <2>1, <2>2
<1>9. Fresh(r, t, end, seen)
  <2> SUFFICES ASSUME NEW b \in seen
               PROVE  /\ b < end
                      /\ \A i \in 1 .. n - 1 : Holds(r, t, i) /\ i > 1
                                                  => b < r[i].from
      BY <1>1 DEF Fresh
  <2>1. b < end
      BY DEF Chain, Fresh
  <2>2. ASSUME NEW i \in 1 .. n - 1, Holds(r, t, i), i > 1
        PROVE  b < r[i].from
    <3>1. /\ i + 1 > 1 /\ i + 1 \in 1 .. n /\ Holds(q, t, i + 1)
          /\ r[i] = q[i + 1]
        BY <1>1, <1>3, <2>2
    <3>2. b < q[i + 1].from
        BY <1>0, <3>1 DEF Chain, Fresh
    <3> QED
        BY <3>1, <3>2
  <2> QED
      BY <2>1, <2>2
<1>10. Covered(r, t, end, has \cup took)
  <2> SUFFICES ASSUME NEW b \in Bytes(0, end), b \notin has \cup took
               PROVE  \E i \in 1 .. n - 1 :
                          Holds(r, t, i) /\ r[i].from <= b /\ b < r[i].to
      BY <1>1 DEF Covered
  <2>1. PICK j \in 1 .. n : Holds(q, t, j) /\ q[j].from <= b /\ b < q[j].to
      BY <1>0 DEF Chain, Covered
  <2>2. j # 1
      BY <2>1 DEF Bytes
  <2> QED
      BY <1>4, <2>1, <2>2
<1>11. MapRuns(r, t)
  <2> SUFFICES ASSUME NEW i \in 1 .. n - 1, Holds(r, t, i), r[i].map > 0
               PROVE  /\ r[i].to <= r[i].map
                      /\ r[i].to < r[i].map =>
                            \E j \in 1 .. n - 1 :
                                Holds(r, t, j) /\ i < j /\ r[j].map = r[i].map
      BY <1>1 DEF MapRuns
  <2>0. Holds(q, t, i + 1) /\ i + 1 \in 1 .. n /\ r[i] = q[i + 1]
      BY <1>3
  <2>1. /\ q[i + 1].to <= q[i + 1].map
        /\ q[i + 1].to < q[i + 1].map =>
              \E j \in 1 .. n :
                  Holds(q, t, j) /\ i + 1 < j /\ q[j].map = q[i + 1].map
      BY <1>0, <2>0 DEF Chain, MapRuns
  <2>2. \A j \in 1 .. n : i + 1 < j => j # 1 /\ i < j - 1
      BY <1>1
  <2> QED
      BY <1>4, <2>0, <2>1, <2>2
<1> QED
    BY <1>5, <1>6, <1>7, <1>8, <1>9, <1>10, <1>11 DEF Chain, r

(* A reboot: what was queued is lost.                                      *)
LEMMA ChainLost ==
    ASSUME NEW q, NEW t, NEW end, NEW has, NEW took, NEW took2,
           NEW seen, Chain(q, t, end, has, took, seen), took \subseteq took2,
           \A i \in 1 .. Len(q) : Holds(q, t, i) =>
               Bytes(q[i].from, q[i].to) \subseteq has \cup took2
    PROVE  Chain(<<>>, t, end, has, took2, seen)
<1>1. Len(<<>>) = 0 /\ 1 .. 0 = {}
    BY EmptySeq
<1>2. Fresh(<<>>, t, end, seen)
    BY <1>1 DEF Chain, Fresh
<1>3. Covered(<<>>, t, end, has \cup took2)
  <2> SUFFICES ASSUME NEW b \in Bytes(0, end) PROVE b \in has \cup took2
      BY DEF Covered
  <2>1. \/ b \in has \cup took
        \/ \E i \in 1 .. Len(q) :
               Holds(q, t, i) /\ q[i].from <= b /\ b < q[i].to
      BY DEF Chain, Covered
  <2>2. b \in 0 .. MaxBytes
      BY DEF Bytes
  <2> QED
      BY <2>1, <2>2 DEF Bytes
<1> QED
    BY <1>1, <1>2, <1>3
    DEF Chain, Ranges, Sorted, Linked, Reached, MapRuns

-----------------------------------------------------------------------------
(* The queue of a step that adds chunks of the current task, up to offset  *)
(* to: what it has of the old queue, and what it has more.                 *)
Grown(q, to, map) ==
    /\ q \in Seq(MessageType) /\ Len(queue) <= Len(q)
    /\ \A i \in 1 .. Len(queue) : q[i] = queue[i]
    /\ \A i \in 1 .. Len(q) :
          \/ i \in 1 .. Len(queue)
          \/ ~q[i].end /\ q[i].task = tasks /\ q[i].map = map
    /\ \A b \in Nat : offset[tasks] <= b /\ b < to =>
          \E i \in 1 .. Len(q) :
              Holds(q, tasks, i) /\ q[i].from <= b /\ b < q[i].to
    /\ \A t \in Task : Chain(q, t, IF t = tasks THEN to ELSE saved[t],
                             received[t], lost[t], Seen(t))
    /\ to \in Nat /\ offset[tasks] <= to
    /\ \/ offset[tasks] < to /\ \E i \in 1 .. Len(q) :
                                  q[i].task = tasks /\ q[i].map = map
       \/ q = queue /\ to = offset[tasks]

LEMMA TypeFacts ==
    ASSUME IInv
    PROVE  /\ manager \in BOOLEAN /\ tasks \in 1 .. N + 1 /\ N \in Nat \ {0}
           /\ state \in {"TASK_IDLE", "TASK_RUN", "TASK_NEXT"}
           /\ cancelled \in BOOLEAN /\ alive \in BOOLEAN
           /\ source \in Nat /\ id \in BOOLEAN
           /\ pool \in [Task -> Nat] /\ file \in [Task -> Nat]
           /\ offset \in [Task -> Nat] /\ saved \in [Task -> Nat]
           /\ manager => \A t \in Task : offset[t] <= file[t]
           /\ queue \in Seq(MessageType) /\ mapped \subseteq Task \X Nat
           /\ received \in [Task -> SUBSET Nat] /\ over \in 0 .. N
           /\ first \in 1 .. N + 1 /\ boots \in Nat /\ late \in Nat
           /\ again \subseteq Task /\ MaxBytes \in Nat
           /\ owed \in [Task -> SUBSET Nat] /\ lost \in [Task -> SUBSET Nat]
BY LogAssumption DEF IInv, TypeOK

LEMMA Current ==
    ASSUME IInv, tasks <= N
    PROVE  /\ tasks \in Task
           /\ pool[tasks] \in Nat /\ file[tasks] \in Nat
           /\ offset[tasks] \in Nat /\ saved[tasks] \in Nat
<1>1. tasks \in Task
    BY TypeFacts DEF Task
<1> QED
    BY <1>1, TypeFacts

LEMMA SeenFacts ==
    ASSUME IInv, NEW t \in Task
    PROVE  Seen(t) \in SUBSET Nat
BY TypeFacts DEF Seen

(* The chain of the current task as its next chunk finds it: also when the *)
(* offset was not read.                                                    *)
LEMMA AtOffset ==
    ASSUME IInv, tasks <= N, Settled
    PROVE  /\ Chain(queue, tasks, offset[tasks], received[tasks], lost[tasks],
                    Seen(tasks))
           /\ offset[tasks] <= saved[tasks]
<1>1. /\ tasks \in Task /\ saved[tasks] \in Nat
      /\ Chain(queue, tasks, saved[tasks], received[tasks], lost[tasks],
               Seen(tasks))
    BY Current DEF IInv, Chains
<1>2. CASE offset[tasks] = saved[tasks]
    BY <1>1, <1>2
<1>3. CASE /\ offset[tasks] = 0 /\ tasks \in again
           /\ \A i \in 1 .. Len(queue) : ~Holds(queue, tasks, i)
  <2>1. \A b \in 0 .. MaxBytes : ~(0 <= b /\ b < 0)
      BY TypeFacts
  <2>2. Bytes(0, 0) = {} /\ Seen(tasks) = {}
      BY <1>3, <2>1 DEF Bytes, Seen
  <2>3. Ranges(queue, tasks, 0) /\ Sorted(queue, tasks)
      BY <1>3 DEF Ranges, Sorted
  <2>4. /\ Linked(queue, tasks, received[tasks] \cup lost[tasks])
        /\ Reached(queue, tasks, 0) /\ MapRuns(queue, tasks)
      BY <1>3 DEF Linked, Reached, MapRuns
  <2>5. /\ Fresh(queue, tasks, 0, Seen(tasks))
        /\ Covered(queue, tasks, 0, received[tasks] \cup lost[tasks])
      BY <2>2 DEF Fresh, Covered
  <2>6. Chain(queue, tasks, 0, received[tasks], lost[tasks], Seen(tasks))
      BY <2>3, <2>4, <2>5 DEF Chain
  <2>7. 0 <= saved[tasks]
      BY <1>1
  <2> QED
      BY <1>3, <2>6, <2>7
<1> QED
    BY <1>2, <1>3 DEF IInv, Offsets

LEMMA RunGrows ==
    ASSUME IInv, tasks <= N, Settled,
           NEW to \in Nat, NEW map \in {0, to}, NEW s,
           Run(s, tasks, offset[tasks], to, map), offset[tasks] < to
    PROVE  Grown(queue \o s, to, map)
<1> DEFINE q == queue \o s
<1>0. /\ queue \in Seq(MessageType) /\ s \in Seq(MessageType) /\ s # <<>>
      /\ tasks \in Task /\ saved \in [Task -> Nat]
      /\ \A t \in Task : Seen(t) \in SUBSET Nat
      /\ saved[tasks] \in Nat /\ offset[tasks] \in Nat
  <2>1. s \in Seq(MessageType) /\ s # <<>>
      BY DEF Run
  <2> QED
      BY <2>1, TypeFacts, Current, SeenFacts
<1>1. PICK n : n = Len(queue)
    OBVIOUS
<1>2. PICK l : l = Len(s)
    OBVIOUS
<1>3. /\ n \in Nat /\ l \in Nat \ {0} /\ Len(q) = n + l
      /\ \A i \in 1 .. n : q[i] = queue[i]
      /\ \A k \in 1 .. l : q[n + k] = s[k]
      /\ q \in Seq(MessageType)
  <2>1. Len(s) # 0
      BY <1>0, EmptySeq
  <2> QED
      BY <1>0, <1>1, <1>2, <2>1, Concatenated
<1>4. \A k \in 1 .. l : ~s[k].end /\ s[k].task = tasks /\ s[k].map = map
    BY <1>2 DEF Run
<1> HIDE DEF q
<1>5. ASSUME NEW i \in 1 .. n + l, i \notin 1 .. n
      PROVE  ~q[i].end /\ q[i].task = tasks /\ q[i].map = map
  <2>1. i - n \in 1 .. l /\ n + (i - n) = i
      BY <1>3, <1>5
  <2> QED
      BY <1>3, <1>4, <2>1
<1>6. ASSUME NEW b \in Nat, offset[tasks] <= b, b < to
      PROVE  \E i \in 1 .. n + l :
                 Holds(q, tasks, i) /\ q[i].from <= b /\ b < q[i].to
  <2>1. PICK k \in 1 .. l : s[k].from <= b /\ b < s[k].to
      BY <1>2, <1>6 DEF Run
  <2>2. n + k \in 1 .. n + l /\ q[n + k] = s[k] /\ ~s[k].end /\ s[k].task = tasks
      BY <1>3, <1>4
  <2> QED
      BY <1>3, <2>1, <2>2 DEF Holds
<1>7. ASSUME NEW t \in Task
      PROVE  Chain(q, t, IF t = tasks THEN to ELSE saved[t],
                   received[t], lost[t], Seen(t))
  <2>0. Chain(queue, t, saved[t], received[t], lost[t], Seen(t))
      BY DEF IInv, Chains
  <2>1. CASE t = tasks
    <3>1. Chain(queue, tasks, offset[tasks], received[tasks], lost[tasks],
                Seen(tasks))
        BY AtOffset
    <3>2. Seen(tasks) \in SUBSET Nat
        BY <1>0
    <3>3. Chain(queue \o s, tasks, to, received[tasks], lost[tasks],
                Seen(tasks))
      <4> HIDE DEF IInv
      <4> QED
          BY <1>0, <3>1, <3>2, ChainExtended
    <3> QED
        BY <2>1, <3>3 DEF q
  <2>2. CASE t # tasks
    <3>1. \A i \in 1 .. Len(q) :
             i \in 1 .. Len(queue) \/ q[i].end \/ q[i].task # t
        BY <1>1, <1>3, <1>5, <2>2
    <3>2. /\ Len(queue) <= Len(q)
          /\ \A i \in 1 .. Len(queue) : q[i] = queue[i]
        BY <1>1, <1>3
    <3>3. Chain(q, t, saved[t], received[t], lost[t], Seen(t))
        BY <1>0, <1>3, <2>0, <3>1, <3>2, ChainKept
    <3> QED
        BY <2>2, <3>3
  <2> QED
      BY <2>1, <2>2
<1>8. n <= n + l /\ n + l \in 1 .. n + l /\ n + l \notin 1 .. n
    BY <1>3
<1>9. \E i \in 1 .. n + l : q[i].task = tasks /\ q[i].map = map
    BY <1>5, <1>8
<1>10. offset[tasks] <= to
    BY <1>0
<1> QED
  <2>1. \A i \in 1 .. Len(q) : \/ i \in 1 .. Len(queue)
                               \/ ~q[i].end /\ q[i].task = tasks /\ q[i].map = map
      BY <1>1, <1>3, <1>5
  <2>2. \A b \in Nat : offset[tasks] <= b /\ b < to =>
            \E i \in 1 .. Len(q) :
                Holds(q, tasks, i) /\ q[i].from <= b /\ b < q[i].to
      BY <1>3, <1>6
  <2>3. Grown(q, to, map)
      BY <1>1, <1>3, <1>7, <1>8, <1>9, <1>10, <2>1, <2>2 DEF Grown
  <2> QED
      BY <2>3 DEF q

LEMMA NothingGrows ==
    ASSUME IInv, NEW map, tasks <= N, Settled
    PROVE  Grown(queue, offset[tasks], map)
<1>1. /\ queue \in Seq(MessageType) /\ tasks \in Task /\ offset[tasks] \in Nat
      /\ Len(queue) \in Nat
    BY TypeFacts, Current, LenProperties
<1>2. \A b \in Nat : ~(offset[tasks] <= b /\ b < offset[tasks])
    BY <1>1
<1>3. ASSUME NEW t \in Task
      PROVE  Chain(queue, t, IF t = tasks THEN offset[tasks] ELSE saved[t],
                   received[t], lost[t], Seen(t))
  <2>1. Chain(queue, t, saved[t], received[t], lost[t], Seen(t))
      BY DEF IInv, Chains
  <2>2. CASE t = tasks
      BY <2>2, AtOffset
  <2>3. CASE t # tasks
      BY <2>1, <2>3
  <2> QED
      BY <2>2, <2>3
<1>4. offset[tasks] <= offset[tasks] /\ Len(queue) <= Len(queue)
    BY <1>1
<1> QED
    BY <1>1, <1>2, <1>3, <1>4 DEF Grown

(* The end of a task, behind them.                                         *)
LEMMA EndGrows ==
    ASSUME NEW q \in Seq(MessageType), tasks \in Task
    PROVE  LET r == q \o <<End(tasks)>>
           IN /\ r \in Seq(MessageType) /\ Len(q) \in Nat /\ Len(r) = Len(q) + 1
              /\ \A i \in 1 .. Len(q) : r[i] = q[i]
              /\ r[Len(q) + 1] = End(tasks)
              /\ Append(q, End(tasks)) = r
<1>1. End(tasks) \in MessageType
    BY DEF End, MessageType
<1>2. /\ <<End(tasks)>> \in Seq(MessageType) /\ Len(<<End(tasks)>>) = 1
      /\ <<End(tasks)>>[1] = End(tasks)
    BY <1>1
<1>3. 1 \in 1 .. 1
    OBVIOUS
<1> QED
    BY <1>1, <1>2, <1>3, Concatenated, AppendProperties, ConcatProperties

(* What it does to the offsets.                                            *)
Moved(q, to) ==
    \/ q = queue /\ to = offset[tasks] /\ UNCHANGED <<offset, saved>>
    \/ /\ offset[tasks] < to
       /\ offset' = [offset EXCEPT ![tasks] = to]
       /\ saved' = [saved EXCEPT ![tasks] = to]

(* What a step that grows the queue keeps.                                 *)
LEMMA GrownChains ==
    ASSUME IInv, tasks <= N, NEW q, NEW to, NEW map, Grown(q, to, map),
           queue' = q \/ queue' = q \o <<End(tasks)>>,
           Moved(q, to), UNCHANGED <<received, lost, again>>
    PROVE  Chains' /\ queue' \in Seq(MessageType)
<1>1. /\ q \in Seq(MessageType) /\ tasks \in Task /\ saved \in [Task -> Nat]
      /\ \A t \in Task : Chain(q, t, IF t = tasks THEN to ELSE saved[t],
                               received[t], lost[t], Seen(t))
      /\ \A t \in Task : Seen(t)' = Seen(t)
    BY TypeFacts, Current DEF Grown, Seen
<1>3. \A t \in Task : Chain(q, t, saved'[t], received[t], lost[t], Seen(t))
  <2>1. CASE q = queue /\ saved' = saved
      BY <2>1 DEF IInv, Chains
  <2>2. CASE saved' = [saved EXCEPT ![tasks] = to]
    <3>1. \A t \in Task : saved'[t] = IF t = tasks THEN to ELSE saved[t]
        BY <1>1, <2>2
    <3> QED
        BY <1>1, <3>1
  <2> QED
      BY <2>1, <2>2 DEF Moved
<1>4. CASE queue' = q
    BY <1>1, <1>3, <1>4 DEF Chains
<1>5. CASE queue' = q \o <<End(tasks)>>
  <2> DEFINE r == q \o <<End(tasks)>>
  <2>0. /\ r \in Seq(MessageType) /\ Len(q) \in Nat /\ Len(r) = Len(q) + 1
        /\ \A i \in 1 .. Len(q) : r[i] = q[i]
        /\ r[Len(q) + 1] = End(tasks)
      BY <1>1, EndGrows
  <2> HIDE DEF r
  <2>01. End(tasks).end
      BY DEF End
  <2>1. /\ r \in Seq(MessageType) /\ Len(q) \in Nat /\ Len(r) = Len(q) + 1
        /\ \A i \in 1 .. Len(q) : r[i] = q[i]
        /\ r[Len(q) + 1].end
      BY <2>0, <2>01
  <2>2. /\ Len(q) <= Len(r)
        /\ \A i \in 1 .. Len(r) : i \in 1 .. Len(q) \/ r[i].end
      BY <2>1
  <2>3. \A t \in Task : Chain(r, t, saved'[t], received[t], lost[t], Seen(t))
      BY <1>1, <1>3, <2>1, <2>2, ChainKept
  <2>4. queue' = r
      BY <1>5 DEF r
  <2> QED
      BY <1>1, <2>1, <2>3, <2>4 DEF Chains
<1> QED
    BY <1>4, <1>5

LEMMA MessageMap ==
    ASSUME IInv, NEW i \in 1 .. Len(queue)
    PROVE  queue[i].end => queue[i].map = 0
BY DEF IInv, Ends, End

LEMMA GrownMaps ==
    ASSUME IInv, tasks <= N, NEW q, NEW to, NEW map \in Nat, Grown(q, to, map),
           queue' = q \/ queue' = q \o <<End(tasks)>>,
           mapped' = IF map > 0 /\ offset[tasks] < to
                       THEN mapped \cup {<<tasks, map>>} ELSE mapped
    PROVE  Maps'
<1>1. /\ q \in Seq(MessageType) /\ tasks \in Task /\ Len(queue) \in Nat
      /\ Len(q) \in Nat /\ Len(queue) <= Len(q)
      /\ \A i \in 1 .. Len(queue) : q[i] = queue[i] /\ i \in 1 .. Len(q)
    BY TypeFacts, Current, LenProperties DEF Grown
<1>2. \A t \in Task, n \in Nat \ {0} :
          <<t, n>> \in mapped <=> Using(queue, t, n)
  <2> SUFFICES ASSUME NEW t \in Task, NEW n \in Nat \ {0}
               PROVE  <<t, n>> \in mapped <=> Using(queue, t, n)
      OBVIOUS
  <2>1. n \in Nat /\ n > 0
      OBVIOUS
  <2>2. \A m \in Nat : <<t, m>> \in mapped <=> m > 0 /\ Using(queue, t, m)
      BY DEF IInv, Maps
  <2> QED
      BY <2>1, <2>2
<1>3. \A t \in Task : <<t, 0>> \notin mapped
    BY DEF IInv, Maps
<1>4. ASSUME NEW t \in Task, NEW n \in Nat \ {0}
      PROVE  <<t, n>> \in mapped' <=> Using(q, t, n)
  <2>1. Using(queue, t, n) => Using(q, t, n)
      BY <1>1 DEF Using
  <2>2. Using(q, t, n) => Using(queue, t, n) \/ (t = tasks /\ n = map /\ q # queue)
      BY <1>1 DEF Grown, Using
  <2>3. offset[tasks] < to => Using(q, tasks, map)
      BY Current DEF Grown, Using
  <2>4. q # queue => offset[tasks] < to
      BY DEF Grown
  <2>5. <<t, n>> \in mapped' <=>
            <<t, n>> \in mapped \/ (t = tasks /\ n = map /\ offset[tasks] < to)
      OBVIOUS
  <2> QED
      BY <1>2, <2>1, <2>2, <2>3, <2>4, <2>5
<1>5. ASSUME NEW t \in Task, NEW n \in Nat \ {0}
      PROVE  Using(queue', t, n) <=> Using(q, t, n)
  <2>1. CASE queue' = q
      BY <2>1
  <2>2. CASE queue' = q \o <<End(tasks)>>
    <3> DEFINE r == q \o <<End(tasks)>>
    <3>1. /\ Len(r) = Len(q) + 1
          /\ \A i \in 1 .. Len(q) : r[i] = q[i]
          /\ r[Len(q) + 1].map = 0
        BY <1>1, EndGrows DEF End
    <3> HIDE DEF r
    <3>2. Using(r, t, n) <=> Using(q, t, n)
      <4>1. \A i \in 1 .. Len(r) : i \in 1 .. Len(q) \/ i = Len(q) + 1
          BY <1>1, <3>1
      <4>2. \A i \in 1 .. Len(q) : i \in 1 .. Len(r)
          BY <1>1, <3>1
      <4> QED
          BY <3>1, <4>1, <4>2 DEF Using
    <3>3. queue' = r
        BY <2>2 DEF r
    <3> QED
        BY <3>2, <3>3
  <2> QED
      BY <2>1, <2>2
<1>6. \A t \in Task : <<t, 0>> \notin mapped'
  <2> TAKE t \in Task
  <2>1. map > 0 => <<t, 0>> # <<tasks, map>>
      OBVIOUS
  <2> QED
      BY <1>3, <2>1
<1>7. ASSUME NEW t \in Task, NEW n \in Nat
      PROVE  <<t, n>> \in mapped' <=> n > 0 /\ Using(queue', t, n)
  <2>1. n = 0 \/ (n \in Nat \ {0} /\ n > 0)
      OBVIOUS
  <2>2. CASE n = 0
    <3>1. <<t, n>> \notin mapped'
        BY <1>6, <2>2
    <3>2. ~(n > 0)
        BY <2>2
    <3> QED
        BY <3>1, <3>2
  <2>3. CASE n \in Nat \ {0} /\ n > 0
    <3>1. <<t, n>> \in mapped' <=> Using(q, t, n)
        BY <1>4, <2>3
    <3>2. Using(queue', t, n) <=> Using(q, t, n)
        BY <1>5, <2>3
    <3> QED
        BY <2>3, <3>1, <3>2
  <2> QED
      BY <2>1, <2>2, <2>3
<1> QED
    BY <1>7 DEF Maps

LEMMA PrefixQueued ==
    ASSUME NEW q \in Seq(MessageType), NEW r \in Seq(MessageType),
           Len(q) <= Len(r), \A i \in 1 .. Len(q) : r[i] = q[i],
           NEW t, NEW b, Queued(q, t, b)
    PROVE  Queued(r, t, b)
<1>0. Len(q) \in Nat /\ Len(r) \in Nat
    BY LenProperties
<1>1. PICK i \in 1 .. Len(q) :
          /\ Holds(q, t, i) /\ q[i].from <= b /\ b < q[i].to
          /\ \A j \in 1 .. Len(q) : j < i => ~q[j].end
    BY DEF Queued
<1>2. i \in 1 .. Len(r) /\ r[i] = q[i] /\ Holds(r, t, i)
    BY <1>0, <1>1 DEF Holds
<1>3. ASSUME NEW j \in 1 .. Len(r), j < i
      PROVE  ~r[j].end
  <2>1. j \in 1 .. Len(q)
      BY <1>0, <1>3
  <2> QED
      BY <1>1, <1>3, <2>1
<1> QED
    BY <1>1, <1>2, <1>3 DEF Queued

(* What was owed in the queue still is; with no end in the queue, so is    *)
(* all up to the new offset.                                               *)
LEMMA GrownQueued ==
    ASSUME IInv, tasks <= N, NEW q, NEW to, NEW map, Grown(q, to, map),
           queue' = q \/ queue' = q \o <<End(tasks)>>, NEW b \in Nat,
           \/ Queued(queue, tasks, b)
           \/ state # "TASK_NEXT" /\ offset[tasks] <= b /\ b < to
    PROVE  Queued(queue', tasks, b)
<1>1. /\ q \in Seq(MessageType) /\ tasks \in Task /\ Len(queue) \in Nat
      /\ Len(q) \in Nat /\ Len(queue) <= Len(q) /\ queue \in Seq(MessageType)
      /\ \A i \in 1 .. Len(queue) : q[i] = queue[i]
    BY TypeFacts, Current, LenProperties DEF Grown
<1>2. Queued(q, tasks, b)
  <2>1. CASE Queued(queue, tasks, b)
      BY <1>1, <2>1, PrefixQueued
  <2>2. CASE state # "TASK_NEXT" /\ offset[tasks] <= b /\ b < to
    <3>1. PICK i \in 1 .. Len(q) :
              Holds(q, tasks, i) /\ q[i].from <= b /\ b < q[i].to
        BY <2>2 DEF Grown
    <3>2. \A j \in 1 .. Len(q) : ~q[j].end
        BY <1>1, <2>2 DEF Grown, IInv, Ends
    <3> QED
        BY <3>1, <3>2 DEF Queued
  <2> QED
      BY <2>1, <2>2
<1>3. CASE queue' = q
    BY <1>2, <1>3
<1>4. CASE queue' = q \o <<End(tasks)>>
  <2> DEFINE r == q \o <<End(tasks)>>
  <2>1. /\ r \in Seq(MessageType) /\ Len(r) = Len(q) + 1
        /\ \A i \in 1 .. Len(q) : r[i] = q[i]
      BY <1>1, EndGrows
  <2> HIDE DEF r
  <2>2. Len(q) <= Len(r)
      BY <1>1, <2>1
  <2>3. Queued(r, tasks, b)
      BY <1>1, <1>2, <2>1, <2>2, PrefixQueued
  <2> QED
      BY <1>4, <2>3 DEF r
<1> QED
    BY <1>3, <1>4

LEMMA GrownEnds ==
    ASSUME IInv, tasks <= N, NEW q, NEW to, NEW map, Grown(q, to, map),
           \/ queue' = q /\ state' = state
           \/ /\ queue' = q \o <<End(tasks)>>
              /\ state # "TASK_NEXT" /\ state' = "TASK_NEXT",
           UNCHANGED <<tasks, over>>
    PROVE  Ends'
<1>1. /\ q \in Seq(MessageType) /\ tasks \in Task /\ Len(queue) \in Nat
      /\ Len(q) \in Nat /\ Len(queue) <= Len(q) /\ queue \in Seq(MessageType)
      /\ \A i \in 1 .. Len(queue) : q[i] = queue[i] /\ i \in 1 .. Len(q)
      /\ \A i \in 1 .. Len(q) : \/ i \in 1 .. Len(queue)
                                \/ ~q[i].end /\ q[i].task = tasks
      /\ tasks \in Nat
  <2>1. /\ tasks \in Task /\ tasks \in Nat /\ queue \in Seq(MessageType)
        /\ Len(queue) \in Nat
      BY TypeFacts, Current, LenProperties
  <2>2. /\ q \in Seq(MessageType) /\ Len(queue) <= Len(q)
        /\ \A i \in 1 .. Len(queue) : q[i] = queue[i]
        /\ \A i \in 1 .. Len(q) : \/ i \in 1 .. Len(queue)
                                  \/ ~q[i].end /\ q[i].task = tasks
      BY DEF Grown
  <2>3. Len(q) \in Nat
      BY <2>2, LenProperties
  <2>4. \A i \in 1 .. Len(queue) : i \in 1 .. Len(q)
      BY <2>1, <2>2, <2>3
  <2> QED
      BY <2>1, <2>2, <2>3, <2>4
<1>2. /\ \A i \in 1 .. Len(queue) :
            /\ queue[i].task <= tasks
            /\ queue[i].end => queue[i] = End(tasks) /\ state = "TASK_NEXT"
            /\ \A j \in 1 .. Len(queue) :
                  queue[i].end /\ queue[j].end => i = j
      /\ state = "TASK_NEXT" => \E i \in 1 .. Len(queue) : queue[i].end
      /\ over = tasks - 1 \/ (over = tasks /\ queue # <<>> /\ queue[1].end)
    BY DEF IInv, Ends
<1>3. \A i \in 1 .. Len(q) :
         /\ q[i].task <= tasks
         /\ q[i].end => q[i] = End(tasks) /\ state = "TASK_NEXT"
         /\ \A j \in 1 .. Len(q) : q[i].end /\ q[j].end => i = j
  <2>1. \A i \in 1 .. Len(q) : q[i].end => i \in 1 .. Len(queue)
      BY <1>1
  <2>2. \A i \in 1 .. Len(q) :
           i \notin 1 .. Len(queue) => q[i].task = tasks
      BY <1>1
  <2>3. ASSUME NEW i \in 1 .. Len(q)
        PROVE  q[i].task <= tasks
    <3>1. CASE i \in 1 .. Len(queue)
        BY <1>1, <1>2, <3>1
    <3>2. CASE i \notin 1 .. Len(queue)
        BY <1>1, <2>2, <3>2
    <3> QED
        BY <3>1, <3>2
  <2>4. ASSUME NEW i \in 1 .. Len(q), q[i].end
        PROVE  /\ q[i] = End(tasks) /\ state = "TASK_NEXT"
               /\ \A j \in 1 .. Len(q) : q[j].end => i = j
    <3>1. i \in 1 .. Len(queue) /\ q[i] = queue[i] /\ queue[i].end
        BY <1>1, <2>1, <2>4
    <3>2. \A j \in 1 .. Len(q) :
             q[j].end => j \in 1 .. Len(queue) /\ queue[j].end
        BY <1>1, <2>1
    <3> QED
        BY <1>2, <3>1, <3>2
  <2> QED
      BY <2>3, <2>4
<1>4. queue # <<>> => q # <<>> /\ q[1] = queue[1]
  <2> SUFFICES ASSUME queue # <<>> PROVE q # <<>> /\ q[1] = queue[1]
      OBVIOUS
  <2>1. Len(queue) # 0
      BY <1>1, EmptySeq
  <2>2. 1 \in 1 .. Len(queue)
      BY <1>1, <2>1
  <2>3. Len(q) # 0
      BY <1>1, <2>1
  <2> QED
      BY <1>1, <2>2, <2>3, EmptySeq
<1>5. CASE queue' = q /\ state' = state
  <2>1. state = "TASK_NEXT" => \E i \in 1 .. Len(q) : q[i].end
      BY <1>1, <1>2
  <2>2. tasks' = tasks /\ over' = over
      OBVIOUS
  <2> QED
      BY <1>2, <1>3, <1>4, <1>5, <2>1, <2>2 DEF Ends
<1>6. CASE /\ queue' = q \o <<End(tasks)>>
           /\ state # "TASK_NEXT" /\ state' = "TASK_NEXT"
  <2> DEFINE r == q \o <<End(tasks)>>
             n == Len(q)
  <2>1. /\ r \in Seq(MessageType) /\ Len(r) = n + 1
        /\ \A i \in 1 .. n : r[i] = q[i]
        /\ r[n + 1] = End(tasks)
      BY <1>1, EndGrows
  <2>2. r[n + 1].end /\ r[n + 1].task = tasks
      BY <2>1 DEF End
  <2> HIDE DEF r
  <2>3. \A i \in 1 .. n : ~q[i].end /\ q[i].task <= tasks
      BY <1>3, <1>6
  <2>4. \A i \in 1 .. n + 1 : i \in 1 .. n \/ i = n + 1
      BY <1>1
  <2>5. \A i \in 1 .. n + 1 :
           /\ r[i].task <= tasks
           /\ r[i].end => i = n + 1 /\ r[i] = End(tasks)
      BY <1>1, <2>1, <2>2, <2>3, <2>4, SMTT(30)
  <2>6. n + 1 \in 1 .. n + 1
      BY <1>1
  <2>7. over = tasks - 1
    <3> SUFFICES ASSUME over = tasks, queue # <<>>, queue[1].end PROVE FALSE
        BY <1>2
    <3>1. Len(queue) # 0
        BY <1>1, EmptySeq
    <3>2. 1 \in 1 .. Len(queue)
        BY <1>1, <3>1
    <3> QED
        BY <1>2, <1>6, <3>2
  <2>8. queue' = r /\ tasks' = tasks /\ over' = over
      BY <1>6 DEF r
  <2> QED
      BY <1>6, <2>1, <2>2, <2>5, <2>6, <2>7, <2>8 DEF Ends
<1> QED
    BY <1>5, <1>6

-----------------------------------------------------------------------------
(* Steps that leave the queue and what the controller has.                 *)
LEMMA NothingMoves ==
    ASSUME IInv, cancelled' \in BOOLEAN, alive' \in BOOLEAN, late' \in Nat,
           UNCHANGED <<manager, tasks, state, logVars, queue, received, over,
                       first, boots, again, owed, lost>>
    PROVE  IInv'
<1>1. TypeOK'
    BY TypeFacts DEF TypeOK, logVars
<1>2. Chains'
    BY DEF IInv, Chains, Seen, logVars
<1>3. Ends'
    BY DEF IInv, Ends
<1>4. Offsets'
    BY DEF IInv, Offsets, Settled, logVars
<1>5. Uploading'
    BY DEF IInv, Uploading, Settled, logVars
<1>6. Maps'
  <2>1. Maps /\ queue' = queue /\ mapped' = mapped
      BY DEF IInv, logVars
  <2> QED
      BY <2>1 DEF Maps
<1>7. Owed'
    BY DEF IInv, Owed, InCache, logVars
<1> QED
    BY <1>1, <1>2, <1>3, <1>4, <1>5, <1>6, <1>7 DEF IInv

LEMMA QueueKept ==
    ASSUME IInv,
           UNCHANGED <<queue, mapped, tasks, received, over, lost, saved,
                       again>>,
           \/ state' = state
           \/ state # "TASK_NEXT" /\ state' = "TASK_RUN" /\ tasks <= N
    PROVE  Chains' /\ Ends' /\ Maps'
<1>1. Chains'
    BY DEF IInv, Chains, Seen
<1>2. Ends'
    BY DEF IInv, Ends
<1>3. Maps'
  <2>1. Maps /\ queue' = queue /\ mapped' = mapped
      BY DEF IInv
  <2> QED
      BY <2>1 DEF Maps
<1> QED
    BY <1>1, <1>2, <1>3

LEMMA CacheKept ==
    ASSUME IInv, UNCHANGED <<manager, queue, tasks, received, saved>>,
           state' = state \/ state' # "TASK_NEXT",
           pool' \in [Task -> Nat], file' \in [Task -> Nat],
           \A t \in Task : file[t] + pool[t] <= file'[t] + pool'[t],
           \A t \in Task : \A b \in owed'[t] :
               \/ b \in owed[t]
               \/ t = tasks /\ b \in 0 .. MaxBytes /\ InCache(t, b)'
    PROVE  Owed'
<1> SUFFICES ASSUME NEW t \in Task, NEW b \in owed'[t]
             PROVE  /\ b \in 0 .. MaxBytes
                    /\ \/ b \in received'[t]
                       \/ t = tasks' /\ (Queued(queue', t, b) \/ InCache(t, b)')
    BY DEF Owed
<1>1. CASE b \in owed[t]
  <2>1. /\ b \in 0 .. MaxBytes
        /\ \/ b \in received[t]
           \/ t = tasks /\ (Queued(queue, t, b) \/ InCache(t, b))
      BY <1>1 DEF IInv, Owed
  <2>2. InCache(t, b) => InCache(t, b)'
    <3>1. /\ file[t] \in Nat /\ pool[t] \in Nat
          /\ file'[t] \in Nat /\ pool'[t] \in Nat
          /\ file[t] + pool[t] <= file'[t] + pool'[t] /\ b \in Nat
        BY <2>1, TypeFacts
    <3>2. b < file[t] + pool[t] => b < file'[t] + pool'[t]
        BY <3>1
    <3> QED
        BY <3>2 DEF InCache
  <2> QED
      BY <2>1, <2>2
<1>2. CASE t = tasks /\ b \in 0 .. MaxBytes /\ InCache(t, b)'
    BY <1>2
<1> QED
    BY <1>1, <1>2

(* The offset is not read: what was sent may be sent again.                *)
LEMMA ChainUnread ==
    ASSUME NEW q, NEW t, NEW end, NEW has, NEW took, NEW seen, NEW seen2,
           Chain(q, t, end, has, took, seen), seen2 \subseteq seen
    PROVE  Chain(q, t, end, has, took, seen2)
<1>1. Fresh(q, t, end, seen2)
    BY DEF Chain, Fresh
<1> QED
    BY <1>1 DEF Chain

LEMMA IdleOffset ==
    ASSUME IInv, TaskIdle
    PROVE  /\ tasks \in Task /\ Restored \in Nat
           /\ \E n : n \in {offset[tasks], Restored}
                    /\ offset' = [offset EXCEPT ![tasks] = n]
           /\ \/ UNCHANGED again /\ offset'[tasks] = Restored
              \/ /\ again' = again \cup {t \in {tasks} : offset[t] # Restored}
                 /\ offset'[tasks] = offset[tasks]
           /\ offset[tasks] <= saved[tasks]
           /\ Restored = saved[tasks]
<1>1. tasks <= N
    BY DEF TaskIdle
<1>2. /\ tasks \in Task /\ saved[tasks] \in Nat /\ offset[tasks] \in Nat
      /\ offset \in [Task -> Nat]
    BY <1>1, TypeFacts, Current
<1>3. Restored = IF saved[tasks] > 0 THEN saved[tasks] ELSE offset[tasks]
    BY DEF Restored
<1>4. Restored \in Nat
    BY <1>2, <1>3
<1>5. \/ offset' = [offset EXCEPT ![tasks] = Restored] /\ UNCHANGED again
      \/ /\ again' = again \cup {t \in {tasks} : offset[t] # Restored}
         /\ UNCHANGED offset
    BY DEF TaskIdle
<1>6. offset[tasks] <= saved[tasks]
  <2>1. CASE Settled
      BY <1>1, <2>1, AtOffset
  <2>2. CASE ~Settled
    <3>1. offset[tasks] = 0
        BY <1>1, <2>2 DEF IInv, Offsets
    <3> QED
        BY <1>2, <3>1
  <2> QED
      BY <2>1, <2>2
<1>7. Restored = saved[tasks]
    BY <1>2, <1>3, <1>6
<1> HIDE DEF Restored
<1>8. CASE offset' = [offset EXCEPT ![tasks] = Restored] /\ UNCHANGED again
  <2>1. offset'[tasks] = Restored
      BY <1>2, <1>8
  <2> QED
      BY <1>2, <1>4, <1>6, <1>7, <1>8, <2>1
<1>9. CASE /\ again' = again \cup {t \in {tasks} : offset[t] # Restored}
           /\ UNCHANGED offset
  <2>1. offset' = [offset EXCEPT ![tasks] = offset[tasks]]
      BY <1>2, <1>9
  <2> QED
      BY <1>2, <1>4, <1>6, <1>7, <1>9, <2>1
<1> QED
    BY <1>5, <1>8, <1>9

LEMMA IdleStep ==
    ASSUME IInv, TaskIdle
    PROVE  IInv'
<1>1. /\ tasks <= N /\ state = "TASK_IDLE" /\ state' = "TASK_RUN"
      /\ UNCHANGED <<manager, tasks, cancelled, alive, source, id, pool, file,
                     saved, mapped, queue, received, over, first, boots, late,
                     owed, lost>>
    BY DEF TaskIdle
<1>2. /\ tasks \in Task /\ saved[tasks] \in Nat /\ offset[tasks] \in Nat
      /\ offset[tasks] <= saved[tasks] /\ offset \in [Task -> Nat]
    BY <1>1, TypeFacts, Current, IdleOffset
<1>3. PICK n : n \in {offset[tasks], Restored}
               /\ offset' = [offset EXCEPT ![tasks] = n]
    BY IdleOffset
<1>4. /\ Restored \in Nat
      /\ Restored = saved[tasks]
      /\ \/ UNCHANGED again /\ offset'[tasks] = Restored
         \/ /\ again' = again \cup {t \in {tasks} : offset[t] # Restored}
            /\ offset'[tasks] = offset[tasks]
    BY IdleOffset
<1> HIDE DEF Restored
<1>5. /\ n \in Nat /\ offset[tasks] <= n /\ n <= saved[tasks]
      /\ offset' \in [Task -> Nat] /\ offset'[tasks] = n
      /\ \A t \in Task : t # tasks => offset'[t] = offset[t]
  <2>1. n = offset[tasks] \/ n = Restored
      BY <1>3
  <2>2. n \in Nat /\ offset[tasks] <= n /\ n <= saved[tasks]
    <3>1. CASE n = offset[tasks]
        BY <1>2, <3>1
    <3>2. CASE n = saved[tasks]
        BY <1>2, <3>2
    <3>3. n = Restored => n = offset[tasks] \/ n = saved[tasks]
        BY <1>4
    <3> QED
        BY <2>1, <3>1, <3>2, <3>3
  <2> QED
      BY <1>2, <1>3, <2>2
<1>6. again \subseteq again' /\ again' \subseteq Task
    BY <1>2, <1>4, TypeFacts
<1>7. TypeOK'
  <2>1. ASSUME manager, NEW t \in Task
        PROVE  offset'[t] <= file[t]
    <3>1. offset[t] <= file[t] /\ saved[t] <= file[t] /\ file[t] \in Nat
        BY <2>1, TypeFacts DEF IInv, Offsets
    <3>2. CASE t = tasks
        BY <1>2, <1>5, <3>1, <3>2
    <3>3. CASE t # tasks
        BY <1>5, <3>1, <3>3
    <3> QED
        BY <3>2, <3>3
  <2> QED
      BY <1>1, <1>5, <1>6, <2>1, TypeFacts DEF TypeOK
<1>8. Chains'
  <2> SUFFICES ASSUME NEW t \in Task
               PROVE  Chain(queue', t, saved'[t], received'[t], lost'[t],
                            Seen(t)')
      BY DEF Chains
  <2>1. Chain(queue, t, saved[t], received[t], lost[t], Seen(t))
      BY DEF IInv, Chains
  <2>2. Seen(t)' \subseteq Seen(t)
      BY <1>1, <1>6 DEF Seen
  <2>3. Chain(queue, t, saved[t], received[t], lost[t], Seen(t)')
      BY <2>1, <2>2, ChainUnread
  <2> QED
      BY <1>1, <2>3
<1>9. Ends' /\ Maps'
  <2>1. Ends'
      BY <1>1 DEF IInv, Ends
  <2>2. Maps /\ queue' = queue /\ mapped' = mapped
      BY <1>1 DEF IInv
  <2> QED
      BY <2>1, <2>2 DEF Maps
<1>10. Offsets'
  <2>1. \A t \in Task : t > tasks =>
            pool[t] = 0 /\ file[t] = 0 /\ offset'[t] = 0 /\ saved[t] = 0
    <3>1. \A t \in Task : t > tasks => t # tasks
        BY <1>2 DEF Task
    <3> QED
        BY <1>5, <3>1 DEF IInv, Offsets
  <2>2. /\ manager => \A t \in Task : saved[t] <= file[t]
        /\ first <= tasks
      BY DEF IInv, Offsets
  <2>3. \/ offset'[tasks] = saved[tasks]
        \/ /\ offset'[tasks] = 0 /\ tasks \in again'
           /\ \A i \in 1 .. Len(queue) : ~Holds(queue, tasks, i)
    <3>1. CASE offset'[tasks] = Restored
        BY <1>2, <1>4, <3>1
    <3>2. CASE /\ again' = again \cup {t \in {tasks} : offset[t] # Restored}
               /\ offset'[tasks] = offset[tasks]
      <4>1. CASE Settled
        <5>1. \/ offset[tasks] = saved[tasks]
              \/ /\ offset[tasks] = 0 /\ tasks \in again
                 /\ \A i \in 1 .. Len(queue) : ~Holds(queue, tasks, i)
            BY <1>1, <4>1 DEF IInv, Offsets
        <5>2. CASE offset[tasks] = saved[tasks]
            BY <3>2, <5>2
        <5>3. CASE /\ offset[tasks] = 0 /\ tasks \in again
                   /\ \A i \in 1 .. Len(queue) : ~Holds(queue, tasks, i)
            BY <1>6, <3>2, <5>3
        <5> QED
            BY <5>1, <5>2, <5>3
      <4>2. CASE ~Settled
        <5>1. queue = <<>> /\ offset[tasks] = 0
            BY <1>1, <4>2 DEF IInv, Offsets
        <5>2. \A i : ~(i \in 1 .. Len(queue))
          <6>1. Len(queue) = 0
              BY <5>1
          <6> QED
              BY <6>1
        <5>3. CASE Restored = 0
            BY <1>2, <1>4, <3>2, <5>1, <5>3
        <5>4. CASE Restored # 0
          <6>1. tasks \in again'
              BY <3>2, <5>1, <5>4
          <6> QED
              BY <3>2, <5>1, <5>2, <6>1
        <5> QED
            BY <5>3, <5>4
      <4> QED
          BY <4>1, <4>2
    <3> QED
        BY <1>4, <3>1, <3>2
  <2>4. Settled'
      BY <1>1 DEF Settled
  <2> QED
      BY <1>1, <2>1, <2>2, <2>3, <2>4 DEF Offsets
<1>11. Uploading'
  <2>1. Settled'
      BY <1>1 DEF Settled
  <2>2. file[tasks] + pool[tasks] > offset'[tasks]
            => file[tasks] + pool[tasks] > offset[tasks]
    <3>1. file[tasks] + pool[tasks] \in Nat
        BY <1>1, Current
    <3> QED
        BY <1>2, <1>5, <3>1
  <2> QED
      BY <1>1, <2>1, <2>2 DEF IInv, Uploading
<1>12. Owed'
  <2>1. /\ UNCHANGED <<manager, queue, tasks, received, saved, file, pool>>
        /\ state # "TASK_NEXT" /\ state' # "TASK_NEXT"
      BY <1>1
  <2>2. owed' = owed
      BY <1>1
  <2> QED
      BY <2>1, <2>2 DEF IInv, Owed, InCache
<1> QED
    BY <1>7, <1>8, <1>9, <1>10, <1>11, <1>12 DEF IInv

LEMMA WriteStep ==
    ASSUME IInv, NEW u \in Task, WriteLog(u)
    PROVE  IInv'
<1>1. /\ pool[u] > 0
      /\ pool' = [pool EXCEPT ![u] = @ - 1]
      /\ file' = [file EXCEPT ![u] = @ + 1]
      /\ UNCHANGED <<manager, tasks, state, cancelled, alive, source, id,
                     offset, saved, mapped, queue, received, over, first,
                     boots, late, again, owed, lost>>
    BY DEF WriteLog, bootVars
<1>2. /\ pool \in [Task -> Nat] /\ file \in [Task -> Nat]
      /\ pool[u] \in Nat /\ file[u] \in Nat
    BY TypeFacts
<1>3. pool[u] - 1 \in Nat /\ file[u] + 1 \in Nat
    BY <1>1, <1>2
<1>4. /\ pool' \in [Task -> Nat] /\ file' \in [Task -> Nat]
      /\ pool'[u] = pool[u] - 1 /\ file'[u] = file[u] + 1
      /\ \A t \in Task : t # u => pool'[t] = pool[t] /\ file'[t] = file[t]
    BY <1>1, <1>2, <1>3
<1>5. \A t \in Task : /\ file'[t] + pool'[t] = file[t] + pool[t]
                      /\ file[t] <= file'[t]
  <2> TAKE t \in Task
  <2>1. pool[t] \in Nat /\ file[t] \in Nat
      BY <1>2
  <2>2. CASE t = u
      BY <1>1, <1>2, <1>4, <2>2
  <2>3. CASE t # u
      BY <1>4, <2>1, <2>3
  <2> QED
      BY <2>2, <2>3
<1>6. \A t \in Task : /\ offset[t] \in Nat /\ saved[t] \in Nat
                      /\ file[t] \in Nat /\ file'[t] \in Nat /\ pool[t] \in Nat
    BY <1>4, TypeFacts
<1>7. TypeOK'
  <2>1. manager => \A t \in Task : offset[t] <= file'[t]
    <3>1. manager => \A t \in Task : offset[t] <= file[t]
        BY TypeFacts
    <3> QED
        BY <1>5, <1>6, <3>1
  <2> QED
      BY <1>1, <1>4, <2>1, TypeFacts DEF TypeOK
<1>8. Chains' /\ Ends' /\ Maps'
    BY <1>1, QueueKept
<1>9. Offsets'
  <2>1. \A t \in Task : t > tasks =>
            pool[t] = 0 /\ file[t] = 0 /\ offset[t] = 0 /\ saved[t] = 0
      BY DEF IInv, Offsets
  <2>2. manager => \A t \in Task : saved[t] <= file[t]
      BY DEF IInv, Offsets
  <2>3. \A t \in Task : t > tasks => t # u
      BY <1>1, <2>1
  <2>4. manager => \A t \in Task : saved[t] <= file'[t]
      BY <1>5, <1>6, <2>2
  <2>5. /\ first <= tasks
        /\ ~Settled => queue = <<>> /\ (tasks <= N => offset[tasks] = 0)
        /\ tasks <= N /\ Settled =>
              \/ offset[tasks] = saved[tasks]
              \/ /\ offset[tasks] = 0 /\ tasks \in again
                 /\ \A i \in 1 .. Len(queue) : ~Holds(queue, tasks, i)
      BY DEF IInv, Offsets
  <2>6. Settled' <=> Settled
      BY <1>1 DEF Settled
  <2> QED
      BY <1>1, <1>4, <2>1, <2>3, <2>4, <2>5, <2>6 DEF Offsets
<1>10. Uploading'
  <2>1. tasks <= N => file'[tasks] + pool'[tasks] = file[tasks] + pool[tasks]
      BY <1>5, Current
  <2> QED
      BY <1>1, <2>1 DEF IInv, Uploading, Settled
<1>11. Owed'
  <2>1. \A t \in Task : file[t] + pool[t] <= file'[t] + pool'[t]
      BY <1>5, <1>6
  <2> QED
      BY <1>1, <1>4, <2>1, CacheKept
<1> QED
    BY <1>7, <1>8, <1>9, <1>10, <1>11 DEF IInv

-----------------------------------------------------------------------------
(* Steps that add to the log of the current task.                          *)
LEMMA OwedQueued ==
    ASSUME IInv, tasks <= N, Settled, NEW q, NEW to, NEW map,
           Grown(q, to, map),
           queue' = q \/ queue' = q \o <<End(tasks)>>,
           manager => to = file[tasks] + pool[tasks],
           \A t \in Task : \A b \in owed'[t] :
               \/ b \in owed[t]
               \/ /\ t = tasks /\ b \in 0 .. MaxBytes
                  /\ state # "TASK_NEXT" /\ offset[tasks] <= b /\ b < to,
           UNCHANGED <<tasks, received>>
    PROVE  Owed'
<1> SUFFICES ASSUME NEW t \in Task, NEW b \in owed'[t]
             PROVE  /\ b \in 0 .. MaxBytes
                    /\ \/ b \in received[t]
                       \/ t = tasks /\ Queued(queue', t, b)
    BY DEF Owed
<1>1. /\ b \in 0 .. MaxBytes
      /\ \/ b \in received[t]
         \/ /\ t = tasks
            /\ \/ Queued(queue, tasks, b)
               \/ state # "TASK_NEXT" /\ offset[tasks] <= b /\ b < to
  <2>1. CASE b \in owed[t]
    <3>1. /\ b \in 0 .. MaxBytes
          /\ \/ b \in received[t]
             \/ t = tasks /\ (Queued(queue, t, b) \/ InCache(t, b))
        BY <2>1 DEF IInv, Owed
    <3>2. t = tasks /\ InCache(t, b) =>
              state # "TASK_NEXT" /\ offset[tasks] <= b /\ b < to
      <4> SUFFICES ASSUME t = tasks, InCache(t, b)
                   PROVE  /\ state # "TASK_NEXT"
                          /\ offset[tasks] <= b /\ b < to
          OBVIOUS
      <4>1. /\ manager /\ state # "TASK_NEXT"
            /\ saved[tasks] <= b /\ b < file[tasks] + pool[tasks]
          BY DEF InCache
      <4>2. /\ offset[tasks] <= saved[tasks] /\ b \in Nat
            /\ offset[tasks] \in Nat /\ saved[tasks] \in Nat
          BY <3>1, AtOffset, Current, TypeFacts
      <4> QED
          BY <4>1, <4>2
    <3> QED
        BY <3>1, <3>2
  <2>2. CASE /\ t = tasks /\ b \in 0 .. MaxBytes
             /\ state # "TASK_NEXT" /\ offset[tasks] <= b /\ b < to
      BY <2>2
  <2> QED
      BY <2>1, <2>2
<1>2. b \in Nat
    BY <1>1, TypeFacts
<1>3. (\/ Queued(queue, tasks, b)
       \/ state # "TASK_NEXT" /\ offset[tasks] <= b /\ b < to)
          => Queued(queue', tasks, b)
    BY <1>2, GrownQueued
<1> QED
    BY <1>1, <1>3

LEMMA GrowStep ==
    ASSUME IInv, tasks <= N, Settled,
           NEW q, NEW to, NEW map \in Nat, Grown(q, to, map),
           \/ queue' = q /\ state' = state
           \/ /\ queue' = q \o <<End(tasks)>>
              /\ state # "TASK_NEXT" /\ state' = "TASK_NEXT",
           mapped' = IF map > 0 /\ offset[tasks] < to
                       THEN mapped \cup {<<tasks, map>>} ELSE mapped,
           Moved(q, to),
           file' \in [Task -> Nat], pool' \in [Task -> Nat],
           \A t \in Task : t # tasks => file'[t] = file[t] /\ pool'[t] = pool[t],
           manager => file'[tasks] = to /\ to = file[tasks] + pool[tasks],
           owed' \in [Task -> SUBSET Nat],
           \A t \in Task : \A b \in owed'[t] :
               \/ b \in owed[t]
               \/ /\ t = tasks /\ b \in 0 .. MaxBytes
                  /\ state # "TASK_NEXT" /\ offset[tasks] <= b /\ b < to,
           source' \in Nat, id' \in BOOLEAN, cancelled' \in BOOLEAN,
           late' \in Nat, alive' \in BOOLEAN,
           UNCHANGED <<manager, tasks, received, over, first, boots, again,
                       lost>>,
           Uploading'
    PROVE  IInv'
<1>1. /\ tasks \in Task /\ to \in Nat
      /\ saved \in [Task -> Nat] /\ offset \in [Task -> Nat]
    BY TypeFacts, Current DEF Grown
<1>2. /\ saved' \in [Task -> Nat] /\ offset' \in [Task -> Nat]
      /\ offset'[tasks] = to
      /\ saved'[tasks] = to \/ (saved'[tasks] = saved[tasks] /\ q = queue
                                 /\ offset'[tasks] = offset[tasks])
      /\ \A t \in Task : t # tasks =>
            saved'[t] = saved[t] /\ offset'[t] = offset[t]
  <2>1. CASE q = queue /\ to = offset[tasks] /\ UNCHANGED <<offset, saved>>
      BY <1>1, <2>1
  <2>2. CASE /\ offset' = [offset EXCEPT ![tasks] = to]
             /\ saved' = [saved EXCEPT ![tasks] = to]
      BY <1>1, <2>2
  <2> QED
      BY <2>1, <2>2 DEF Moved
<1>3. Chains' /\ queue' \in Seq(MessageType)
    BY GrownChains
<1>4. Ends'
    BY GrownEnds
<1>5. Maps'
    BY GrownMaps
<1>6. Owed'
    BY OwedQueued
<1>7. manager => \A t \in Task : offset'[t] <= file'[t] /\ saved'[t] <= file'[t]
  <2> SUFFICES ASSUME manager, NEW t \in Task
               PROVE  offset'[t] <= file'[t] /\ saved'[t] <= file'[t]
      OBVIOUS
  <2>1. offset[t] <= file[t] /\ saved[t] <= file[t]
      BY TypeFacts DEF IInv, Offsets
  <2>2. CASE t = tasks
    <3>1. offset'[t] = to /\ file'[t] = to
        BY <1>2, <2>2
    <3>2. saved[t] <= to
      <4>1. file[t] \in Nat /\ pool[t] \in Nat /\ saved[t] \in Nat
            /\ to = file[t] + pool[t]
          BY <2>2, TypeFacts
      <4> QED
          BY <2>1, <4>1
    <3>3. saved'[t] = to \/ saved'[t] = saved[t]
        BY <1>2, <2>2
    <3> QED
        BY <1>1, <3>1, <3>2, <3>3
  <2>3. CASE t # tasks
      BY <1>2, <2>1, <2>3
  <2> QED
      BY <2>2, <2>3
<1>8. TypeOK'
  <2>1. mapped' \subseteq Task \X Nat
    <3>1. mapped \subseteq Task \X Nat /\ <<tasks, map>> \in Task \X Nat
        BY <1>1, TypeFacts
    <3> QED
        BY <3>1
  <2>2. state' \in {"TASK_IDLE", "TASK_RUN", "TASK_NEXT"}
      BY TypeFacts
  <2> QED
      BY <1>2, <1>3, <1>7, <2>1, <2>2, TypeFacts DEF TypeOK
<1>9. Offsets'
  <2>1. \A t \in Task : t > tasks => t # tasks
      BY <1>1 DEF Task
  <2>2. \A t \in Task : t > tasks =>
            pool[t] = 0 /\ file[t] = 0 /\ offset[t] = 0 /\ saved[t] = 0
      BY DEF IInv, Offsets
  <2>3. \A t \in Task : t > tasks =>
            pool'[t] = 0 /\ file'[t] = 0 /\ offset'[t] = 0 /\ saved'[t] = 0
      BY <1>2, <2>1, <2>2
  <2>4. Settled' /\ first <= tasks
    <3>1. state' = state \/ state' = "TASK_NEXT"
        OBVIOUS
    <3> QED
        BY <3>1 DEF Settled, IInv, Offsets
  <2>5. \/ offset'[tasks] = saved'[tasks]
        \/ /\ offset'[tasks] = 0 /\ tasks \in again
           /\ \A i \in 1 .. Len(queue') : ~Holds(queue', tasks, i)
    <3> SUFFICES ASSUME saved'[tasks] = saved[tasks], q = queue,
                        offset'[tasks] = offset[tasks],
                        offset[tasks] # saved[tasks]
                 PROVE  /\ offset'[tasks] = 0 /\ tasks \in again
                        /\ \A i \in 1 .. Len(queue') :
                              ~Holds(queue', tasks, i)
        BY <1>2
    <3>1. /\ offset[tasks] = 0 /\ tasks \in again
          /\ \A i \in 1 .. Len(queue) : ~Holds(queue, tasks, i)
        BY DEF IInv, Offsets
    <3>2. ASSUME NEW i \in 1 .. Len(queue'), Holds(queue', tasks, i)
          PROVE  FALSE
      <4>1. CASE queue' = queue
          BY <3>1, <3>2, <4>1
      <4>2. CASE queue' = queue \o <<End(tasks)>>
        <5> DEFINE r == queue \o <<End(tasks)>>
        <5>1. /\ Len(queue) \in Nat /\ Len(r) = Len(queue) + 1
              /\ \A k \in 1 .. Len(queue) : r[k] = queue[k]
              /\ r[Len(queue) + 1] = End(tasks)
            BY <1>1, TypeFacts, EndGrows
        <5> HIDE DEF r
        <5>2. queue' = r
            BY <4>2 DEF r
        <5>3. End(tasks).end
            BY DEF End
        <5>4. i \in 1 .. Len(queue) \/ i = Len(queue) + 1
            BY <5>1, <5>2
        <5> QED
            BY <3>1, <3>2, <5>1, <5>2, <5>3, <5>4, SMTT(30) DEF Holds
      <4> QED
          BY <4>1, <4>2
    <3> QED
        BY <3>1, <3>2
  <2> QED
      BY <1>2, <1>7, <2>3, <2>4, <2>5 DEF Offsets
<1> QED
    BY <1>3, <1>4, <1>5, <1>6, <1>8, <1>9 DEF IInv

(* rstrnt_upload_logs, for the uploader and at the end of the task.        *)
LEMMA Uploaded ==
    ASSUME IInv, tasks <= N, manager, Settled,
           NEW rest \in Seq(MessageType), Upload(tasks, rest)
    PROVE  \E q : LET to == file[tasks] + pool[tasks]
                  IN /\ Grown(q, to, to) /\ queue' = q \o rest
                     /\ mapped' = IF to > 0 /\ offset[tasks] < to
                                    THEN mapped \cup {<<tasks, to>>} ELSE mapped
                     /\ Moved(q, to)
                     /\ file' = [file EXCEPT ![tasks] = to]
                     /\ pool' = [pool EXCEPT ![tasks] = 0]
                     /\ to \in Nat
<1> DEFINE to == file[tasks] + pool[tasks]
<1>1. /\ tasks \in Task /\ pool[tasks] \in Nat /\ file[tasks] \in Nat
      /\ offset[tasks] \in Nat /\ offset[tasks] <= file[tasks]
    BY Current, TypeFacts
<1>2. /\ to \in Nat /\ offset[tasks] <= to
      /\ file[tasks] + pool[tasks] - to = 0
    BY <1>1
<1>3. /\ file' = [file EXCEPT ![tasks] = to]
      /\ pool' = [pool EXCEPT ![tasks] = file[tasks] + @ - to]
    BY DEF Upload, Flushed
<1>4. pool' = [pool EXCEPT ![tasks] = 0]
    BY <1>2, <1>3
<1>5. CASE offset[tasks] < to
  <2> DEFINE s == Chunks(tasks, offset[tasks], to)
  <2>1. /\ queue' = queue \o s \o rest
        /\ mapped' = mapped \cup {<<tasks, to>>}
        /\ Moved(queue \o s, to)
    <3>1. to > offset[tasks]
        BY <1>1, <1>2, <1>5
    <3> QED
        BY <1>1, <1>5, <3>1 DEF Upload, Flushed, ConfigOffset, Moved
  <2>2. Run(s, tasks, offset[tasks], to, to)
      BY <1>1, <1>2, <1>5, ChunksRun
  <2>3. Grown(queue \o s, to, to)
      BY <1>2, <1>5, <2>2, RunGrows
  <2>4. to > 0
      BY <1>1, <1>2, <1>5
  <2> HIDE DEF to, s
  <2>5. WITNESS queue \o s
  <2> QED
      BY <1>2, <1>3, <1>4, <1>5, <2>1, <2>3, <2>4 DEF to
<1>6. CASE offset[tasks] = to
  <2>1. ~(to > offset[tasks])
      BY <1>1, <1>2, <1>6
  <2>2. queue' = queue \o rest /\ UNCHANGED <<mapped, offset, saved>>
      BY <2>1 DEF Upload, Flushed
  <2>3. Grown(queue, to, to)
      BY <1>6, NothingGrows
  <2>4. Moved(queue, to)
      BY <1>6, <2>2 DEF Moved
  <2>5. ~(offset[tasks] < to)
      BY <1>2, <1>6
  <2> HIDE DEF to
  <2>6. WITNESS queue
  <2> QED
      BY <1>2, <1>3, <1>4, <2>2, <2>3, <2>4, <2>5 DEF to
<1>7. offset[tasks] < to \/ offset[tasks] = to
    BY <1>1, <1>2
<1> QED
    BY <1>5, <1>6, <1>7

LEMMA LogBytesStep ==
    ASSUME IInv, tasks <= N, manager, Settled, LogBytes,
           owed' \in [Task -> SUBSET Nat],
           \A t \in Task : \A b \in owed'[t] :
               \/ b \in owed[t]
               \/ /\ t = tasks /\ b \in 0 .. MaxBytes /\ state = "TASK_RUN"
                  /\ b = file[tasks] + pool[tasks],
           late' \in Nat,
           UNCHANGED <<manager, tasks, state, cancelled, alive, received, over,
                       first, boots, again, lost>>
    PROVE  IInv'
<1>1. /\ pool' = [pool EXCEPT ![tasks] = @ + 1]
      /\ UNCHANGED <<file, offset, saved, mapped, queue>>
    BY DEF LogBytes
<1>2. /\ tasks \in Task /\ pool \in [Task -> Nat] /\ file \in [Task -> Nat]
      /\ pool[tasks] \in Nat /\ file[tasks] \in Nat /\ saved[tasks] \in Nat
      /\ tasks \in Nat
  <2>1. tasks \in Nat
      BY TypeFacts
  <2> QED
      BY <2>1, TypeFacts, Current
<1>3. /\ pool' \in [Task -> Nat] /\ pool'[tasks] = pool[tasks] + 1
      /\ \A t \in Task : t # tasks => pool'[t] = pool[t]
  <2>1. pool[tasks] + 1 \in Nat
      BY <1>2
  <2> QED
      BY <1>1, <1>2, <2>1
<1>4. source' = 1 /\ id' = TRUE
  <2>1. source <= 1 /\ ((source = 1) = id) /\ source \in Nat /\ id \in BOOLEAN
      BY TypeFacts DEF IInv, Uploading
  <2>2. IF id THEN source' = source /\ id' = id
              ELSE source' = source + 1 /\ id' = TRUE
      BY DEF LogBytes, StartUploader
  <2>3. CASE id
      BY <2>1, <2>2, <2>3
  <2>4. CASE ~id
    <3>1. source = 0
        BY <2>1, <2>4
    <3> QED
        BY <2>2, <2>4, <3>1
  <2> QED
      BY <2>3, <2>4
<1>5. TypeOK'
    BY <1>1, <1>3, <1>4, TypeFacts DEF TypeOK
<1>6. Chains' /\ Ends' /\ Maps'
    BY <1>1, QueueKept
<1>7. Offsets'
  <2>1. \A t \in Task : t > tasks => t # tasks
      BY <1>2 DEF Task
  <2> QED
      BY <1>1, <1>3, <2>1 DEF IInv, Offsets, Settled
<1>8. Uploading'
  <2>0. source' <= 1 /\ manager'
      BY <1>4
  <2>1. (source' = 1) = id'
    <3>1. (source' = 1) = TRUE
        BY <1>4
    <3> QED
        BY <1>4, <3>1
  <2>2. Settled'
      BY DEF Settled
  <2> QED
      BY <1>4, <2>0, <2>1, <2>2 DEF Uploading
<1>9. Owed'
  <2>1. \A t \in Task : file[t] + pool[t] <= file'[t] + pool'[t]
    <3> TAKE t \in Task
    <3>1. file[t] \in Nat /\ pool[t] \in Nat
        BY <1>2
    <3>2. CASE t = tasks
        BY <1>1, <1>2, <1>3, <3>2
    <3>3. CASE t # tasks
        BY <1>1, <1>3, <3>1, <3>3
    <3> QED
        BY <3>2, <3>3
  <2>2. ASSUME NEW t \in Task, NEW b \in owed'[t], b \notin owed[t]
        PROVE  t = tasks /\ b \in 0 .. MaxBytes /\ InCache(t, b)'
    <3>1. /\ t = tasks /\ b \in 0 .. MaxBytes /\ state = "TASK_RUN"
          /\ b = file[tasks] + pool[tasks]
        BY <2>2
    <3>2. saved[tasks] <= file[tasks]
        BY <1>2 DEF IInv, Offsets
    <3>3. saved'[tasks] <= b
        BY <1>1, <1>2, <3>1, <3>2
    <3>4. b < file'[tasks] + pool'[tasks]
        BY <1>1, <1>2, <1>3, <3>1
    <3>5. manager' /\ state' # "TASK_NEXT"
        BY <3>1
    <3> QED
        BY <3>1, <3>3, <3>4, <3>5 DEF InCache
  <2>3. \A t \in Task : \A b \in owed'[t] :
            b \in owed[t] \/ (t = tasks /\ b \in 0 .. MaxBytes /\ InCache(t, b)')
      BY <2>2
  <2>4. file' \in [Task -> Nat]
      BY <1>1, <1>2
  <2> QED
      BY <1>1, <1>3, <2>1, <2>3, <2>4, CacheKept
<1> QED
    BY <1>5, <1>6, <1>7, <1>8, <1>9 DEF IInv

(* One piece sent at once is a run of its own.                             *)
LEMMA WriteRun ==
    ASSUME NEW t \in Task, NEW n \in Nat
    PROVE  /\ Run(<<Chunk(t, n, n + 1, 0)>>, t, n, n + 1, 0)
           /\ Chunk(t, n, n + 1, 0) \in MessageType
<1> DEFINE m == Chunk(t, n, n + 1, 0)
           s == <<m>>
<1>1. m \in MessageType
    BY DEF Chunk, MessageType
<1>2. ~m.end /\ m.task = t /\ m.map = 0 /\ m.from = n /\ m.to = n + 1
    BY DEF Chunk
<1> HIDE DEF m
<1>3. s \in Seq(MessageType) /\ Len(s) = 1 /\ s[1] = m /\ s # <<>>
    BY <1>1
<1>4. \A i \in 1 .. 1 : i = 1
    OBVIOUS
<1> HIDE DEF s
<1>5. Run(s, t, n, n + 1, 0)
    BY <1>2, <1>3, <1>4 DEF Run
<1> QED
    BY <1>1, <1>5 DEF s, m

LEMMA ConnectionsWriteStep ==
    ASSUME IInv, tasks <= N, ~manager, Settled,
           ConnectionsWrite,
           owed' \in [Task -> SUBSET Nat],
           \A t \in Task : \A b \in owed'[t] :
               \/ b \in owed[t]
               \/ /\ t = tasks /\ b \in 0 .. MaxBytes /\ state = "TASK_RUN"
                  /\ b = offset[tasks],
           late' \in Nat,
           UNCHANGED <<manager, tasks, state, cancelled, alive, received, over,
                       first, boots, again, lost>>
    PROVE  IInv'
<1> DEFINE n == offset[tasks]
           m == Chunk(tasks, n, n + 1, 0)
           q == queue \o <<m>>
<1>1. /\ tasks \in Task /\ n \in Nat
      /\ queue \in Seq(MessageType) /\ file \in [Task -> Nat]
      /\ pool \in [Task -> Nat] /\ MaxBytes \in Nat
    BY TypeFacts, Current
<1>2. /\ queue' = Append(queue, m)
      /\ offset' = [offset EXCEPT ![tasks] = n + 1]
      /\ saved' = [saved EXCEPT ![tasks] = n + 1]
      /\ UNCHANGED <<source, id, pool, file, mapped>>
    BY <1>1 DEF ConnectionsWrite, ConfigOffset
<1>3. Run(<<m>>, tasks, n, n + 1, 0) /\ m \in MessageType
    BY <1>1, WriteRun
<1>4. n + 1 \in Nat /\ n < n + 1 /\ 0 \in {0, n + 1}
    BY <1>1
<1>5. Grown(q, n + 1, 0)
    BY <1>3, <1>4, RunGrows
<1>6. queue' = q
    BY <1>1, <1>2, <1>3, AppendIsConcat
<1>7. \A t \in Task : \A b \in owed'[t] :
          \/ b \in owed[t]
          \/ /\ t = tasks /\ b \in 0 .. MaxBytes
             /\ state # "TASK_NEXT" /\ offset[tasks] <= b /\ b < n + 1
    BY <1>1
<1>8. Uploading'
    BY <1>2 DEF IInv, Uploading, Settled
<1>9. source' \in Nat /\ id' \in BOOLEAN /\ cancelled' \in BOOLEAN
      /\ file' \in [Task -> Nat] /\ pool' \in [Task -> Nat]
      /\ \A t \in Task : t # tasks => file'[t] = file[t] /\ pool'[t] = pool[t]
    BY <1>1, <1>2, TypeFacts
<1>10. mapped' = IF 0 > 0 /\ offset[tasks] < n + 1
                   THEN mapped \cup {<<tasks, 0>>} ELSE mapped
    BY <1>2
<1>11. Moved(q, n + 1) /\ alive' \in BOOLEAN
    BY <1>2, <1>4, TypeFacts DEF Moved
<1> HIDE DEF n, q, m
<1> QED
    BY <1>2, <1>4, <1>5, <1>6, <1>7, <1>8, <1>9, <1>10, <1>11, GrowStep

LEMMA Logging ==
    ASSUME IInv, tasks <= N, Settled,
           IF manager THEN LogBytes ELSE ConnectionsWrite,
           owed' \in [Task -> SUBSET Nat],
           \A t \in Task : \A b \in owed'[t] :
               \/ b \in owed[t]
               \/ /\ t = tasks /\ b \in 0 .. MaxBytes /\ state = "TASK_RUN"
                  /\ b = Position,
           late' \in Nat,
           UNCHANGED <<manager, tasks, state, cancelled, alive, received, over,
                       first, boots, again, lost>>
    PROVE  IInv'
<1>1. CASE manager
  <2>1. LogBytes /\ Position = file[tasks] + pool[tasks]
      BY <1>1 DEF Position
  <2> QED
      BY <1>1, <2>1, LogBytesStep
<1>2. CASE ~manager
  <2>1. ConnectionsWrite /\ Position = offset[tasks]
      BY <1>2 DEF Position
  <2> QED
      BY <1>2, <2>1, ConnectionsWriteStep
<1> QED
    BY <1>1, <1>2, TypeFacts

LEMMA TaskLogsStep ==
    ASSUME IInv, TaskLogs
    PROVE  IInv'
<1>1. /\ state = "TASK_RUN" /\ Position < MaxBytes
      /\ IF manager THEN LogBytes ELSE ConnectionsWrite
      /\ owed' = [owed EXCEPT ![tasks] = @ \cup {Position}]
      /\ UNCHANGED <<manager, tasks, state, cancelled, alive, received, over,
                     first, boots, late, again, lost>>
    BY DEF TaskLogs, bootVars
<1>2. tasks <= N
    BY <1>1 DEF IInv, Ends
<1>3. Position \in 0 .. MaxBytes
  <2>1. Position \in Nat
      BY <1>2, Current DEF Position
  <2> QED
      BY <1>1, <2>1, TypeFacts
<1>4. /\ tasks \in Task /\ owed \in [Task -> SUBSET Nat]
      /\ owed[tasks] \cup {Position} \in SUBSET Nat
  <2>1. tasks \in Task /\ owed \in [Task -> SUBSET Nat] /\ Position \in Nat
      BY <1>2, <1>3, Current, TypeFacts
  <2> QED
      BY <2>1
<1> HIDE DEF Position
<1>5. owed' \in [Task -> SUBSET Nat]
    BY <1>1, <1>4
<1>6. \A t \in Task : \A b \in owed'[t] :
          b \in owed[t] \/ (t = tasks /\ b = Position)
    BY <1>1, <1>4
<1>7. Settled /\ late' \in Nat
  <2>1. late \in Nat
      BY TypeFacts
  <2> QED
      BY <1>1, <2>1 DEF Settled
<1> QED
    BY <1>1, <1>2, <1>3, <1>5, <1>6, <1>7, Logging

LEMMA PluginLogsStep ==
    ASSUME IInv, PluginLogs
    PROVE  IInv'
<1>1. /\ state = "TASK_NEXT" \/ (state = "TASK_IDLE" /\ tasks > first)
      /\ late' = late + 1
      /\ \/ /\ tasks <= N
            /\ IF manager THEN LogBytes ELSE ConnectionsWrite
            /\ UNCHANGED alive
         \/ alive' = FALSE /\ UNCHANGED <<logVars, queue>>
      /\ UNCHANGED <<manager, tasks, state, cancelled, received, over, first,
                     boots, again, owed, lost>>
    BY DEF PluginLogs
<1>2. /\ owed' \in [Task -> SUBSET Nat] /\ \A t \in Task : owed'[t] = owed[t]
      /\ Settled /\ late' \in Nat
  <2>1. late \in Nat /\ owed \in [Task -> SUBSET Nat]
      BY TypeFacts
  <2>2. late' \in Nat
      BY <1>1, <2>1
  <2>3. Settled
      BY <1>1 DEF Settled
  <2> QED
      BY <1>1, <2>1, <2>2, <2>3
<1>3. CASE /\ tasks <= N
           /\ IF manager THEN LogBytes ELSE ConnectionsWrite
           /\ UNCHANGED alive
    BY <1>1, <1>2, <1>3, Logging
<1>4. CASE alive' = FALSE /\ UNCHANGED <<logVars, queue>>
    BY <1>1, <1>2, <1>4, NothingMoves, TypeFacts
<1> QED
    BY <1>1, <1>3, <1>4

LEMMA UploaderStep ==
    ASSUME IInv, UploaderFunc
    PROVE  IInv'
<1>1. /\ source > 0
      /\ IF tasks <= N
         THEN Upload(tasks, <<>>) /\ UNCHANGED source
         ELSE source' = source - 1
              /\ UNCHANGED <<pool, file, offset, saved, mapped, queue>>
      /\ UNCHANGED <<manager, tasks, state, cancelled, alive, id, received,
                     over, first, boots, late, again, owed, lost>>
    BY DEF UploaderFunc, bootVars
<1>2. source \in Nat /\ id \in BOOLEAN /\ cancelled \in BOOLEAN
      /\ owed \in [Task -> SUBSET Nat] /\ late' \in Nat /\ alive' \in BOOLEAN
    BY <1>1, TypeFacts
<1>3. CASE tasks <= N
  <2> DEFINE to == file[tasks] + pool[tasks]
  <2>1. manager /\ Settled
    <3>1. manager
        BY <1>1 DEF IInv, Uploading
    <3> QED
        BY <1>1, <3>1 DEF IInv, Uploading
  <2>2. Upload(tasks, <<>>) /\ source' = source
      BY <1>1, <1>3
  <2>3. <<>> \in Seq(MessageType)
      OBVIOUS
  <2>4. PICK q : /\ Grown(q, to, to) /\ queue' = q \o <<>>
                 /\ mapped' = IF to > 0 /\ offset[tasks] < to
                                THEN mapped \cup {<<tasks, to>>} ELSE mapped
                 /\ Moved(q, to)
                 /\ file' = [file EXCEPT ![tasks] = to]
                 /\ pool' = [pool EXCEPT ![tasks] = 0]
                 /\ to \in Nat
      BY <1>3, <2>1, <2>2, <2>3, Uploaded
  <2>5. queue' = q
    <3>1. q \in Seq(MessageType)
        BY <2>4 DEF Grown
    <3> QED
        BY <2>4, <3>1, ConcatEmptySeq
  <2>6. /\ tasks \in Task /\ file \in [Task -> Nat] /\ pool \in [Task -> Nat]
        /\ offset \in [Task -> Nat]
      BY <1>3, TypeFacts, Current
  <2> HIDE DEF to
  <2>7. /\ file' \in [Task -> Nat] /\ pool' \in [Task -> Nat]
        /\ file'[tasks] = to /\ pool'[tasks] = 0 /\ offset'[tasks] = to
        /\ \A t \in Task : t # tasks => file'[t] = file[t] /\ pool'[t] = pool[t]
      BY <2>4, <2>6 DEF Moved
  <2>8. Uploading'
    <3>1. ~(file'[tasks] + pool'[tasks] > offset'[tasks])
        BY <2>4, <2>7
    <3> QED
        BY <1>1, <2>2, <3>1 DEF IInv, Uploading, Settled
  <2>9. manager => file'[tasks] = to /\ to = file[tasks] + pool[tasks]
      BY <2>7 DEF to
  <2>10. \A t \in Task : \A b \in owed'[t] : b \in owed[t]
      BY <1>1
  <2>11. owed' \in [Task -> SUBSET Nat] /\ source' \in Nat /\ id' \in BOOLEAN
         /\ cancelled' \in BOOLEAN
      BY <1>1, <1>2, <2>2
  <2> QED
      BY <1>1, <1>3, <2>1, <2>4, <2>5, <2>7, <2>8, <2>9, <2>10, <2>11,
         <1>2, GrowStep
<1>4. CASE ~(tasks <= N)
  <2>1. /\ source' = source - 1
        /\ UNCHANGED <<pool, file, offset, saved, mapped, queue>>
      BY <1>1, <1>4
  <2>2. source' \in Nat /\ source' <= source
      BY <1>1, <1>2, <2>1
  <2>3. TypeOK'
      BY <1>1, <2>1, <2>2, TypeFacts DEF TypeOK
  <2>4. Chains' /\ Ends' /\ Maps'
      BY <1>1, <2>1, QueueKept
  <2>5. Offsets'
      BY <1>1, <2>1 DEF IInv, Offsets, Settled
  <2>6. Uploading'
      BY <1>1, <1>2, <1>4, <2>1, <2>2 DEF IInv, Uploading, Settled
  <2>7. Owed'
      BY <1>1, <2>1 DEF IInv, Owed, InCache
  <2> QED
      BY <2>3, <2>4, <2>5, <2>6, <2>7 DEF IInv
<1> QED
    BY <1>3, <1>4

LEMMA CompletedStep ==
    ASSUME IInv, TaskCompleted
    PROVE  IInv'
<1>1. /\ state = "TASK_RUN" /\ state' = "TASK_NEXT"
      /\ IF manager
         THEN StopUploader /\ Upload(tasks, <<End(tasks)>>)
         ELSE /\ queue' = Append(queue, End(tasks))
              /\ UNCHANGED logVars
      /\ cancelled' \in {cancelled, FALSE}
      /\ UNCHANGED <<manager, tasks, alive, received, over, first, boots, late,
                     again, owed, lost>>
    BY DEF TaskCompleted, bootVars
<1>2. tasks <= N /\ tasks \in Task
  <2>1. tasks <= N
      BY <1>1 DEF IInv, Ends
  <2> QED
      BY <2>1, Current
<1>3. /\ source \in Nat /\ id \in BOOLEAN /\ cancelled' \in BOOLEAN
      /\ owed \in [Task -> SUBSET Nat] /\ queue \in Seq(MessageType)
      /\ file \in [Task -> Nat] /\ pool \in [Task -> Nat]
      /\ saved \in [Task -> Nat] /\ offset \in [Task -> Nat]
      /\ late' \in Nat /\ alive' \in BOOLEAN
    BY <1>1, TypeFacts
<1>4. /\ owed' \in [Task -> SUBSET Nat]
      /\ \A t \in Task : \A b \in owed'[t] : b \in owed[t]
    BY <1>1, <1>3
<1>5. state # "TASK_NEXT" /\ Settled /\ Settled'
    BY <1>1 DEF Settled
<1>6. source <= 1 /\ (source = 1) = id
    BY <1>2 DEF IInv, Uploading
<1>7. CASE manager
  <2> DEFINE to == file[tasks] + pool[tasks]
  <2>1. StopUploader /\ Upload(tasks, <<End(tasks)>>)
      BY <1>1, <1>7
  <2>2. source' = 0 /\ id' = FALSE
    <3>1. CASE id
      <4>1. source = 1
          BY <1>6, <3>1
      <4>2. source' = source - 1 /\ id' = FALSE
          BY <2>1, <3>1 DEF StopUploader
      <4> QED
          BY <4>1, <4>2
    <3>2. CASE ~id
      <4>1. source = 0
          BY <1>3, <1>6, <3>2
      <4>2. source' = source /\ id' = id
          BY <2>1, <3>2 DEF StopUploader
      <4> QED
          BY <3>2, <4>1, <4>2, <1>3
    <3> QED
        BY <3>1, <3>2
  <2>3. <<End(tasks)>> \in Seq(MessageType)
    <3>1. End(tasks) \in MessageType
        BY <1>2 DEF End, MessageType
    <3> QED
        BY <3>1
  <2>4. PICK q : /\ Grown(q, to, to) /\ queue' = q \o <<End(tasks)>>
                 /\ mapped' = IF to > 0 /\ offset[tasks] < to
                                THEN mapped \cup {<<tasks, to>>} ELSE mapped
                 /\ Moved(q, to)
                 /\ file' = [file EXCEPT ![tasks] = to]
                 /\ pool' = [pool EXCEPT ![tasks] = 0]
                 /\ to \in Nat
      BY <1>2, <1>5, <1>7, <2>1, <2>3, Uploaded
  <2> HIDE DEF to
  <2>5. /\ file' \in [Task -> Nat] /\ pool' \in [Task -> Nat]
        /\ file'[tasks] = to
        /\ \A t \in Task : t # tasks => file'[t] = file[t] /\ pool'[t] = pool[t]
      BY <1>2, <1>3, <2>4
  <2>6. manager => file'[tasks] = to /\ to = file[tasks] + pool[tasks]
      BY <2>5 DEF to
  <2>7. Uploading'
    <3>1. (source' = 1) = FALSE
        BY <2>2
    <3>2. (source' = 1) = id'
        BY <2>2, <3>1
    <3>3. source' <= 1 /\ ~(source' > 0)
        BY <2>2
    <3> QED
        BY <1>1, <1>5, <1>7, <2>2, <3>2, <3>3 DEF Uploading
  <2>8. source' \in Nat /\ id' \in BOOLEAN
      BY <2>2
  <2> QED
      BY <1>1, <1>2, <1>3, <1>4, <1>5, <2>4, <2>5, <2>6, <2>7, <2>8, GrowStep
<1>8. CASE ~manager
  <2> DEFINE to == offset[tasks]
  <2>1. queue' = Append(queue, End(tasks)) /\ UNCHANGED logVars
      BY <1>1, <1>8
  <2>2. Grown(queue, to, 0) /\ to \in Nat
      BY <1>2, <1>5, NothingGrows, Current
  <2>3. queue' = queue \o <<End(tasks)>>
      BY <1>2, <1>3, <2>1, EndGrows
  <2>5. Moved(queue, to)
      BY <2>1 DEF Moved, logVars
  <2> HIDE DEF to
  <2>6. mapped' = IF 0 > 0 /\ offset[tasks] < to
                    THEN mapped \cup {<<tasks, 0>>} ELSE mapped
      BY <2>1 DEF logVars
  <2>7. Uploading'
    <3>1. source = 0 /\ ~id
        BY <1>8 DEF IInv, Uploading
    <3> QED
        BY <1>1, <1>3, <1>5, <1>6, <1>8, <2>1, <3>1 DEF Uploading, logVars
  <2>8. /\ source' \in Nat /\ id' \in BOOLEAN
        /\ file' \in [Task -> Nat] /\ pool' \in [Task -> Nat]
        /\ \A t \in Task : t # tasks => file'[t] = file[t] /\ pool'[t] = pool[t]
      BY <1>3, <2>1 DEF logVars
  <2> QED
      BY <1>1, <1>2, <1>3, <1>4, <1>5, <1>8, <2>2, <2>3, <2>5, <2>6, <2>7,
         <2>8, GrowStep
<1> QED
    BY <1>7, <1>8

-----------------------------------------------------------------------------
(* Steps of the controller, and a reboot.                                  *)
LEMMA Headed ==
    ASSUME IInv, queue # <<>>
    PROVE  /\ Head(queue) = queue[1] /\ queue[1] \in MessageType
           /\ 1 \in 1 .. Len(queue) /\ Len(queue) \in Nat \ {0}
           /\ queue[1].task \in Task /\ queue[1].end \in BOOLEAN
           /\ queue[1].from \in Nat /\ queue[1].to \in Nat
           /\ queue[1].map \in Nat
<1>1. queue \in Seq(MessageType) /\ Len(queue) \in Nat
    BY TypeFacts, LenProperties
<1>2. Len(queue) # 0
    BY <1>1, EmptySeq
<1>3. Len(queue) \in Nat \ {0} /\ 1 \in 1 .. Len(queue)
    BY <1>1, <1>2
<1>4. Head(queue) = queue[1]
    BY <1>1, HeadTailProperties
<1> QED
    BY <1>1, <1>3, <1>4, Elements1

(* The end of the task is at the head: nothing of it is behind, and all it *)
(* is owed has been received.                                              *)
LEMMA AtEnd ==
    ASSUME IInv, queue # <<>>, queue[1].end
    PROVE  /\ tasks <= N /\ state = "TASK_NEXT"
           /\ queue[1] = End(tasks)
           /\ \A i \in 1 .. Len(queue) : queue[i].end => i = 1
           /\ owed[tasks] \subseteq received[tasks]
<1>1. /\ 1 \in 1 .. Len(queue) /\ Len(queue) \in Nat \ {0}
    BY Headed
<1>2. /\ state = "TASK_NEXT" /\ queue[1] = End(tasks)
      /\ \A i \in 1 .. Len(queue) : queue[i].end => i = 1
    BY <1>1 DEF IInv, Ends
<1>3. tasks <= N
    BY <1>2 DEF IInv, Ends
<1>4. \A b : ~Queued(queue, tasks, b)
  <2> SUFFICES ASSUME NEW b, NEW i \in 1 .. Len(queue), Holds(queue, tasks, i),
                      \A j \in 1 .. Len(queue) : j < i => ~queue[j].end
               PROVE  FALSE
      BY DEF Queued
  <2>1. i # 1
      BY DEF Holds
  <2>2. 1 < i
      BY <1>1, <2>1
  <2> QED
      BY <1>1, <2>2
<1>5. \A b : ~InCache(tasks, b)
    BY <1>2 DEF InCache
<1>6. tasks \in Task
    BY <1>3, Current
<1> QED
    BY <1>2, <1>3, <1>4, <1>5, <1>6 DEF IInv, Owed

(* What the controller has of a task cannot grow beyond the type.          *)
LEMMA ReceiveFacts ==
    ASSUME IInv, queue # <<>>, Receive(queue[1])
    PROVE  /\ received' \in [Task -> SUBSET Nat] /\ over' \in 0 .. N
           /\ \A t \in Task : /\ received[t] \subseteq received'[t]
                              /\ t # queue[1].task => received'[t] = received[t]
           /\ received'[queue[1].task] = received[queue[1].task]
                 \cup Bytes(queue[1].from, queue[1].to)
           /\ over' = IF queue[1].end THEN queue[1].task ELSE over
<1>1. /\ queue[1].task \in Task /\ received \in [Task -> SUBSET Nat]
      /\ over \in 0 .. N /\ MaxBytes \in Nat /\ N \in Nat
    BY Headed, TypeFacts
<1>2. Bytes(queue[1].from, queue[1].to) \in SUBSET Nat
    BY <1>1 DEF Bytes
<1>3. /\ received' = [received EXCEPT ![queue[1].task] =
                         @ \cup Bytes(queue[1].from, queue[1].to)]
      /\ over' = IF queue[1].end THEN queue[1].task ELSE over
    BY DEF Receive
<1>4. received[queue[1].task] \cup Bytes(queue[1].from, queue[1].to)
          \in SUBSET Nat
    BY <1>1, <1>2
<1>5. received' \in [Task -> SUBSET Nat]
    BY <1>1, <1>3, <1>4
<1>6. over' \in 0 .. N
    BY <1>1, <1>3 DEF Task
<1> QED
    BY <1>1, <1>3, <1>5, <1>6

LEMMA ReceiveChains ==
    ASSUME IInv, queue # <<>>, NEW has, has \in [Task -> SUBSET Nat],
           NEW took, took \in [Task -> SUBSET Nat],
           \A t \in Task : received[t] \subseteq has[t] /\ lost[t] \subseteq took[t],
           \A t \in Task : t # queue[1].task \/ queue[1].end
                               => has[t] = received[t],
           has[queue[1].task] \subseteq received[queue[1].task]
               \cup Bytes(queue[1].from, queue[1].to)
    PROVE  \A t \in Task : Chain(queue, t, saved[t], has[t], took[t],
                                IF t \in again THEN {} ELSE has[t])
<1> SUFFICES ASSUME NEW t \in Task
             PROVE  Chain(queue, t, saved[t], has[t], took[t],
                          IF t \in again THEN {} ELSE has[t])
    OBVIOUS
<1>0. PICK seen : seen = IF t \in again THEN {} ELSE has[t]
    OBVIOUS
<1>1. /\ Chain(queue, t, saved[t], received[t], lost[t], Seen(t))
      /\ queue \in Seq(MessageType) /\ saved[t] \in Nat
    BY TypeFacts DEF IInv, Chains
<1>2. Holds(queue, t, 1) => t = queue[1].task /\ ~queue[1].end
    BY DEF Holds
<1>3. ~Holds(queue, t, 1) => t # queue[1].task \/ queue[1].end
    BY Headed DEF Holds
<1>4. Holds(queue, t, 1) =>
          seen \subseteq Seen(t) \cup Bytes(queue[1].from, queue[1].to)
    BY <1>0, <1>2 DEF Seen
<1>5. ~Holds(queue, t, 1) => seen \subseteq Seen(t)
    BY <1>0, <1>3 DEF Seen
<1>6. Chain(queue, t, saved[t], has[t], took[t], seen)
    BY <1>1, <1>4, <1>5, ChainReceived
<1> QED
    BY <1>0, <1>6

LEMMA ReplyLostStep ==
    ASSUME IInv, ReplyLost
    PROVE  IInv'
<1>1. /\ queue # <<>> /\ Receive(queue[1])
      /\ UNCHANGED <<manager, tasks, state, cancelled, alive, logVars, queue,
                     first, boots, late, again, owed, lost>>
    BY Headed DEF ReplyLost, bootVars
<1>2. /\ received' \in [Task -> SUBSET Nat] /\ over' \in 0 .. N
      /\ \A t \in Task : /\ received[t] \subseteq received'[t]
                         /\ t # queue[1].task => received'[t] = received[t]
      /\ received'[queue[1].task] = received[queue[1].task]
            \cup Bytes(queue[1].from, queue[1].to)
      /\ over' = IF queue[1].end THEN queue[1].task ELSE over
    BY <1>1, ReceiveFacts
<1>3. TypeOK'
    BY <1>1, <1>2, TypeFacts DEF TypeOK, logVars
<1>4. queue[1].end => received'[queue[1].task] = received[queue[1].task]
  <2> SUFFICES ASSUME queue[1].end
               PROVE  Bytes(queue[1].from, queue[1].to) = {}
      BY <1>2
  <2>1. queue[1] = End(tasks)
      BY <1>1, AtEnd
  <2>2. queue[1].from = 0 /\ queue[1].to = 0
      BY <2>1 DEF End
  <2>3. \A b \in 0 .. MaxBytes : ~(0 <= b /\ b < 0)
      BY TypeFacts
  <2> QED
      BY <2>2, <2>3 DEF Bytes
<1>5. Chains'
  <2>1. \A t \in Task : Chain(queue, t, saved[t], received'[t], lost[t],
                              IF t \in again THEN {} ELSE received'[t])
      BY <1>1, <1>2, <1>4, ReceiveChains, TypeFacts
  <2> QED
      BY <1>1, <2>1 DEF Chains, Seen, logVars
<1>6. Ends'
  <2>1. over' = tasks - 1 \/ (over' = tasks /\ queue # <<>> /\ queue[1].end)
    <3>1. CASE queue[1].end
      <4>1. queue[1].task = tasks
          BY <1>1, <3>1, AtEnd DEF End
      <4> QED
          BY <1>1, <1>2, <3>1, <4>1
    <3>2. CASE ~queue[1].end
        BY <1>2, <3>2 DEF IInv, Ends
    <3> QED
        BY <3>1, <3>2
  <2> QED
      BY <1>1, <2>1 DEF IInv, Ends
<1>7. Offsets' /\ Uploading'
    BY <1>1 DEF IInv, Offsets, Uploading, Settled, logVars
<1>8. Maps'
  <2>1. Maps /\ queue' = queue /\ mapped' = mapped
      BY <1>1 DEF IInv, logVars
  <2> QED
      BY <2>1 DEF Maps
<1>9. Owed'
    BY <1>1, <1>2 DEF IInv, Owed, InCache, logVars
<1> QED
    BY <1>3, <1>5, <1>6, <1>7, <1>8, <1>9 DEF IInv

LEMMA Tailed ==
    ASSUME IInv, queue # <<>>
    PROVE  /\ Tail(queue) \in Seq(MessageType)
           /\ Len(Tail(queue)) = Len(queue) - 1
           /\ \A i \in 1 .. Len(queue) - 1 : Tail(queue)[i] = queue[i + 1]
           /\ \A i \in 1 .. Len(queue) - 1 : i + 1 \in 1 .. Len(queue)
           /\ \A i \in 1 .. Len(queue) : i = 1 \/
                 \E k \in 1 .. Len(queue) - 1 : i = k + 1
<1>1. /\ queue \in Seq(MessageType) /\ Len(queue) \in Nat \ {0}
    BY TypeFacts, Headed
<1>2. /\ Tail(queue) \in Seq(MessageType)
      /\ Len(Tail(queue)) = Len(queue) - 1
      /\ \A i \in 1 .. Len(queue) - 1 : Tail(queue)[i] = queue[i + 1]
    BY <1>1, HeadTailProperties
<1>3. \A i \in 1 .. Len(queue) - 1 : i + 1 \in 1 .. Len(queue)
    BY <1>1
<1>4. ASSUME NEW i \in 1 .. Len(queue), i # 1
      PROVE  \E k \in 1 .. Len(queue) - 1 : i = k + 1
  <2>1. i - 1 \in 1 .. Len(queue) - 1 /\ i = (i - 1) + 1
      BY <1>1, <1>4
  <2> QED
      BY <2>1
<1> QED
    BY <1>2, <1>3, <1>4

(* The last chunk of a file has to = map, and it alone.                    *)
LEMMA AnsweredMaps ==
    ASSUME IInv, queue # <<>>, queue' = Tail(queue),
           mapped' = Unmapped(queue[1])
    PROVE  Maps'
<1> DEFINE m == queue[1]
           r == Tail(queue)
<1>1. /\ m.task \in Task /\ m.end \in BOOLEAN /\ m.to \in Nat /\ m.map \in Nat
      /\ 1 \in 1 .. Len(queue) /\ Len(queue) \in Nat /\ m.from \in Nat
    BY Headed
<1>2. /\ Len(r) = Len(queue) - 1
      /\ \A i \in 1 .. Len(queue) - 1 : r[i] = queue[i + 1]
      /\ \A i \in 1 .. Len(queue) - 1 : i + 1 \in 1 .. Len(queue)
      /\ \A i \in 1 .. Len(queue) : i = 1 \/
            \E k \in 1 .. Len(queue) - 1 : i = k + 1
    BY Tailed
<1>3. \A t \in Task, n \in Nat :
          Using(queue, t, n) <=> Using(r, t, n) \/ (t = m.task /\ n = m.map)
  <2> SUFFICES ASSUME NEW t \in Task, NEW n \in Nat
               PROVE  Using(queue, t, n) <=>
                          Using(r, t, n) \/ (t = m.task /\ n = m.map)
      OBVIOUS
  <2>1. ASSUME Using(queue, t, n)
        PROVE  Using(r, t, n) \/ (t = m.task /\ n = m.map)
    <3>1. PICK i \in 1 .. Len(queue) : queue[i].task = t /\ queue[i].map = n
        BY <2>1 DEF Using
    <3>2. CASE i = 1
        BY <3>1, <3>2
    <3>3. CASE \E k \in 1 .. Len(queue) - 1 : i = k + 1
      <4>1. PICK k \in 1 .. Len(queue) - 1 : i = k + 1
          BY <3>3
      <4>2. r[k] = queue[i] /\ k \in 1 .. Len(r)
          BY <1>2, <4>1
      <4> QED
          BY <3>1, <4>2 DEF Using
    <3> QED
        BY <1>2, <3>2, <3>3
  <2>2. ASSUME Using(r, t, n)
        PROVE  Using(queue, t, n)
    <3>1. PICK i \in 1 .. Len(r) : r[i].task = t /\ r[i].map = n
        BY <2>2 DEF Using
    <3>2. r[i] = queue[i + 1] /\ i + 1 \in 1 .. Len(queue)
        BY <1>2, <3>1
    <3> QED
        BY <3>1, <3>2 DEF Using
  <2>3. t = m.task /\ n = m.map => Using(queue, t, n)
      BY <1>1 DEF Using
  <2> QED
      BY <2>1, <2>2, <2>3
<1>4. m.map > 0 => ~m.end /\ Holds(queue, m.task, 1)
  <2>1. m.end => m.map = 0
      BY <1>1, MessageMap
  <2>2. m.map > 0 => ~m.end
      BY <1>1, <2>1
  <2> QED
      BY <1>1, <2>2 DEF Holds
<1>5. Chain(queue, m.task, saved[m.task], received[m.task], lost[m.task],
            Seen(m.task))
    BY <1>1 DEF IInv, Chains
<1>6. ASSUME m.map > 0, m.to = m.map
      PROVE  ~Using(r, m.task, m.map)
  <2> SUFFICES ASSUME NEW i \in 1 .. Len(r), r[i].task = m.task,
                      r[i].map = m.map
               PROVE  FALSE
      BY DEF Using
  <2>1. /\ i + 1 \in 1 .. Len(queue) /\ queue[i + 1].task = m.task
        /\ queue[i + 1].map = m.map /\ 1 < i + 1
      BY <1>2
  <2> DEFINE j == i + 1
  <2>2. ~queue[j].end
    <3>1. queue[j].end => queue[j].map = 0
        BY <2>1, MessageMap
    <3> QED
        BY <1>1, <1>6, <2>1, <3>1
  <2>3. Holds(queue, m.task, j)
      BY <2>1, <2>2 DEF Holds
  <2>4. j \in 1 .. Len(queue) /\ 1 < j /\ queue[j].map = m.map
      BY <2>1
  <2>5. /\ queue[j].from \in Nat /\ queue[j].to \in Nat
      BY <2>4, TypeFacts, Elements1
  <2> HIDE DEF j
  <2>6. m.to <= queue[j].from
      BY <1>1, <1>4, <1>5, <1>6, <2>3, <2>4 DEF Chain, Sorted
  <2>7. queue[j].from < queue[j].to
      BY <1>5, <2>3, <2>4 DEF Chain, Ranges
  <2>8. queue[j].to <= queue[j].map
      BY <1>5, <1>6, <2>3, <2>4 DEF Chain, MapRuns
  <2> QED
      BY <1>1, <1>6, <2>4, <2>5, <2>6, <2>7, <2>8
<1>7. ASSUME m.map > 0, m.to # m.map
      PROVE  Using(r, m.task, m.map)
  <2>1. m.to <= m.map
      BY <1>1, <1>4, <1>5, <1>7 DEF Chain, MapRuns
  <2>2. m.to < m.map
      BY <1>1, <1>7, <2>1
  <2>3. PICK j \in 1 .. Len(queue) :
            Holds(queue, m.task, j) /\ 1 < j /\ queue[j].map = m.map
      BY <1>1, <1>4, <1>5, <1>7, <2>2 DEF Chain, MapRuns
  <2>4. PICK k \in 1 .. Len(queue) - 1 : j = k + 1
      BY <1>2, <2>3
  <2>5. k \in 1 .. Len(r) /\ r[k] = queue[j]
      BY <1>2, <2>4
  <2> QED
      BY <2>3, <2>5 DEF Using, Holds
<1>8. \A t \in Task, n \in Nat :
          <<t, n>> \in mapped <=> n > 0 /\ Using(queue, t, n)
    BY DEF IInv, Maps
<1>9. mapped' = IF m.to = m.map THEN mapped \ {<<m.task, m.map>>} ELSE mapped
    BY DEF Unmapped
<1>10. Len(queue) # 0
    BY <1>1
<1> HIDE DEF m, r
<1>11. ASSUME NEW t \in Task, NEW n \in Nat
       PROVE  <<t, n>> \in mapped' <=> n > 0 /\ Using(r, t, n)
  <2>1. CASE m.to = m.map
    <3>1. <<t, n>> \in mapped' <=>
              <<t, n>> \in mapped /\ ~(t = m.task /\ n = m.map)
        BY <1>9, <2>1
    <3> QED
        BY <1>3, <1>6, <1>8, <2>1, <3>1
  <2>2. CASE m.to # m.map
      BY <1>3, <1>7, <1>8, <1>9, <2>2
  <2> QED
      BY <2>1, <2>2
<1>12. queue' = r
    BY DEF r
<1> QED
    BY <1>11, <1>12 DEF Maps

LEMMA AnsweredChains ==
    ASSUME IInv, queue # <<>>, queue' = Tail(queue), saved' = saved,
           again' = again,
           received' \in [Task -> SUBSET Nat], lost' \in [Task -> SUBSET Nat],
           \A t \in Task : /\ received[t] \subseteq received'[t]
                           /\ lost[t] \subseteq lost'[t],
           \A t \in Task : t # queue[1].task \/ queue[1].end
                               => received'[t] = received[t],
           received'[queue[1].task] \subseteq received[queue[1].task]
               \cup Bytes(queue[1].from, queue[1].to),
           ~queue[1].end => Bytes(queue[1].from, queue[1].to) \subseteq
               received'[queue[1].task] \cup lost'[queue[1].task]
    PROVE  Chains'
<1> SUFFICES ASSUME NEW t \in Task
             PROVE  Chain(Tail(queue), t, saved[t], received'[t], lost'[t],
                          IF t \in again THEN {} ELSE received'[t])
    BY DEF Chains, Seen
<1>1. Chain(queue, t, saved[t], received'[t], lost'[t],
            IF t \in again THEN {} ELSE received'[t])
    BY ReceiveChains
<1>2. Holds(queue, t, 1) => Bytes(queue[1].from, queue[1].to) \subseteq
                                received'[t] \cup lost'[t]
    BY DEF Holds
<1>3. /\ queue \in Seq(MessageType) /\ saved[t] \in Nat
      /\ received'[t] \in SUBSET Nat
    BY TypeFacts
<1> QED
    BY <1>1, <1>2, <1>3, ChainTaken

(* A chunk is answered: the controller has it, or it is refused.           *)
LEMMA ChunkAnswered ==
    ASSUME IInv, queue # <<>>, ~queue[1].end,
           queue' = Tail(queue), mapped' = Unmapped(queue[1]),
           received' \in [Task -> SUBSET Nat], lost' \in [Task -> SUBSET Nat],
           owed' \in [Task -> SUBSET Nat],
           \A t \in Task : /\ received[t] \subseteq received'[t]
                           /\ lost[t] \subseteq lost'[t]
                           /\ owed'[t] \subseteq owed[t]
                           /\ t # queue[1].task => received'[t] = received[t],
           received'[queue[1].task] \subseteq received[queue[1].task]
               \cup Bytes(queue[1].from, queue[1].to),
           Bytes(queue[1].from, queue[1].to) \subseteq
               received'[queue[1].task] \cup lost'[queue[1].task],
           Bytes(queue[1].from, queue[1].to) \cap owed'[queue[1].task]
               \subseteq received'[queue[1].task],
           UNCHANGED <<manager, tasks, state, cancelled, alive, source, id,
                       pool, file, offset, saved, over, first, boots, late,
                       again>>
    PROVE  IInv'
<1>1. Chains'
    BY AnsweredChains
<1>2. Maps'
    BY AnsweredMaps
<1>3. /\ Tail(queue) \in Seq(MessageType)
      /\ Len(queue') = Len(queue) - 1
      /\ \A i \in 1 .. Len(queue) - 1 : queue'[i] = queue[i + 1]
      /\ \A i \in 1 .. Len(queue) - 1 : i + 1 \in 1 .. Len(queue)
      /\ \A i \in 1 .. Len(queue) : i = 1 \/
            \E k \in 1 .. Len(queue) - 1 : i = k + 1
    BY Tailed
<1>4. TypeOK'
  <2>1. mapped' \subseteq Task \X Nat
      BY TypeFacts DEF Unmapped
  <2> QED
      BY <1>3, <2>1, TypeFacts DEF TypeOK
<1>5. PICK n : n = Len(queue)
    OBVIOUS
<1>6. n \in Nat \ {0} /\ 1 \in 1 .. n
    BY <1>5, Headed
<1>7. Ends'
  <2>1. /\ \A i \in 1 .. n :
              /\ queue[i].task <= tasks
              /\ queue[i].end => queue[i] = End(tasks) /\ state = "TASK_NEXT"
              /\ \A j \in 1 .. n : queue[i].end /\ queue[j].end => i = j
        /\ state = "TASK_NEXT" => \E i \in 1 .. n : queue[i].end
        /\ state # "TASK_IDLE" => tasks <= N
        /\ over = tasks - 1
      BY <1>5 DEF IInv, Ends
  <2>2. ASSUME NEW i \in 1 .. n - 1
        PROVE  /\ queue'[i].task <= tasks
               /\ queue'[i].end => queue'[i] = End(tasks) /\ state = "TASK_NEXT"
               /\ \A j \in 1 .. n - 1 : queue'[i].end /\ queue'[j].end => i = j
    <3>1. queue'[i] = queue[i + 1] /\ i + 1 \in 1 .. n
        BY <1>3, <1>5
    <3>2. \A j \in 1 .. n - 1 : queue'[i].end /\ queue'[j].end => i = j
      <4> SUFFICES ASSUME NEW j \in 1 .. n - 1, queue'[i].end, queue'[j].end
                   PROVE  i = j
          OBVIOUS
      <4>1. queue'[j] = queue[j + 1] /\ j + 1 \in 1 .. n
          BY <1>3, <1>5
      <4>2. i + 1 = j + 1
          BY <2>1, <3>1, <4>1
      <4> QED
          BY <4>2
    <3> QED
        BY <2>1, <3>1, <3>2
  <2>3. ASSUME state = "TASK_NEXT"
        PROVE  \E i \in 1 .. n - 1 : queue'[i].end
    <3>1. PICK i \in 1 .. n : queue[i].end
        BY <2>1, <2>3
    <3>2. i # 1
        BY <3>1
    <3>3. PICK k \in 1 .. n - 1 : i = k + 1
        BY <1>3, <1>5, <3>2
    <3>4. queue'[k] = queue[i]
        BY <1>3, <1>5, <3>3
    <3> QED
        BY <3>1, <3>4
  <2>4. Len(queue') = n - 1
      BY <1>3, <1>5
  <2> QED
      BY <2>1, <2>2, <2>3, <2>4 DEF Ends
<1>8. Offsets' /\ Uploading'
  <2>1. Settled /\ Settled'
    <3>1. Settled
        BY DEF IInv, Offsets
    <3> QED
        BY <3>1 DEF Settled
  <2>2. Uploading'
      BY <2>1 DEF IInv, Uploading
  <2>3. (\A i \in 1 .. n : ~Holds(queue, tasks, i)) =>
            \A i \in 1 .. n - 1 : ~Holds(queue', tasks, i)
    <3> SUFFICES ASSUME NEW i \in 1 .. n - 1, Holds(queue', tasks, i)
                 PROVE  Holds(queue, tasks, i + 1) /\ i + 1 \in 1 .. n
        OBVIOUS
    <3>1. queue'[i] = queue[i + 1] /\ i + 1 \in 1 .. Len(queue)
        BY <1>3, <1>5
    <3> QED
        BY <1>5, <3>1 DEF Holds
  <2>4. Len(queue') = n - 1
      BY <1>3, <1>5
  <2>5. tasks <= N =>
            \/ offset[tasks] = saved[tasks]
            \/ /\ offset[tasks] = 0 /\ tasks \in again
               /\ \A i \in 1 .. Len(queue') : ~Holds(queue', tasks, i)
    <3>1. tasks <= N =>
              \/ offset[tasks] = saved[tasks]
              \/ /\ offset[tasks] = 0 /\ tasks \in again
                 /\ \A i \in 1 .. n : ~Holds(queue, tasks, i)
        BY <1>5, <2>1 DEF IInv, Offsets
    <3> QED
        BY <2>3, <2>4, <3>1
  <2>6. /\ \A t \in Task : t > tasks =>
              pool[t] = 0 /\ file[t] = 0 /\ offset[t] = 0 /\ saved[t] = 0
        /\ manager => \A t \in Task : saved[t] <= file[t]
        /\ first <= tasks
      BY DEF IInv, Offsets
  <2>7. Offsets'
      BY <2>1, <2>5, <2>6 DEF Offsets
  <2> QED
      BY <2>2, <2>7
<1>9. Owed'
  <2> SUFFICES ASSUME NEW t \in Task, NEW b \in owed'[t]
               PROVE  /\ b \in 0 .. MaxBytes
                      /\ \/ b \in received'[t]
                         \/ t = tasks /\ (Queued(queue', t, b) \/ InCache(t, b)')
      BY DEF Owed
  <2>1. /\ b \in 0 .. MaxBytes
        /\ \/ b \in received[t]
           \/ t = tasks /\ (Queued(queue, t, b) \/ InCache(t, b))
      BY DEF IInv, Owed
  <2>2. received[t] \subseteq received'[t]
      OBVIOUS
  <2>3. InCache(t, b) => InCache(t, b)'
      BY DEF InCache
  <2>4. ASSUME Queued(queue, t, b)
        PROVE  b \in received'[t] \/ Queued(queue', t, b)
    <3>1. PICK i \in 1 .. n :
              /\ Holds(queue, t, i) /\ queue[i].from <= b /\ b < queue[i].to
              /\ \A j \in 1 .. n : j < i => ~queue[j].end
        BY <1>5, <2>4 DEF Queued
    <3>2. CASE i = 1
      <4>1. t = queue[1].task /\ b \in Bytes(queue[1].from, queue[1].to)
          BY <2>1, <3>1, <3>2 DEF Bytes, Holds
      <4> QED
          BY <4>1
    <3>3. CASE i # 1
      <4>1. PICK k \in 1 .. n - 1 : i = k + 1
          BY <1>3, <1>5, <3>3
      <4>2. queue'[k] = queue[i] /\ k \in 1 .. Len(queue')
          BY <1>3, <1>5, <4>1
      <4>3. Holds(queue', t, k)
          BY <3>1, <4>2 DEF Holds
      <4>4. ASSUME NEW j \in 1 .. Len(queue'), j < k
            PROVE  ~queue'[j].end
        <5>1. queue'[j] = queue[j + 1] /\ j + 1 \in 1 .. n /\ j + 1 < i
            BY <1>3, <1>5, <4>1, <4>4
        <5> QED
            BY <3>1, <5>1
      <4> QED
          BY <3>1, <4>2, <4>3, <4>4 DEF Queued
    <3> QED
        BY <3>2, <3>3
  <2> QED
      BY <2>1, <2>2, <2>3, <2>4
<1> QED
    BY <1>1, <1>2, <1>4, <1>7, <1>8, <1>9 DEF IInv

(* The status of the task is answered: the next task is the current one.   *)
LEMMA EndAnswered ==
    ASSUME IInv, queue # <<>>, queue[1].end,
           queue' = Tail(queue), mapped' = Unmapped(queue[1]),
           Receive(queue[1]), tasks' = tasks + 1, state' = "TASK_IDLE",
           UNCHANGED <<lost, owed, manager, cancelled, alive, source, id, pool,
                       file, offset, saved, first, boots, late, again>>
    PROVE  IInv'
<1>1. /\ tasks <= N /\ tasks \in Task /\ tasks \in Nat /\ state = "TASK_NEXT"
      /\ queue[1] = End(tasks)
      /\ \A i \in 1 .. Len(queue) : queue[i].end => i = 1
      /\ owed[tasks] \subseteq received[tasks]
  <2>1. tasks \in Nat
      BY TypeFacts
  <2> QED
      BY <2>1, AtEnd, Current
<1>2. queue[1].from = 0 /\ queue[1].to = 0 /\ queue[1].task = tasks
    BY <1>1 DEF End
<1>3. Bytes(0, 0) = {}
  <2>1. \A b \in 0 .. MaxBytes : ~(0 <= b /\ b < 0)
      BY TypeFacts
  <2> QED
      BY <2>1 DEF Bytes
<1>4. /\ received' \in [Task -> SUBSET Nat] /\ over' = tasks
      /\ over' \in 0 .. N
      /\ \A t \in Task : received'[t] = received[t]
    BY <1>2, <1>3, ReceiveFacts
<1>5. Chains'
    BY <1>1, <1>2, <1>4, AnsweredChains, TypeFacts
<1>6. Maps'
    BY AnsweredMaps
<1>7. /\ Tail(queue) \in Seq(MessageType)
      /\ Len(queue') = Len(queue) - 1
      /\ \A i \in 1 .. Len(queue) - 1 : queue'[i] = queue[i + 1]
      /\ \A i \in 1 .. Len(queue) - 1 : i + 1 \in 1 .. Len(queue)
    BY Tailed
<1>8. TypeOK'
  <2>1. mapped' \subseteq Task \X Nat
      BY TypeFacts DEF Unmapped
  <2>2. tasks + 1 \in 1 .. N + 1
      BY <1>1, TypeFacts
  <2> QED
      BY <1>4, <1>7, <2>1, <2>2, TypeFacts DEF TypeOK
<1>9. Ends'
  <2>1. ASSUME NEW i \in 1 .. Len(queue) - 1
        PROVE  queue'[i].task <= tasks + 1 /\ ~queue'[i].end
    <3>1. /\ queue'[i] = queue[i + 1] /\ i + 1 \in 1 .. Len(queue)
          /\ i + 1 # 1
        BY <1>7
    <3>2. queue[i + 1].task <= tasks /\ queue[i + 1].task \in Task
        BY <3>1, TypeFacts, Elements1 DEF IInv, Ends
    <3>3. queue[i + 1].task <= tasks + 1
        BY <1>1, <3>2 DEF Task
    <3> QED
        BY <1>1, <3>1, <3>3
  <2>2. over' = tasks' - 1
      BY <1>1, <1>4
  <2> QED
      BY <1>7, <2>1, <2>2 DEF Ends
<1>10. \A t \in Task : t > tasks =>
           pool[t] = 0 /\ file[t] = 0 /\ offset[t] = 0 /\ saved[t] = 0
    BY DEF IInv, Offsets
<1>11. tasks + 1 <= N => tasks + 1 \in Task /\ tasks + 1 > tasks
    BY <1>1, TypeFacts DEF Task
<1>12. Offsets'
  <2>1. \A t \in Task : t > tasks + 1 => t > tasks
      BY <1>1 DEF Task
  <2>2. manager => \A t \in Task : saved[t] <= file[t]
      BY DEF IInv, Offsets
  <2>3. first <= tasks + 1 /\ Settled'
    <3>1. first <= tasks /\ first \in Nat
        BY TypeFacts DEF IInv, Offsets
    <3> QED
        BY <1>1, <3>1 DEF Settled
  <2>4. tasks + 1 <= N => offset[tasks + 1] = saved[tasks + 1]
      BY <1>10, <1>11
  <2>5. \A t \in Task : t > tasks + 1 =>
            pool[t] = 0 /\ file[t] = 0 /\ offset[t] = 0 /\ saved[t] = 0
      BY <1>10, <2>1
  <2> QED
      BY <2>2, <2>3, <2>4, <2>5 DEF Offsets
<1>13. Uploading'
  <2>1. Settled'
    <3>1. first <= tasks /\ first \in Nat
        BY TypeFacts DEF IInv, Offsets
    <3> QED
        BY <1>1, <3>1 DEF Settled
  <2>2. tasks + 1 <= N => ~(file[tasks + 1] + pool[tasks + 1] > offset[tasks + 1])
      BY <1>10, <1>11
  <2>3. source <= 1 /\ (source = 1) = id /\ (~manager => source = 0 /\ ~id)
      BY <1>1 DEF IInv, Uploading
  <2> QED
      BY <2>1, <2>2, <2>3 DEF Uploading
<1>14. Owed'
    BY <1>1, <1>4 DEF IInv, Owed
<1> QED
    BY <1>5, <1>6, <1>8, <1>9, <1>12, <1>13, <1>14 DEF IInv

LEMMA AnsweredStep ==
    ASSUME IInv, NEW refused \in BOOLEAN, Answered(refused)
    PROVE  IInv'
<1> DEFINE m == queue[1]
<1>1. /\ queue # <<>> /\ Head(queue) = m
      /\ m.task \in Task /\ m.end \in BOOLEAN
    BY Headed DEF Answered
<1>2. /\ queue' = Tail(queue) /\ mapped' = Unmapped(m)
      /\ \/ /\ refused /\ ~m.end
            /\ lost' = [lost EXCEPT ![m.task] = @ \cup Bytes(m.from, m.to)]
            /\ owed' = [owed EXCEPT ![m.task] = @ \ Bytes(m.from, m.to)]
            /\ UNCHANGED <<received, over>>
         \/ ~refused /\ Receive(m) /\ UNCHANGED <<lost, owed>>
      /\ IF m.end THEN tasks' = tasks + 1 /\ state' = "TASK_IDLE"
                  ELSE UNCHANGED <<tasks, state>>
      /\ UNCHANGED <<manager, cancelled, alive, source, id, pool, file, offset,
                     saved, first, boots, late, again>>
    BY <1>1 DEF Answered, bootVars
<1>3. /\ received \in [Task -> SUBSET Nat] /\ lost \in [Task -> SUBSET Nat]
      /\ owed \in [Task -> SUBSET Nat]
      /\ Bytes(m.from, m.to) \in SUBSET Nat
  <2>1. Bytes(m.from, m.to) \in SUBSET Nat
      BY TypeFacts DEF Bytes
  <2> QED
      BY <2>1, TypeFacts
<1>4. CASE m.end
    BY <1>1, <1>2, <1>4, EndAnswered
<1>5. CASE ~m.end /\ refused
  <2>1. /\ lost' = [lost EXCEPT ![m.task] = @ \cup Bytes(m.from, m.to)]
        /\ owed' = [owed EXCEPT ![m.task] = @ \ Bytes(m.from, m.to)]
        /\ received' = received /\ over' = over
      BY <1>2, <1>5
  <2>2. /\ lost[m.task] \cup Bytes(m.from, m.to) \in SUBSET Nat
        /\ owed[m.task] \ Bytes(m.from, m.to) \in SUBSET Nat
      BY <1>1, <1>3
  <2>3. /\ lost' \in [Task -> SUBSET Nat] /\ owed' \in [Task -> SUBSET Nat]
        /\ lost'[m.task] = lost[m.task] \cup Bytes(m.from, m.to)
        /\ owed'[m.task] = owed[m.task] \ Bytes(m.from, m.to)
        /\ \A t \in Task : t # m.task => lost'[t] = lost[t] /\ owed'[t] = owed[t]
      BY <1>1, <1>3, <2>1, <2>2
  <2>4. \A t \in Task : /\ received[t] \subseteq received'[t]
                        /\ lost[t] \subseteq lost'[t]
                        /\ owed'[t] \subseteq owed[t]
                        /\ t # m.task => received'[t] = received[t]
      BY <2>1, <2>3
  <2>5. /\ received'[m.task] \subseteq received[m.task] \cup Bytes(m.from, m.to)
        /\ Bytes(m.from, m.to) \subseteq received'[m.task] \cup lost'[m.task]
        /\ Bytes(m.from, m.to) \cap owed'[m.task] \subseteq received'[m.task]
      BY <2>1, <2>3
  <2> QED
      BY <1>1, <1>2, <1>3, <1>5, <2>1, <2>3, <2>4, <2>5, ChunkAnswered
<1>6. CASE ~m.end /\ ~refused
  <2>1. Receive(m) /\ UNCHANGED <<lost, owed>>
      BY <1>2, <1>6
  <2>2. /\ received' \in [Task -> SUBSET Nat]
        /\ \A t \in Task : /\ received[t] \subseteq received'[t]
                           /\ t # m.task => received'[t] = received[t]
        /\ received'[m.task] = received[m.task] \cup Bytes(m.from, m.to)
        /\ over' = over
      BY <1>1, <1>6, <2>1, ReceiveFacts
  <2>3. /\ received'[m.task] \subseteq received[m.task] \cup Bytes(m.from, m.to)
        /\ Bytes(m.from, m.to) \subseteq received'[m.task] \cup lost'[m.task]
        /\ Bytes(m.from, m.to) \cap owed'[m.task] \subseteq received'[m.task]
      BY <2>2
  <2>4. \A t \in Task : lost[t] \subseteq lost'[t] /\ owed'[t] \subseteq owed[t]
      BY <2>1
  <2> QED
      BY <1>1, <1>2, <1>3, <1>6, <2>1, <2>2, <2>3, <2>4, ChunkAnswered
<1> QED
    BY <1>4, <1>5, <1>6

LEMMA BootStep ==
    ASSUME IInv, Boot
    PROVE  IInv'
<1> DEFINE InQueue(t) == UNION {Bytes(m.from, m.to) :
                                  m \in {q \in Elements(queue) : q.task = t}}
           Unwritten(t) == Bytes(file[t], file[t] + pool[t])
<1>1. /\ boots' = boots + 1 /\ tasks' = over + 1 /\ first' = over + 1
      /\ state' = "TASK_IDLE"
      /\ cancelled' = FALSE /\ alive' = TRUE
      /\ source' = 0 /\ id' = FALSE /\ queue' = <<>> /\ mapped' = {}
      /\ pool' = [t \in Task |-> 0] /\ offset' = [t \in Task |-> 0]
      /\ lost' = [t \in Task |-> lost[t] \cup (InQueue(t) \ received[t])]
      /\ owed' = [t \in Task |-> owed[t] \ ((InQueue(t) \ received[t])
                                              \cup Unwritten(t))]
      /\ UNCHANGED <<manager, file, saved, received, over, late, again>>
    BY DEF Boot
<1>2. ASSUME NEW t \in Task, NEW i \in 1 .. Len(queue), queue[i].task = t
      PROVE  Bytes(queue[i].from, queue[i].to) \subseteq InQueue(t)
    BY <1>2 DEF Elements
<1>3. \A t \in Task : InQueue(t) \in SUBSET Nat
    BY TypeFacts DEF Bytes
<1> HIDE DEF InQueue
<1>4. \A t \in Task : /\ lost'[t] = lost[t] \cup (InQueue(t) \ received[t])
                      /\ owed'[t] = owed[t] \ ((InQueue(t) \ received[t])
                                                 \cup Unwritten(t))
                      /\ pool'[t] = 0 /\ offset'[t] = 0
    BY <1>1
<1> HIDE DEF Unwritten
<1>5. over + 1 \in 1 .. N + 1 /\ over \in Nat /\ tasks \in Nat /\ over + 1 \in Nat
    BY TypeFacts
<1>6. over = tasks - 1 \/ (over = tasks /\ state = "TASK_NEXT")
  <2> SUFFICES ASSUME over = tasks, queue # <<>>, queue[1].end
               PROVE  state = "TASK_NEXT"
      BY DEF IInv, Ends
  <2> QED
      BY AtEnd
<1>7. TypeOK'
  <2>1. /\ \A t \in Task : lost[t] \cup (InQueue(t) \ received[t]) \in SUBSET Nat
        /\ \A t \in Task : owed[t] \ ((InQueue(t) \ received[t])
                                        \cup Unwritten(t)) \in SUBSET Nat
      BY <1>3, TypeFacts
  <2>2. lost' \in [Task -> SUBSET Nat] /\ owed' \in [Task -> SUBSET Nat]
      BY <1>1, <2>1
  <2>3. pool' \in [Task -> Nat] /\ offset' \in [Task -> Nat]
      BY <1>1
  <2>4. manager => \A t \in Task : offset'[t] <= file[t]
      BY <1>4, TypeFacts
  <2>5. queue' \in Seq(MessageType) /\ mapped' \subseteq Task \X Nat
      BY <1>1
  <2>6. boots' \in Nat
      BY <1>1, TypeFacts
  <2> QED
      BY <1>1, <1>5, <2>2, <2>3, <2>4, <2>5, <2>6, TypeFacts DEF TypeOK
<1>8. Chains'
  <2> SUFFICES ASSUME NEW t \in Task
               PROVE  Chain(<<>>, t, saved[t], received[t], lost'[t], Seen(t))
      BY <1>1 DEF Chains, Seen
  <2>1. Chain(queue, t, saved[t], received[t], lost[t], Seen(t))
      BY DEF IInv, Chains
  <2>2. \A i \in 1 .. Len(queue) : Holds(queue, t, i) =>
            Bytes(queue[i].from, queue[i].to) \subseteq received[t] \cup lost'[t]
      BY <1>2, <1>4 DEF Holds
  <2>3. lost[t] \subseteq lost'[t]
      BY <1>4
  <2> QED
      BY <2>1, <2>2, <2>3, ChainLost
<1>9. Len(queue') = 0 /\ \A i : ~(i \in 1 .. Len(queue'))
  <2>1. Len(queue') = 0
      BY <1>1
  <2> QED
      BY <2>1
<1>10. Ends'
  <2>1. over' = tasks' - 1
      BY <1>1, <1>5
  <2> QED
      BY <1>1, <1>9, <2>1 DEF Ends
<1>11. Offsets'
  <2>1. \A t \in Task : t > over + 1 =>
            file[t] = 0 /\ saved[t] = 0
    <3>1. \A t \in Task : t > over + 1 => t > tasks
        BY <1>5, <1>6 DEF Task
    <3> QED
        BY <3>1 DEF IInv, Offsets
  <2>2. manager => \A t \in Task : saved[t] <= file[t]
      BY DEF IInv, Offsets
  <2>3. first' <= tasks' /\ ~Settled'
      BY <1>1, <1>5 DEF Settled
  <2>4. tasks' <= N => tasks' \in Task
      BY <1>1, <1>5, TypeFacts DEF Task
  <2> QED
      BY <1>1, <1>4, <2>1, <2>2, <2>3, <2>4 DEF Offsets
<1>12. Uploading'
  <2>1. boots' # 0 /\ ~(tasks' > first')
      BY <1>1, <1>5, TypeFacts
  <2>2. (source' = 1) = FALSE
      BY <1>1
  <2>3. (source' = 1) = id'
      BY <1>1, <2>2
  <2>4. source' <= 1 /\ ~(source' > 0)
      BY <1>1
  <2> QED
      BY <1>1, <2>1, <2>3, <2>4 DEF Uploading
<1>13. Maps'
    BY <1>1, <1>9 DEF Maps, Using
<1>14. Owed'
  <2>0. \A t \in Task : \A b \in owed'[t] : b \in owed[t] /\ b \in 0 .. MaxBytes
      BY <1>4 DEF IInv, Owed
  <2> SUFFICES ASSUME NEW t \in Task, NEW b \in owed'[t], b \notin received[t]
               PROVE  t = tasks' /\ InCache(t, b)'
    <3>1. received' = received
        BY <1>1
    <3> QED
        BY <2>0, <3>1 DEF Owed
  <2>1. b \in owed[t] /\ b \notin InQueue(t) /\ b \notin Unwritten(t)
      BY <1>4
  <2>2. /\ b \in 0 .. MaxBytes /\ t = tasks
        /\ Queued(queue, t, b) \/ InCache(t, b)
      BY <2>1 DEF IInv, Owed
  <2>3. ~Queued(queue, t, b)
    <3> SUFFICES ASSUME NEW i \in 1 .. Len(queue), Holds(queue, t, i),
                        queue[i].from <= b, b < queue[i].to
                 PROVE  FALSE
        BY DEF Queued
    <3>1. b \in Bytes(queue[i].from, queue[i].to) /\ queue[i].task = t
        BY <2>2 DEF Bytes, Holds
    <3> QED
        BY <1>2, <2>1, <3>1
  <2>4. /\ manager /\ state # "TASK_NEXT"
        /\ saved[t] <= b /\ b < file[t] + pool[t]
      BY <2>2, <2>3 DEF InCache
  <2>5. file[t] \in Nat /\ pool[t] \in Nat /\ b \in Nat
      BY <2>2, TypeFacts
  <2>6. b < file[t]
    <3>1. ~(file[t] <= b)
        BY <2>1, <2>2, <2>4 DEF Bytes, Unwritten
    <3> QED
        BY <2>5, <3>1
  <2>7. tasks' = tasks
      BY <1>1, <1>5, <1>6, <2>4
  <2>8. b < file'[t] + pool'[t]
      BY <1>1, <1>4, <2>5, <2>6
  <2> QED
      BY <1>1, <2>2, <2>4, <2>7, <2>8 DEF InCache
<1> QED
    BY <1>7, <1>8, <1>10, <1>11, <1>12, <1>13, <1>14 DEF IInv

-----------------------------------------------------------------------------
LEMMA InitIInv == Init => IInv
<1> SUFFICES ASSUME Init PROVE IInv
    OBVIOUS
<1>1. /\ manager \in BOOLEAN
      /\ tasks = 1 /\ state = "TASK_IDLE" /\ cancelled = FALSE /\ alive = TRUE
      /\ source = 0 /\ id = FALSE
      /\ pool = [t \in Task |-> 0] /\ file = [t \in Task |-> 0]
      /\ offset = [t \in Task |-> 0] /\ saved = [t \in Task |-> 0]
      /\ queue = <<>> /\ mapped = {}
      /\ received = [t \in Task |-> {}] /\ over = 0
      /\ first = 1 /\ boots = 0 /\ late = 0 /\ again = {}
      /\ owed = [t \in Task |-> {}] /\ lost = [t \in Task |-> {}]
    BY DEF Init
<1>2. N \in Nat \ {0} /\ MaxBytes \in Nat /\ 1 \in 1 .. N + 1 /\ 0 \in 0 .. N
    BY LogAssumption
<1>3. \A t \in Task : /\ pool[t] = 0 /\ file[t] = 0 /\ offset[t] = 0
                      /\ saved[t] = 0 /\ owed[t] = {}
    BY <1>1
<1>4. TypeOK
  <2>1. /\ pool \in [Task -> Nat] /\ file \in [Task -> Nat]
        /\ offset \in [Task -> Nat] /\ saved \in [Task -> Nat]
      BY <1>1
  <2>2. /\ received \in [Task -> SUBSET Nat] /\ owed \in [Task -> SUBSET Nat]
        /\ lost \in [Task -> SUBSET Nat]
      BY <1>1
  <2>3. \A t \in Task : offset[t] <= file[t]
      BY <1>3
  <2>4. queue \in Seq(MessageType) /\ mapped \subseteq Task \X Nat
      BY <1>1
  <2> QED
      BY <1>1, <1>2, <2>1, <2>2, <2>3, <2>4 DEF TypeOK
<1>5. Len(queue) = 0 /\ \A i : ~(i \in 1 .. Len(queue))
  <2>1. Len(queue) = 0
      BY <1>1
  <2> QED
      BY <2>1
<1>6. Chains
  <2>1. \A t \in Task : \A b \in Bytes(0, saved[t]) : FALSE
      BY <1>2, <1>3 DEF Bytes
  <2>2. \A t \in Task : Seen(t) = {}
      BY <1>1 DEF Seen
  <2> QED
      BY <1>5, <2>1, <2>2 DEF Chains, Chain, Ranges, Sorted, Linked, Reached,
                              Fresh, Covered, MapRuns
<1>7. Ends
    BY <1>1, <1>5 DEF Ends
<1>8. Offsets
  <2>1. tasks \in Task
      BY <1>1, <1>2 DEF Task
  <2> QED
      BY <1>1, <1>3, <2>1 DEF Offsets, Settled
<1>9. Uploading
  <2>1. tasks \in Task
      BY <1>1, <1>2 DEF Task
  <2>2. (source = 1) = FALSE
      BY <1>1
  <2>3. (source = 1) = id
      BY <1>1, <2>2
  <2> QED
      BY <1>1, <1>3, <2>1, <2>3 DEF Uploading, Settled
<1>10. Maps
    BY <1>1, <1>5 DEF Maps, Using
<1>11. Owed
    BY <1>3 DEF Owed
<1> QED
    BY <1>4, <1>6, <1>7, <1>8, <1>9, <1>10, <1>11 DEF IInv

LEMMA NextIInv == IInv /\ [Next]_vars => IInv'
<1> SUFFICES ASSUME IInv, [Next]_vars PROVE IInv'
    OBVIOUS
<1>1. CASE UNCHANGED vars
  <2>1. UNCHANGED <<manager, tasks, state, cancelled, alive, logVars, queue,
                    received, over, first, boots, late, again, owed, lost>>
      BY <1>1 DEF vars, bootVars
  <2> QED
      BY <2>1, NothingMoves, TypeFacts
<1>2. CASE UploaderFunc
    BY <1>2, UploaderStep
<1>3. CASE TaskIdle
    BY <1>3, IdleStep
<1>4. CASE TaskCompleted
    BY <1>4, CompletedStep
<1>5. CASE Answered(FALSE)
    BY <1>5, AnsweredStep
<1>6. CASE \E t \in Task : WriteLog(t)
    BY <1>6, WriteStep
<1>7. CASE TaskLogs
    BY <1>7, TaskLogsStep
<1>8. CASE PluginLogs
    BY <1>8, PluginLogsStep
<1>9. CASE Answered(TRUE)
    BY <1>9, AnsweredStep
<1>10. CASE ReplyLost
    BY <1>10, ReplyLostStep
<1>11. CASE Abort
  <2>1. /\ cancelled' = TRUE
        /\ UNCHANGED <<manager, tasks, state, alive, logVars, queue, received,
                       over, first, boots, late, again, owed, lost>>
      BY <1>11 DEF Abort, bootVars
  <2> QED
      BY <2>1, NothingMoves, TypeFacts
<1>12. CASE Boot
    BY <1>12, BootStep
<1> QED
    BY <1>1, <1>2, <1>3, <1>4, <1>5, <1>6, <1>7, <1>8, <1>9, <1>10, <1>11,
       <1>12 DEF Next, DaemonStep

LEMMA Inductive == Spec => []IInv
    BY InitIInv, NextIInv, PTL DEF Spec

-----------------------------------------------------------------------------
(* Whatever is queued of a log begins where the controller's part ends,    *)
(* and nothing but a chunk whose reply was lost is sent twice, unless the  *)
(* offset could not be read back: chunk_log, the offsets of the config     *)
(* file, connections_write and a reboot agree on what has been sent.       *)
THEOREM LogsJoin == Spec => []RangesJoin
<1>1. IInv => RangesJoin
  <2> SUFFICES ASSUME IInv, NEW i \in 1 .. Len(queue), ~queue[i].end
               PROVE  Joined(i)
      BY DEF RangesJoin, IInv
  <2> DEFINE t == queue[i].task
             before == {j \in 1 .. i - 1 : ~queue[j].end /\ queue[j].task = t}
  <2>1. /\ queue[i].from \in Nat /\ queue[i].to \in Nat /\ t \in Task
        /\ Len(queue) \in Nat /\ i \in Nat
      BY TypeFacts, Elements1
  <2>2. Chain(queue, t, saved[t], received[t], lost[t], Seen(t)) /\ Holds(queue, t, i)
      BY <2>1 DEF IInv, Chains, Holds
  <2> HIDE DEF t
  <2>3. queue[i].from < queue[i].to
      BY <2>2 DEF Chain, Ranges
  <2>4. \A j \in 1 .. Len(queue) : Holds(queue, t, j) /\ j < i => j \in before
      BY <2>1 DEF Holds
  <2>5. \A j \in before : j \in 1 .. Len(queue) /\ Holds(queue, t, j) /\ j < i
      BY <2>1 DEF Holds
  <2>6. IF before = {}
        THEN Bytes(0, queue[i].from) \subseteq received[t] \cup lost[t]
        ELSE \E j \in before : queue[j].to = queue[i].from
    <3>1. \/ \E j \in 1 .. Len(queue) :
                 Holds(queue, t, j) /\ j < i /\ queue[j].to = queue[i].from
          \/ /\ \A j \in 1 .. Len(queue) : Holds(queue, t, j) => ~(j < i)
             /\ Bytes(0, queue[i].from) \subseteq received[t] \cup lost[t]
        BY <2>2 DEF Chain, Linked
    <3> HIDE DEF before
    <3> QED
        BY <2>4, <2>5, <3>1
  <2>7. i > 1 /\ t \notin again
            => Bytes(queue[i].from, queue[i].to) \cap received[t] = {}
    <3> SUFFICES ASSUME i > 1, t \notin again, NEW b \in received[t],
                        b \in Bytes(queue[i].from, queue[i].to)
                 PROVE  FALSE
        OBVIOUS
    <3>1. b < queue[i].from
        BY <2>2 DEF Chain, Fresh, Seen
    <3>2. b \in Nat /\ queue[i].from <= b
        BY TypeFacts DEF Bytes
    <3> QED
        BY <2>1, <3>1, <3>2
  <2> QED
      BY <2>3, <2>6, <2>7 DEF Joined, t
<1> QED
    BY <1>1, Inductive, PTL

(* The controller learns that a task has ended when it has all of its log  *)
(* that no reboot and no refusal took: rstrnt_flush_logs waits for the     *)
(* thread, and the status is queued behind the last chunk.                 *)
THEOREM LogsBeforeEnds == Spec => []LogBeforeEnd
<1>1. IInv => LogBeforeEnd
  <2> SUFFICES ASSUME IInv, NEW t \in 1 .. over
               PROVE  owed[t] \subseteq received[t]
      BY DEF LogBeforeEnd
  <2>1. t \in Task /\ t \in Nat /\ over \in Nat /\ tasks \in Nat
      BY TypeFacts DEF Task
  <2>2. CASE t # tasks
      BY <2>1, <2>2 DEF IInv, Owed
  <2>3. CASE t = tasks
    <3>1. over # tasks - 1
        BY <2>1, <2>3
    <3>2. queue # <<>> /\ queue[1].end
        BY <3>1 DEF IInv, Ends
    <3> QED
        BY <2>3, <3>2, AtEnd
  <2> QED
      BY <2>2, <2>3
<1> QED
    BY <1>1, Inductive, PTL

(* A cache file is mapped as long as a chunk of it is queued: the callback *)
(* of the last chunk, rstrnt_on_log_uploaded, is the right one to unmap it.*)
THEOREM MappedWhileQueued == Spec => []ChunksStayMapped
<1>1. IInv => ChunksStayMapped
  <2> SUFFICES ASSUME IInv
               PROVE  mapped = {<<m.task, m.map>> :
                                   m \in {q \in Elements(queue) : q.map > 0}}
      BY DEF ChunksStayMapped
  <2> DEFINE S == {<<m.task, m.map>> : m \in {q \in Elements(queue) : q.map > 0}}
  <2>1. \A t \in Task, n \in Nat :
            <<t, n>> \in mapped <=> n > 0 /\ Using(queue, t, n)
      BY DEF IInv, Maps
  <2>2. mapped \subseteq Task \X Nat
      BY TypeFacts
  <2>3. ASSUME NEW x \in mapped
        PROVE  x \in S
    <3>1. PICK t \in Task, n \in Nat : x = <<t, n>>
        BY <2>2
    <3>2. n > 0 /\ Using(queue, t, n)
        BY <2>1, <3>1
    <3>3. PICK i \in 1 .. Len(queue) : queue[i].task = t /\ queue[i].map = n
        BY <3>2 DEF Using
    <3>4. queue[i] \in {q \in Elements(queue) : q.map > 0}
        BY <3>2, <3>3 DEF Elements
    <3> QED
        BY <3>1, <3>3, <3>4
  <2>4. ASSUME NEW x \in S
        PROVE  x \in mapped
    <3>1. PICK m \in {q \in Elements(queue) : q.map > 0} :
              x = <<m.task, m.map>>
        BY <2>4
    <3>2. PICK i \in 1 .. Len(queue) : m = queue[i]
        BY <3>1 DEF Elements
    <3>3. m.task \in Task /\ m.map \in Nat /\ m.map > 0
        BY <3>1, <3>2, TypeFacts, Elements1
    <3>4. Using(queue, m.task, m.map)
        BY <3>2 DEF Using
    <3> QED
        BY <2>1, <3>1, <3>3, <3>4
  <2> QED
      BY <2>3, <2>4
<1> QED
    BY <1>1, Inductive, PTL

(* There is never a second uploader, and what a running task has logged    *)
(* and is not queued has one coming, but of the task a reboot met: of      *)
(* start_uploader and stop_uploader, and uploader_func without a task.     *)
THEOREM UploaderThere == Spec => []UploaderComing
<1>1. IInv => UploaderComing
  <2> SUFFICES ASSUME IInv
               PROVE  UploaderComing
      OBVIOUS
  <2>1. state = "TASK_RUN" => tasks <= N
      BY DEF IInv, Ends
  <2>2. boots \in Nat /\ tasks \in Nat /\ first \in Nat
      BY TypeFacts
  <2>3. first <= tasks
      BY DEF IInv, Offsets
  <2>4. (boots = 0 \/ tasks > first) \/ (boots > 0 /\ tasks = first)
      BY <2>2, <2>3
  <2> QED
      BY <2>1, <2>4 DEF IInv, Uploading, UploaderComing
<1> QED
    BY <1>1, Inductive, PTL
=============================================================================
