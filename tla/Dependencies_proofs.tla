------------------------- MODULE Dependencies_proofs -------------------------
(***************************************************************************)
(* The safety of Dependencies.tla, for any tasks, packages and graph of    *)
(* repodeps, cycles included.                                              *)
(*                                                                         *)
(* The nested copies are a path in the graph: each but the innermost waits *)
(* at its cursor for the copy inside it (Nesting).  What a copy has behind *)
(* its cursor, and what it has in processed_deps, is done with or on the   *)
(* path (Passed, Known), and the whole path is in the processed_deps of    *)
(* the innermost (Marked), so that a task met again is not entered again   *)
(* (Apart).  A hard dependency is settled or still ahead in the batches or *)
(* at the cursor (Fits).  GoOn, which ends several copies at once, keeps   *)
(* all that (Resumed); each callback changes the innermost copy (Replaced) *)
(* or adds one (Entered) and goes on.                                      *)
(***************************************************************************)
EXTENDS Dependencies, FiniteSets, FiniteSetTheorems, SequenceTheorems,
        WellFoundedInduction, TLAPS

(* A DependencyData that may be done.                                      *)
Record ==
    [name : Tasks,
     state : {"REPO", "RPM", "SINGLE_RPM", "SOFT_RPM", "DONE"},
     repodeps : Seq(Tasks), dependencies : Seq(Packages),
     soft : Seq(Packages), processed : SUBSET Tasks,
     remove : SUBSET Removals, install : SUBSET (Packages \ Removals)]

Names(s) == {s[i].name : i \in 1 .. Len(s)}
AllSettled(t, done) == \A p \in Elements(Hard[t]) : <<t, p>> \in done

(* The lists of d are where its state says.                                *)
Fits(d, done) ==
    /\ d.state \in {"REPO", "RPM"} => d.dependencies = Hard[d.name]
    /\ d.state = "REPO" => d.repodeps # <<>>
    /\ d.state = "RPM" =>
          /\ d.remove \cup d.install # {}
          /\ \A p \in Elements(Hard[d.name]) :
                <<d.name, p>> \in done \/ p \in d.remove \cup d.install
    /\ d.state = "SINGLE_RPM" =>
          /\ d.dependencies # <<>>
          /\ \A p \in Elements(Hard[d.name]) :
                <<d.name, p>> \in done \/ p \in Elements(d.dependencies)
    /\ d.state = "SOFT_RPM" => d.soft # <<>>
    /\ d.state \in {"SOFT_RPM", "DONE"} => AllSettled(d.name, done)

Typed(s) == s \in Seq(Record) /\ s # <<>> /\ s[1].name = Main
Fitted(s, done) == \A i \in 1 .. Len(s) : Fits(s[i], done)
Nesting(s) ==
    \A i \in 1 .. Len(s), j \in 1 .. Len(s) : j = i + 1 =>
        s[i].state = "REPO" /\ Head(s[i].repodeps) = s[j].name
Unpacked(s) == ~unpack => Len(s) = 1 /\ s[1].state # "REPO"
Passed(s, past) ==
    unpack => \A i \in 1 .. Len(s) :
        /\ Elements(requires[s[i].name])
               \subseteq Elements(s[i].repodeps) \cup past \cup Names(s)
        /\ s[i].state # "REPO" => s[i].repodeps = <<>>
Marked(s) ==
    \A i \in 2 .. Len(s), j \in 1 .. Len(s) :
        i <= j + 1 => s[i].name \in s[j].processed
Apart(s) == \A i, j \in 2 .. Len(s) : s[i].name = s[j].name => i = j
Known(s, past) == \A i \in 1 .. Len(s) : s[i].processed \subseteq past \cup Names(s)

(* The copies s, when past are done with and done are settled.             *)
Stacked(s, past, done) ==
    /\ Typed(s) /\ Fitted(s, done) /\ Nesting(s) /\ Unpacked(s)
    /\ Passed(s, past) /\ Marked(s) /\ Apart(s) /\ Known(s, past)

(* The repodep whose metadata is read, in no list yet.                     *)
Awaited == IF op = "metadata" THEN {Head(Top.repodeps)} ELSE {}

Causes == (cancelled => cause) /\ (result = "error" => cause)
Operation ==
    /\ stack = <<>> <=> op \in {"start", "none"}
    /\ op = "none" <=> result # "none"
    /\ op = "start" => read = {Main}
    /\ stack # <<>> =>
          /\ Stacked(stack, complete \cup Awaited, settled)
          /\ Top.state # "DONE"
          /\ op # "metadata" => op = Started(Top)
    /\ op = "metadata" =>
          /\ Top.state = "REPO" /\ Head(Top.repodeps) \in Top.processed
          /\ \A i \in 2 .. Len(stack) : stack[i].name # Head(Top.repodeps)

(* A task whose metadata was read is being dealt with, or done.            *)
Finished(t) ==
    /\ AllSettled(t, settled)
    /\ unpack => Elements(requires[t])
                     \subseteq complete \cup Awaited \cup Names(stack)
Reads ==
    op = "start" \/ result = "error"
        \/ \A t \in read : t \in Names(stack) \/ Finished(t)

IInv == TypeOK /\ Causes /\ Operation /\ Reads

-----------------------------------------------------------------------------
(* Sequences.                                                              *)
LEMMA Greatest ==
    ASSUME NEW n \in Nat, NEW S \in SUBSET (1 .. n), S # {}
    PROVE  \E k \in S : \A i \in S : i <= k
<1> DEFINE R == {n - i : i \in S}
<1>1. R \in SUBSET Nat /\ R # {}
  <2>1. \A i \in S : n - i \in Nat
      OBVIOUS
  <2> QED
      BY <2>1
<1>2. PICK m \in R : \A j \in R : ~(<<j, m>> \in OpToRel(<, Nat))
    BY <1>1, WFMin, NatLessThanWellFounded
<1>3. \A j \in R : ~(j < m)
    BY <1>1, <1>2 DEF OpToRel
<1>4. PICK k \in S : m = n - k
    BY <1>2
<1>5. \A i \in S : ~(n - i < n - k)
    BY <1>3, <1>4
<1> QED
    BY <1>5

LEMMA HeadElement ==
    ASSUME NEW S, NEW q \in Seq(S), q # <<>>
    PROVE  /\ Head(q) \in S /\ Tail(q) \in Seq(S)
           /\ Elements(q) \subseteq {Head(q)} \cup Elements(Tail(q))
           /\ Head(q) \in Elements(q)
<1>1. /\ Head(q) \in S /\ Tail(q) \in Seq(S) /\ Head(q) = q[1]
      /\ Len(q) \in Nat \ {0} /\ Len(Tail(q)) = Len(q) - 1
      /\ \A i \in 1 .. Len(q) - 1 : Tail(q)[i] = q[i + 1]
    BY HeadTailProperties, LenProperties, EmptySeq
<1>2. ASSUME NEW i \in 1 .. Len(q), i # 1
      PROVE  q[i] \in Elements(Tail(q))
  <2>1. i - 1 \in 1 .. Len(q) - 1 /\ (i - 1) + 1 = i
      BY <1>1, <1>2
  <2>2. Tail(q)[i - 1] = q[i] /\ i - 1 \in 1 .. Len(Tail(q))
      BY <1>1, <2>1
  <2> QED
      BY <2>2 DEF Elements
<1>3. 1 \in 1 .. Len(q)
    BY <1>1
<1> QED
    BY <1>1, <1>2, <1>3 DEF Elements

LEMMA ElementsType ==
    ASSUME NEW S, NEW q \in Seq(S)
    PROVE  Elements(q) \subseteq S
BY ElementOfSeq, LenProperties DEF Elements

LEMMA NoElements == Elements(<<>>) = {}
<1>1. \A i : ~(i \in 1 .. Len(<<>>))
    OBVIOUS
<1> QED
    BY <1>1 DEF Elements

LEMMA LastRecord ==
    ASSUME NEW s \in Seq(Record), s # <<>>
    PROVE  /\ Len(s) \in Nat \ {0} /\ 1 \in 1 .. Len(s)
           /\ Len(s) \in 1 .. Len(s) /\ s[Len(s)] \in Record
           /\ \A i \in 1 .. Len(s) : s[i] \in Record
<1>1. Len(s) \in Nat \ {0} /\ \A i \in 1 .. Len(s) : s[i] \in Record
    BY LenProperties, EmptySeq, ElementOfSeq
<1>2. 1 \in 1 .. Len(s) /\ Len(s) \in 1 .. Len(s)
    BY <1>1
<1> QED
    BY <1>1, <1>2

LEMMA ReplacedLast ==
    ASSUME NEW s \in Seq(Record), s # <<>>, NEW d \in Record
    PROVE  LET r == [s EXCEPT ![Len(s)] = d]
           IN /\ r \in Seq(Record) /\ r # <<>> /\ Len(r) = Len(s)
              /\ r[Len(s)] = d
              /\ \A i \in 1 .. Len(s) : i # Len(s) => r[i] = s[i]
<1> DEFINE r == [s EXCEPT ![Len(s)] = d]
<1>1. Len(s) \in 1 .. Len(s) /\ Len(s) \in Nat \ {0}
    BY LastRecord
<1>2. /\ r \in Seq(Record) /\ Len(r) = Len(s)
      /\ \A i \in 1 .. Len(s) : r[i] = IF i = Len(s) THEN d ELSE s[i]
    BY <1>1, ExceptSeq
<1> HIDE DEF r
<1>3. r # <<>>
    BY <1>1, <1>2, EmptySeq
<1>4. r[Len(s)] = d /\ \A i \in 1 .. Len(s) : i # Len(s) => r[i] = s[i]
    BY <1>1, <1>2
<1> QED
    BY <1>2, <1>3, <1>4 DEF r

LEMMA AppendedLast ==
    ASSUME NEW s \in Seq(Record), NEW d \in Record
    PROVE  LET r == Append(s, d)
           IN /\ r \in Seq(Record) /\ r # <<>> /\ Len(r) = Len(s) + 1
              /\ r[Len(s) + 1] = d
              /\ \A i \in 1 .. Len(s) : r[i] = s[i]
BY AppendProperties

Shortened(s, k, d) == Append(SubSeq(s, 1, k - 1), d)

LEMMA CutLast ==
    ASSUME NEW s \in Seq(Record), NEW k \in 1 .. Len(s), NEW d \in Record
    PROVE  LET r == Shortened(s, k, d)
           IN /\ r \in Seq(Record) /\ r # <<>> /\ Len(r) = k
              /\ r[k] = d
              /\ \A i \in 1 .. k - 1 : r[i] = s[i]
<1> DEFINE c == SubSeq(s, 1, k - 1)
<1>1. Len(s) \in Nat /\ k \in Nat \ {0} /\ k <= Len(s)
    BY LenProperties
<1>2. \A i \in 1 .. k - 1 : s[i] \in Record
    BY <1>1, ElementOfSeq
<1>3. c \in Seq(Record) /\ \A i \in 1 .. k - 1 - 1 + 1 : c[i] = s[1 + i - 1]
      /\ Len(c) = IF 1 <= k - 1 THEN k - 1 - 1 + 1 ELSE 0
    BY <1>1, <1>2, SubSeqProperties
<1>4. Len(c) = k - 1 /\ \A i \in 1 .. k - 1 : c[i] = s[i]
    BY <1>1, <1>3
<1> HIDE DEF c
<1>5. LET r == Append(c, d)
      IN /\ r \in Seq(Record) /\ r # <<>> /\ Len(r) = k - 1 + 1
         /\ r[k - 1 + 1] = d
         /\ \A i \in 1 .. k - 1 : r[i] = c[i]
    BY <1>3, <1>4, AppendedLast
<1>6. k - 1 + 1 = k
    BY <1>1
<1> QED
    BY <1>4, <1>5, <1>6 DEF c, Shortened

-----------------------------------------------------------------------------
(* What the handlers leave in a record.                                    *)
Keeps(d, e) ==
    /\ e \in Record /\ e.name = d.name /\ e.repodeps = d.repodeps
    /\ e.processed = d.processed

LEMMA HardTypes ==
    ASSUME NEW t \in Tasks
    PROVE  Hard[t] \in Seq(Packages) /\ Elements(Hard[t]) \subseteq Packages
BY DependencyAssumption, ElementsType

LEMMA LaterFits ==
    ASSUME NEW d \in Record, NEW done
    PROVE  /\ Keeps(d, Later(d)) /\ Later(d).state \in {"SOFT_RPM", "DONE"}
           /\ AllSettled(d.name, done) => Fits(Later(d), done)
<1>1. CASE d.soft = <<>>
  <2>1. Later(d) = [d EXCEPT !.state = "DONE"]
      BY <1>1 DEF Later
  <2> QED
      BY <2>1 DEF Keeps, Fits, Record
<1>2. CASE d.soft # <<>>
  <2>1. Later(d) = [d EXCEPT !.state = "SOFT_RPM"]
      BY <1>2 DEF Later
  <2> QED
      BY <1>2, <2>1 DEF Keeps, Fits, Record
<1> QED
    BY <1>1, <1>2

LEMMA BatchFits ==
    ASSUME NEW d \in Record, NEW done, d.state = "RPM",
           d.dependencies = Hard[d.name],
           \A p \in Elements(Hard[d.name]) :
               <<d.name, p>> \in done \/ p \in d.remove \cup d.install
    PROVE  /\ Keeps(d, Batch(d)) /\ Fits(Batch(d), done)
           /\ Batch(d).state # "REPO"
<1>1. CASE d.remove \cup d.install = {}
  <2>1. Batch(d) = Later(d) /\ AllSettled(d.name, done)
      BY <1>1 DEF Batch, AllSettled
  <2> QED
      BY <2>1, LaterFits
<1>2. CASE d.remove \cup d.install # {}
  <2>1. Batch(d) = d
      BY <1>2 DEF Batch
  <2> QED
      BY <1>2, <2>1 DEF Keeps, Fits
<1> QED
    BY <1>1, <1>2

LEMMA RpmFits ==
    ASSUME NEW d \in Record, NEW done, d.dependencies = Hard[d.name]
    PROVE  /\ Keeps(d, Rpm(d)) /\ Fits(Rpm(d), done) /\ Rpm(d).state # "REPO"
<1> DEFINE e == [d EXCEPT !.state = "RPM",
                          !.remove = Elements(d.dependencies) \cap Removals,
                          !.install = Elements(d.dependencies) \ Removals]
<1>1. Elements(d.dependencies) \subseteq Packages
    BY ElementsType DEF Record
<1>2. /\ Elements(d.dependencies) \cap Removals \in SUBSET Removals
      /\ Elements(d.dependencies) \ Removals \in SUBSET (Packages \ Removals)
    BY <1>1
<1>3. e \in Record
    BY <1>2 DEF Record
<1>4. /\ e.state = "RPM" /\ e.dependencies = d.dependencies /\ e.name = d.name
      /\ e.remove \cup e.install = Elements(d.dependencies)
      /\ e.repodeps = d.repodeps /\ e.processed = d.processed
    BY DEF Record
<1>5. Rpm(d) = Batch(e)
    BY DEF Rpm
<1> HIDE DEF e
<1>6. /\ e.dependencies = Hard[e.name]
      /\ \A p \in Elements(Hard[e.name]) : p \in e.remove \cup e.install
    BY <1>4
<1>7. Keeps(e, Batch(e)) /\ Fits(Batch(e), done) /\ Batch(e).state # "REPO"
    BY <1>3, <1>4, <1>6, BatchFits
<1> QED
    BY <1>4, <1>5, <1>7 DEF Keeps

LEMMA HandlerRepoFits ==
    ASSUME NEW d \in Record, NEW done, d.state = "REPO",
           d.dependencies = Hard[d.name]
    PROVE  /\ Keeps(d, Handler(d)) /\ Fits(Handler(d), done)
           /\ Handler(d).state # "REPO" => Handler(d).repodeps = <<>>
<1>1. CASE d.repodeps # <<>>
  <2>1. Handler(d) = d
      BY <1>1 DEF Handler
  <2> QED
      BY <1>1, <2>1 DEF Keeps, Fits
<1>2. CASE d.repodeps = <<>>
  <2>1. Handler(d) = Rpm(d)
      BY <1>2 DEF Handler
  <2> QED
      BY <1>2, <2>1, RpmFits DEF Keeps
<1> QED
    BY <1>1, <1>2

LEMMA NextFits ==
    ASSUME NEW d \in Record, NEW done, d.state = "REPO", d.repodeps # <<>>,
           Fits(d, done)
    PROVE  LET e == NextRepodep(d)
           IN /\ e \in Record /\ e.name = d.name /\ e.processed = d.processed
              /\ Fits(e, done)
              /\ e.state # "REPO" => e.repodeps = <<>>
              /\ Elements(d.repodeps)
                     \subseteq {Head(d.repodeps)} \cup Elements(e.repodeps)
<1> DEFINE c == [d EXCEPT !.repodeps = Tail(@)]
<1>1. /\ d.repodeps \in Seq(Tasks) /\ d.dependencies = Hard[d.name]
      /\ d.name \in Tasks
    BY DEF Fits, Record
<1>2. /\ Tail(d.repodeps) \in Seq(Tasks)
      /\ Elements(d.repodeps)
             \subseteq {Head(d.repodeps)} \cup Elements(Tail(d.repodeps))
    BY <1>1, HeadElement
<1>3. /\ c \in Record /\ c.state = "REPO" /\ c.name = d.name
      /\ c.repodeps = Tail(d.repodeps) /\ c.processed = d.processed
      /\ c.dependencies = d.dependencies
    BY <1>2 DEF Record
<1>4. NextRepodep(d) = Handler(c)
    BY DEF NextRepodep
<1> HIDE DEF c
<1>5. /\ Keeps(c, Handler(c)) /\ Fits(Handler(c), done)
      /\ Handler(c).state # "REPO" => Handler(c).repodeps = <<>>
    BY <1>1, <1>3, HandlerRepoFits
<1> QED
    BY <1>2, <1>3, <1>4, <1>5 DEF Keeps

LEMMA HandlerSingleFits ==
    ASSUME NEW d \in Record, NEW done, d.state = "SINGLE_RPM",
           \A p \in Elements(Hard[d.name]) :
               <<d.name, p>> \in done \/ p \in Elements(d.dependencies)
    PROVE  /\ Keeps(d, Handler(d)) /\ Fits(Handler(d), done)
           /\ Handler(d).state # "REPO"
<1>1. CASE d.dependencies # <<>>
  <2>1. Handler(d) = d
      BY <1>1 DEF Handler
  <2> QED
      BY <1>1, <2>1 DEF Keeps, Fits
<1>2. CASE d.dependencies = <<>>
  <2>1. Handler(d) = Later(d)
      BY <1>2 DEF Handler
  <2>2. AllSettled(d.name, done)
      BY <1>2, NoElements DEF AllSettled
  <2> QED
      BY <2>1, <2>2, LaterFits
<1> QED
    BY <1>1, <1>2

LEMMA FallbackFits ==
    ASSUME NEW d \in Record, NEW done, d.dependencies = Hard[d.name]
    PROVE  /\ Keeps(d, Fallback(d)) /\ Fits(Fallback(d), done)
           /\ Fallback(d).state # "REPO"
<1> DEFINE c == [d EXCEPT !.state = "SINGLE_RPM", !.remove = {}, !.install = {}]
<1>1. /\ c \in Record /\ c.state = "SINGLE_RPM" /\ c.name = d.name
      /\ c.dependencies = Hard[c.name] /\ c.repodeps = d.repodeps
      /\ c.processed = d.processed
    BY DEF Record
<1>2. Fallback(d) = Handler(c)
    BY DEF Fallback
<1> HIDE DEF c
<1>3. Keeps(c, Handler(c)) /\ Fits(Handler(c), done) /\ Handler(c).state # "REPO"
    BY <1>1, HandlerSingleFits
<1> QED
    BY <1>1, <1>2, <1>3 DEF Keeps

LEMMA HandlerSoftFits ==
    ASSUME NEW d \in Record, NEW done, d.state = "SOFT_RPM",
           AllSettled(d.name, done)
    PROVE  /\ Keeps(d, Handler(d)) /\ Fits(Handler(d), done)
           /\ Handler(d).state # "REPO"
<1>1. Handler(d) = Later(d)
    BY DEF Handler
<1> QED
    BY <1>1, LaterFits

-----------------------------------------------------------------------------
(* What is done with or being dealt with once the copies s have gone on.   *)
LEMMA NamesOf ==
    ASSUME NEW s, NEW i \in 1 .. Len(s)
    PROVE  s[i].name \in Names(s)
BY DEF Names

LEMMA StackedFacts ==
    ASSUME NEW s, NEW past, NEW done, Stacked(s, past, done)
    PROVE  /\ s \in Seq(Record) /\ s # <<>> /\ s[1].name = Main
           /\ \A i \in 1 .. Len(s) : Fits(s[i], done) /\ s[i] \in Record
           /\ \A i \in 1 .. Len(s), j \in 1 .. Len(s) : j = i + 1 =>
                 s[i].state = "REPO" /\ Head(s[i].repodeps) = s[j].name
           /\ ~unpack => Len(s) = 1 /\ s[1].state # "REPO"
           /\ unpack => \A i \in 1 .. Len(s) :
                 /\ Elements(requires[s[i].name])
                        \subseteq Elements(s[i].repodeps) \cup past \cup Names(s)
                 /\ s[i].state # "REPO" => s[i].repodeps = <<>>
           /\ \A i \in 2 .. Len(s), j \in 1 .. Len(s) :
                 i <= j + 1 => s[i].name \in s[j].processed
           /\ \A i, j \in 2 .. Len(s) : s[i].name = s[j].name => i = j
           /\ \A i \in 1 .. Len(s) : s[i].processed \subseteq past \cup Names(s)
BY LastRecord DEF Stacked, Typed, Fitted, Nesting, Unpacked, Passed, Marked,
                  Apart, Known

(* The copies as they are when the one inside them has ended.              *)
Back(s, i) == IF i = Len(s) THEN s[i] ELSE NextRepodep(s[i])

LEMMA BackFits ==
    ASSUME NEW s, NEW past, NEW done, Stacked(s, past, done),
           NEW i \in 1 .. Len(s)
    PROVE  /\ Back(s, i) \in Record /\ Back(s, i).name = s[i].name
           /\ Back(s, i).processed = s[i].processed /\ Fits(Back(s, i), done)
           /\ unpack => /\ Elements(requires[s[i].name])
                               \subseteq Elements(Back(s, i).repodeps)
                                             \cup past \cup Names(s)
                        /\ Back(s, i).state # "REPO" => Back(s, i).repodeps = <<>>
           /\ ~unpack => Back(s, i).state # "REPO"
<1>1. Len(s) \in Nat \ {0} /\ s[i] \in Record
    BY StackedFacts, LastRecord
<1>2. CASE i = Len(s)
  <2>1. Back(s, i) = s[i]
      BY <1>2 DEF Back
  <2>2. ~unpack => i = 1
      BY <1>2, StackedFacts
  <2> QED
      BY <1>1, <2>1, <2>2, StackedFacts
<1>3. CASE i # Len(s)
  <2>1. i + 1 \in 1 .. Len(s)
      BY <1>1, <1>3
  <2>2. /\ s[i].state = "REPO" /\ Head(s[i].repodeps) = s[i + 1].name
        /\ Fits(s[i], done) /\ unpack
    <3>1. s[i].state = "REPO" /\ Head(s[i].repodeps) = s[i + 1].name
        BY <2>1, StackedFacts
    <3>2. Fits(s[i], done)
        BY StackedFacts
    <3>3. unpack
        BY <1>1, <1>3, StackedFacts
    <3> QED
        BY <3>1, <3>2, <3>3
  <2>3. s[i].repodeps # <<>>
      BY <2>2 DEF Fits
  <2>4. Back(s, i) = NextRepodep(s[i])
      BY <1>3 DEF Back
  <2>5. /\ Back(s, i) \in Record /\ Back(s, i).name = s[i].name
        /\ Back(s, i).processed = s[i].processed /\ Fits(Back(s, i), done)
        /\ Back(s, i).state # "REPO" => Back(s, i).repodeps = <<>>
        /\ Elements(s[i].repodeps)
               \subseteq {s[i + 1].name} \cup Elements(Back(s, i).repodeps)
      BY <1>1, <2>2, <2>3, <2>4, NextFits
  <2>6. s[i + 1].name \in Names(s)
      BY <2>1, NamesOf
  <2>7. Elements(requires[s[i].name])
            \subseteq Elements(s[i].repodeps) \cup past \cup Names(s)
      BY <2>2, StackedFacts
  <2> QED
      BY <2>2, <2>5, <2>6, <2>7
<1> QED
    BY <1>2, <1>3

LEMMA BackDone ==
    ASSUME NEW s, NEW past, NEW done, Stacked(s, past, done),
           NEW i \in 1 .. Len(s), Back(s, i).state = "DONE"
    PROVE  /\ AllSettled(s[i].name, done)
           /\ unpack => Elements(requires[s[i].name]) \subseteq past \cup Names(s)
<1>1. Fits(Back(s, i), done) /\ Back(s, i).name = s[i].name
    BY BackFits
<1>2. AllSettled(s[i].name, done)
    BY <1>1 DEF Fits
<1>3. unpack => Back(s, i).repodeps = <<>>
    BY BackFits
<1>4. unpack => Elements(Back(s, i).repodeps) = {}
    BY <1>3, NoElements
<1> QED
    BY <1>2, <1>4, BackFits

(* ldep_finish_cb, as often as it is called in a row: what GoOn leaves.    *)
Left(s, past, done, to, more) ==
    /\ \A i \in 1 .. Len(s) :
          \/ s[i].name \in Names(to)
          \/ /\ AllSettled(s[i].name, done)
             /\ unpack => Elements(requires[s[i].name])
                              \subseteq more \cup Names(to)
    /\ past \cup Names(s) \subseteq more \cup Names(to)

(* The copies after k are done, and ended are their names.                 *)
Ending(s, k, ended) ==
    /\ k \in 1 .. Len(s) /\ Back(s, k).state # "DONE"
    /\ \A i \in 1 .. Len(s) : i <= k \/ Back(s, i).state = "DONE"
    /\ ended \subseteq Names(s)
    /\ \A i \in k + 1 .. Len(s) : s[i].name \in ended

LEMMA Cut ==
    ASSUME NEW s, NEW past, NEW done, Stacked(s, past, done),
           NEW k, NEW ended, Ending(s, k, ended),
           NEW to, to = Shortened(s, k, Back(s, k)),
           NEW more, more = past \cup ended
    PROVE  /\ Stacked(to, more, done) /\ to[Len(to)] = Back(s, k)
           /\ Left(s, past, done, to, more)
<1>0. /\ k \in 1 .. Len(s) /\ Back(s, k).state # "DONE"
      /\ \A i \in 1 .. Len(s) : i <= k \/ Back(s, i).state = "DONE"
      /\ ended \subseteq Names(s)
      /\ \A i \in k + 1 .. Len(s) : s[i].name \in ended
    BY DEF Ending
<1> USE <1>0
<1>1. /\ Back(s, k) \in Record /\ Back(s, k).name = s[k].name
      /\ Back(s, k).processed = s[k].processed /\ Fits(Back(s, k), done)
    BY BackFits
<1>2. s \in Seq(Record) /\ s # <<>> /\ Len(s) \in Nat \ {0}
    BY StackedFacts, LastRecord
<1>3. /\ to \in Seq(Record) /\ to # <<>> /\ Len(to) = k
      /\ to[k] = Back(s, k)
      /\ \A i \in 1 .. k - 1 : to[i] = s[i]
  <2>1. PICK d : d = Back(s, k)
      OBVIOUS
  <2>2. d \in Record /\ to = Shortened(s, k, d)
      BY <1>1, <2>1
  <2>3. /\ to \in Seq(Record) /\ to # <<>> /\ Len(to) = k
        /\ to[k] = d
        /\ \A i \in 1 .. k - 1 : to[i] = s[i]
      BY <1>2, <2>2, CutLast
  <2> QED
      BY <2>1, <2>3
<1>4. k \in Nat \ {0} /\ \A i \in 1 .. k : i \in 1 .. Len(s) /\ (i = k \/ i \in 1 .. k - 1)
    BY <1>2
<1>5. \A i \in 1 .. k : to[i].name = s[i].name /\ to[i].processed = s[i].processed
    BY <1>1, <1>3, <1>4
<1>6. past \cup Names(s) = more \cup Names(to)
  <2>1. \A i \in 1 .. k : s[i].name \in Names(to) /\ s[i].name \in Names(s)
      BY <1>3, <1>4, <1>5 DEF Names
  <2>2. \A i \in k + 1 .. Len(s) : s[i].name \in Names(s) /\ s[i].name \in more
      BY <1>4, NamesOf
  <2>3. \A i \in 1 .. Len(s) : i \in 1 .. k \/ i \in k + 1 .. Len(s)
      BY <1>2, <1>4
  <2>4. Names(s) \subseteq more \cup Names(to)
      BY <2>1, <2>2, <2>3 DEF Names
  <2>5. Names(to) \subseteq Names(s)
      BY <1>3, <1>5, <2>1 DEF Names
  <2> QED
      BY <2>2, <2>4, <2>5
<1>7. Typed(to)
  <2>1. 1 \in 1 .. k
      BY <1>4
  <2> QED
      BY <1>3, <1>5, <2>1, StackedFacts DEF Typed
<1>8. Fitted(to, done)
  <2>1. \A i \in 1 .. k : Fits(to[i], done)
      BY <1>1, <1>3, <1>4, StackedFacts
  <2> QED
      BY <1>3, <2>1 DEF Fitted
<1>9. Nesting(to)
  <2> SUFFICES ASSUME NEW i \in 1 .. k, NEW j \in 1 .. k, j = i + 1
               PROVE  to[i].state = "REPO" /\ Head(to[i].repodeps) = to[j].name
      BY <1>3, SMTT(30) DEF Nesting
  <2>1. i \in 1 .. k - 1 /\ i \in 1 .. Len(s) /\ j \in 1 .. Len(s)
      BY <1>4
  <2>2. s[i].state = "REPO" /\ Head(s[i].repodeps) = s[j].name
      BY <2>1, StackedFacts
  <2> QED
      BY <1>3, <1>5, <2>1, <2>2
<1>10. Unpacked(to)
  <2> SUFFICES ASSUME ~unpack PROVE Len(to) = 1 /\ to[1].state # "REPO"
      BY DEF Unpacked
  <2>1. Len(s) = 1 /\ Back(s, k).state # "REPO"
      BY StackedFacts, BackFits
  <2>2. k = 1
      BY <1>4, <2>1
  <2> QED
      BY <1>3, <2>1, <2>2
<1>11. Passed(to, more)
  <2> SUFFICES ASSUME unpack, NEW i \in 1 .. k
               PROVE  /\ Elements(requires[to[i].name])
                             \subseteq Elements(to[i].repodeps) \cup more
                                           \cup Names(to)
                      /\ to[i].state # "REPO" => to[i].repodeps = <<>>
      BY <1>3 DEF Passed
  <2>1. CASE i = k
    <3>1. /\ Elements(requires[s[k].name])
                 \subseteq Elements(Back(s, k).repodeps) \cup past \cup Names(s)
          /\ Back(s, k).state # "REPO" => Back(s, k).repodeps = <<>>
        BY BackFits
    <3> QED
        BY <1>1, <1>3, <1>6, <2>1, <3>1
  <2>2. CASE i \in 1 .. k - 1
    <3>1. i \in 1 .. Len(s)
        BY <1>4
    <3>2. /\ Elements(requires[s[i].name])
                 \subseteq Elements(s[i].repodeps) \cup past \cup Names(s)
          /\ s[i].state # "REPO" => s[i].repodeps = <<>>
        BY <3>1, StackedFacts
    <3> QED
        BY <1>3, <1>6, <2>2, <3>2
  <2> QED
      BY <1>4, <2>1, <2>2
<1>12. Marked(to)
  <2> SUFFICES ASSUME NEW i \in 2 .. k, NEW j \in 1 .. k, i <= j + 1
               PROVE  to[i].name \in to[j].processed
      BY <1>3 DEF Marked
  <2>1. i \in 1 .. k /\ i \in 2 .. Len(s) /\ j \in 1 .. Len(s)
      BY <1>2, <1>4
  <2>2. s[i].name \in s[j].processed
      BY <2>1, StackedFacts
  <2> QED
      BY <1>5, <2>1, <2>2
<1>13. Apart(to)
  <2> SUFFICES ASSUME NEW i \in 2 .. k, NEW j \in 2 .. k, to[i].name = to[j].name
               PROVE  i = j
      BY <1>3 DEF Apart
  <2>1. /\ i \in 1 .. k /\ i \in 2 .. Len(s)
        /\ j \in 1 .. k /\ j \in 2 .. Len(s)
      BY <1>2, <1>4
  <2> QED
      BY <1>5, <2>1, StackedFacts
<1>14. Known(to, more)
  <2>1. \A i \in 1 .. k : to[i].processed \subseteq more \cup Names(to)
      BY <1>4, <1>5, <1>6, StackedFacts
  <2> QED
      BY <1>3, <2>1 DEF Known
<1>15. Left(s, past, done, to, more)
  <2> SUFFICES ASSUME NEW i \in 1 .. Len(s)
               PROVE  \/ s[i].name \in Names(to)
                      \/ /\ AllSettled(s[i].name, done)
                         /\ unpack => Elements(requires[s[i].name])
                                          \subseteq more \cup Names(to)
      BY <1>6 DEF Left
  <2>1. CASE i <= k
    <3>1. i \in 1 .. k
        BY <1>4, <2>1
    <3> QED
        BY <1>3, <1>5, <3>1 DEF Names
  <2>2. CASE Back(s, i).state = "DONE"
      BY <1>6, <2>2, BackDone
  <2> QED
      BY <2>1, <2>2
<1> QED
    BY <1>3, <1>7, <1>8, <1>9, <1>10, <1>11, <1>12, <1>13, <1>14, <1>15
       DEF Stacked

Changed(s, d) == [s EXCEPT ![Len(s)] = d]

(* d may take the place of the innermost copy.                             *)
Replaces(s, d, past, done) ==
    /\ d \in Record /\ d.name = s[Len(s)].name /\ Fits(d, done)
    /\ s[Len(s)].processed \subseteq d.processed
    /\ d.processed \subseteq past \cup Names(s)
    /\ ~unpack => d.state # "REPO"
    /\ unpack => /\ Elements(s[Len(s)].repodeps)
                        \subseteq Elements(d.repodeps) \cup past \cup Names(s)
                 /\ d.state # "REPO" => d.repodeps = <<>>

(* What has been done with and settled grows.                              *)
LEMMA Grown ==
    ASSUME NEW s, NEW past, NEW done, Stacked(s, past, done),
           NEW past2, past \subseteq past2, NEW done2, done \subseteq done2
    PROVE  Stacked(s, past2, done2)
<1>1. Typed(s) /\ Nesting(s) /\ Unpacked(s) /\ Marked(s) /\ Apart(s)
    BY DEF Stacked
<1>2. Fitted(s, done2)
  <2>1. \A d : Fits(d, done) => Fits(d, done2)
      BY DEF Fits, AllSettled
  <2> QED
      BY <2>1 DEF Stacked, Fitted
<1>3. Passed(s, past2)
    BY DEF Stacked, Passed
<1>4. Known(s, past2)
    BY DEF Stacked, Known
<1> QED
    BY <1>1, <1>2, <1>3, <1>4 DEF Stacked

(* The innermost copy changes, and not its name.                           *)
LEMMA Replaced ==
    ASSUME NEW s, NEW past, NEW done, Stacked(s, past, done),
           NEW d, Replaces(s, d, past, done)
    PROVE  LET r == Changed(s, d)
           IN /\ Stacked(r, past, done)
              /\ Names(r) = Names(s) /\ Len(r) = Len(s) /\ r[Len(r)] = d
              /\ \A i \in 1 .. Len(s) : r[i].name = s[i].name
<1>0. /\ d \in Record /\ d.name = s[Len(s)].name /\ Fits(d, done)
      /\ s[Len(s)].processed \subseteq d.processed
      /\ d.processed \subseteq past \cup Names(s)
      /\ ~unpack => d.state # "REPO"
      /\ unpack => /\ Elements(s[Len(s)].repodeps)
                          \subseteq Elements(d.repodeps) \cup past \cup Names(s)
                   /\ d.state # "REPO" => d.repodeps = <<>>
    BY DEF Replaces
<1> USE <1>0
<1> DEFINE r == Changed(s, d)
<1>1. PICK n : n = Len(s)
    OBVIOUS
<1>2. /\ s \in Seq(Record) /\ s # <<>> /\ n \in Nat \ {0} /\ n \in 1 .. n
      /\ 1 \in 1 .. n
    BY <1>1, StackedFacts, LastRecord
<1>3. /\ r \in Seq(Record) /\ r # <<>> /\ Len(r) = n /\ r[n] = d
      /\ \A i \in 1 .. n : i # n => r[i] = s[i]
    BY <1>1, <1>2, ReplacedLast DEF Changed
<1> HIDE DEF r
<1>4. \A i \in 1 .. n : r[i].name = s[i].name
    BY <1>1, <1>3
<1>5. Names(r) = Names(s)
    BY <1>1, <1>3, <1>4 DEF Names
<1>6. Typed(r)
    BY <1>1, <1>2, <1>3, <1>4, StackedFacts DEF Typed
<1>7. Fitted(r, done)
  <2> SUFFICES ASSUME NEW i \in 1 .. n PROVE Fits(r[i], done)
      BY <1>3 DEF Fitted
  <2>1. CASE i = n
      BY <1>3, <2>1
  <2>2. CASE i # n
    <3>1. Fits(s[i], done)
        BY <1>1, StackedFacts
    <3> QED
        BY <1>3, <2>2, <3>1
  <2> QED
      BY <2>1, <2>2
<1>8. Nesting(r)
  <2> SUFFICES ASSUME NEW i \in 1 .. n, NEW j \in 1 .. n, j = i + 1
               PROVE  r[i].state = "REPO" /\ Head(r[i].repodeps) = r[j].name
      BY <1>3 DEF Nesting
  <2>1. i # n
      BY <1>2
  <2>2. s[i].state = "REPO" /\ Head(s[i].repodeps) = s[j].name
      BY <1>1, StackedFacts
  <2> QED
      BY <1>3, <1>4, <2>1, <2>2
<1>9. Unpacked(r)
    BY <1>1, <1>3, StackedFacts DEF Unpacked
<1>10. Passed(r, past)
  <2> SUFFICES ASSUME unpack, NEW i \in 1 .. n
               PROVE  /\ Elements(requires[r[i].name])
                             \subseteq Elements(r[i].repodeps) \cup past
                                           \cup Names(r)
                      /\ r[i].state # "REPO" => r[i].repodeps = <<>>
      BY <1>3 DEF Passed
  <2>1. /\ Elements(requires[s[i].name])
               \subseteq Elements(s[i].repodeps) \cup past \cup Names(s)
        /\ s[i].state # "REPO" => s[i].repodeps = <<>>
      BY <1>1, StackedFacts
  <2>2. CASE i = n
      BY <1>1, <1>3, <1>4, <1>5, <2>1, <2>2
  <2>3. CASE i # n
      BY <1>3, <1>5, <2>1, <2>3
  <2> QED
      BY <2>2, <2>3
<1>11. \A i \in 1 .. n : s[i].processed \subseteq r[i].processed
    BY <1>1, <1>3
<1>12. Marked(r)
  <2>1. \A i \in 2 .. n : i \in 1 .. n
      BY <1>2
  <2> QED
      BY <1>1, <1>3, <1>4, <1>11, <2>1, StackedFacts DEF Marked
<1>13. Apart(r)
  <2>1. \A i \in 2 .. n : i \in 1 .. n
      BY <1>2
  <2> QED
      BY <1>1, <1>3, <1>4, <2>1, StackedFacts DEF Apart
<1>14. Known(r, past)
  <2>1. \A i \in 1 .. n : s[i].processed \subseteq past \cup Names(s)
      BY <1>1, StackedFacts
  <2>2. \A i \in 1 .. n : r[i].processed \subseteq past \cup Names(r)
      BY <1>1, <1>3, <1>5, <2>1
  <2> QED
      BY <1>3, <2>2 DEF Known
<1>15. Stacked(r, past, done)
    BY <1>6, <1>7, <1>8, <1>9, <1>10, <1>12, <1>13, <1>14 DEF Stacked
<1> QED
    BY <1>1, <1>3, <1>4, <1>5, <1>15 DEF r

LEMMA DataFits ==
    ASSUME requires \in Graphs, NEW t \in Tasks, NEW soft \in Seq(Packages),
           NEW processed \in SUBSET Tasks,
           NEW state, state \in {"REPO", "RPM"}, NEW done
    PROVE  LET d == Handler(Data(t, state, soft, processed))
           IN /\ d \in Record /\ d.name = t /\ d.repodeps = requires[t]
              /\ d.processed = processed /\ Fits(d, done)
              /\ state = "REPO" /\ d.state # "REPO" => d.repodeps = <<>>
              /\ state = "RPM" => d.state # "REPO"
<1> DEFINE e == Data(t, state, soft, processed)
<1>1. Hard[t] \in Seq(Packages) /\ requires[t] \in Seq(Tasks)
  <2>1. requires \in [Tasks -> Seq(Tasks)]
      BY DependencyAssumption
  <2> QED
      BY <2>1, HardTypes
<1>2. /\ e \in Record /\ e.state = state /\ e.name = t
      /\ e.dependencies = Hard[t] /\ e.repodeps = requires[t]
      /\ e.processed = processed
    BY <1>1 DEF Data, Record
<1> HIDE DEF e
<1>3. CASE state = "REPO"
  <2>1. /\ Keeps(e, Handler(e)) /\ Fits(Handler(e), done)
        /\ Handler(e).state # "REPO" => Handler(e).repodeps = <<>>
      BY <1>2, <1>3, HandlerRepoFits
  <2> QED
      BY <1>2, <1>3, <2>1 DEF Keeps, e
<1>4. CASE state = "RPM"
  <2>1. Handler(e) = Rpm(e)
      BY <1>2, <1>4 DEF Handler
  <2>2. Keeps(e, Rpm(e)) /\ Fits(Rpm(e), done) /\ Rpm(e).state # "REPO"
      BY <1>2, RpmFits
  <2> QED
      BY <1>2, <1>4, <2>1, <2>2 DEF Keeps, e
<1> QED
    BY <1>3, <1>4

(* The innermost of s is at t, which it met now.                           *)
AtCursor(s, t) ==
    /\ s[Len(s)].state = "REPO" /\ Head(s[Len(s)].repodeps) = t
    /\ t \in s[Len(s)].processed /\ \A i \in 2 .. Len(s) : s[i].name # t

(* A copy is added for the repodep at the cursor of the innermost.         *)
LEMMA Entered ==
    ASSUME requires \in Graphs, unpack, NEW s, NEW past, NEW done,
           NEW t \in Tasks, Stacked(s, past \cup {t}, done), AtCursor(s, t)
    PROVE  LET r == Append(s, Handler(Nested(t, s)))
           IN /\ Stacked(r, past, done) /\ Names(r) = Names(s) \cup {t}
<1>0. /\ s[Len(s)].state = "REPO" /\ Head(s[Len(s)].repodeps) = t
      /\ t \in s[Len(s)].processed /\ \A i \in 2 .. Len(s) : s[i].name # t
    BY DEF AtCursor
<1> USE <1>0
<1> DEFINE d == Handler(Nested(t, s))
           r == Append(s, d)
<1>1. PICK n : n = Len(s)
    OBVIOUS
<1>2. /\ s \in Seq(Record) /\ s # <<>> /\ n \in Nat \ {0} /\ s[n] \in Record
      /\ 1 \in 1 .. n /\ n \in 1 .. n
    BY <1>1, StackedFacts, LastRecord
<1>3. s[n].soft \in Seq(Packages) /\ s[n].processed \in SUBSET Tasks
    BY <1>2 DEF Record
<1>4. Nested(t, s) = Data(t, "REPO", s[n].soft, s[n].processed)
    BY <1>1 DEF Nested
<1>5. /\ d \in Record /\ d.name = t /\ d.repodeps = requires[t]
      /\ d.processed = s[n].processed /\ Fits(d, done)
      /\ d.state # "REPO" => d.repodeps = <<>>
  <2>1. PICK soft, processed, state :
            /\ soft = s[n].soft /\ processed = s[n].processed /\ state = "REPO"
      OBVIOUS
  <2>2. d = Handler(Data(t, state, soft, processed))
      BY <1>4, <2>1
  <2>3. /\ soft \in Seq(Packages) /\ processed \in SUBSET Tasks
        /\ state \in {"REPO", "RPM"}
      BY <1>3, <2>1
  <2> HIDE DEF d
  <2>4. /\ d \in Record /\ d.name = t /\ d.repodeps = requires[t]
        /\ d.processed = processed /\ Fits(d, done)
        /\ state = "REPO" /\ d.state # "REPO" => d.repodeps = <<>>
      BY <2>2, <2>3, DataFits, SMTT(30)
  <2> QED
      BY <2>1, <2>4
<1> HIDE DEF d
<1>6. /\ r \in Seq(Record) /\ r # <<>> /\ Len(r) = n + 1 /\ r[n + 1] = d
      /\ \A i \in 1 .. n : r[i] = s[i]
    BY <1>1, <1>2, <1>5, AppendedLast
<1> HIDE DEF r
<1>7. \A i \in 1 .. n + 1 : i \in 1 .. n \/ i = n + 1
    BY <1>2
<1>8. n + 1 \in 1 .. n + 1 /\ \A i \in 1 .. n : i \in 1 .. n + 1
    BY <1>2
<1>9. Names(r) = Names(s) \cup {t}
  <2>1. Names(r) \subseteq Names(s) \cup {t}
      BY <1>1, <1>5, <1>6, <1>7 DEF Names
  <2>2. t \in Names(r)
      BY <1>5, <1>6, <1>8 DEF Names
  <2>3. Names(s) \subseteq Names(r)
      BY <1>1, <1>6, <1>8 DEF Names
  <2> QED
      BY <2>1, <2>2, <2>3
<1>10. Typed(r)
    BY <1>2, <1>6, StackedFacts DEF Typed
<1>11. Fitted(r, done)
  <2>1. \A i \in 1 .. n + 1 : Fits(r[i], done)
      BY <1>1, <1>5, <1>6, <1>7, StackedFacts
  <2> QED
      BY <1>6, <2>1 DEF Fitted
<1>12. Nesting(r)
  <2> SUFFICES ASSUME NEW i \in 1 .. n + 1, NEW j \in 1 .. n + 1, j = i + 1
               PROVE  r[i].state = "REPO" /\ Head(r[i].repodeps) = r[j].name
      BY <1>6 DEF Nesting
  <2>1. CASE i = n
    <3>1. j = n + 1 /\ r[i] = s[n] /\ r[j] = d
        BY <1>2, <1>6, <2>1
    <3> QED
        BY <1>1, <1>5, <3>1
  <2>2. CASE i # n
    <3>1. i \in 1 .. n /\ j \in 1 .. n
        BY <1>2, <2>2
    <3>2. s[i].state = "REPO" /\ Head(s[i].repodeps) = s[j].name
        BY <1>1, <3>1, StackedFacts
    <3> QED
        BY <1>6, <3>1, <3>2
  <2> QED
      BY <2>1, <2>2
<1>13. Unpacked(r)
    BY DEF Unpacked
<1>14. Passed(r, past)
  <2> SUFFICES ASSUME NEW i \in 1 .. n + 1
               PROVE  /\ Elements(requires[r[i].name])
                             \subseteq Elements(r[i].repodeps) \cup past
                                           \cup Names(r)
                      /\ r[i].state # "REPO" => r[i].repodeps = <<>>
      BY <1>6 DEF Passed
  <2>1. CASE i = n + 1
      BY <1>5, <1>6, <2>1
  <2>2. CASE i \in 1 .. n
    <3>1. /\ Elements(requires[s[i].name])
                 \subseteq Elements(s[i].repodeps) \cup (past \cup {t})
                               \cup Names(s)
          /\ s[i].state # "REPO" => s[i].repodeps = <<>>
        BY <1>1, <2>2, StackedFacts
    <3> QED
        BY <1>6, <1>9, <2>2, <3>1
  <2> QED
      BY <1>7, <2>1, <2>2
<1>15. Marked(r)
  <2> SUFFICES ASSUME NEW i \in 2 .. n + 1, NEW j \in 1 .. n + 1, i <= j + 1
               PROVE  r[i].name \in r[j].processed
      BY <1>6 DEF Marked
  <2>1. PICK h : h = IF j = n + 1 THEN n ELSE j
      OBVIOUS
  <2>2. h \in 1 .. n /\ r[j].processed = s[h].processed
      BY <1>2, <1>5, <1>6, <1>7, <2>1
  <2>3. CASE i = n + 1
    <3>1. h = n
        BY <1>2, <2>1, <2>3
    <3> QED
        BY <1>1, <1>5, <1>6, <2>2, <2>3, <3>1
  <2>4. CASE i # n + 1
    <3>1. i \in 2 .. n /\ i \in 1 .. n /\ i <= h + 1
        BY <1>2, <2>1, <2>4
    <3>2. s[i].name \in s[h].processed
        BY <1>1, <2>2, <3>1, StackedFacts
    <3> QED
        BY <1>6, <2>2, <3>1, <3>2
  <2> QED
      BY <2>3, <2>4
<1>16. Apart(r)
  <2> SUFFICES ASSUME NEW i \in 2 .. n + 1, NEW j \in 2 .. n + 1,
                      r[i].name = r[j].name
               PROVE  i = j
      BY <1>6 DEF Apart
  <2>1. \A h \in 2 .. n + 1 : h = n + 1 \/ (h \in 2 .. n /\ h \in 1 .. n)
      BY <1>2
  <2>2. \A h \in 2 .. n : h \in 1 .. n /\ r[h].name # t
      BY <1>1, <1>2, <1>6, <2>1
  <2>3. r[n + 1].name = t
      BY <1>5, <1>6
  <2>4. i \in 2 .. n /\ j \in 2 .. n => i = j
    <3> SUFFICES ASSUME i \in 2 .. n, j \in 2 .. n PROVE i = j
        OBVIOUS
    <3>1. r[i] = s[i] /\ r[j] = s[j]
        BY <1>6, <2>2
    <3> QED
        BY <1>1, <3>1, StackedFacts
  <2> QED
      BY <2>1, <2>2, <2>3, <2>4
<1>17. Known(r, past)
  <2>1. \A i \in 1 .. n : s[i].processed \subseteq (past \cup {t}) \cup Names(s)
      BY <1>1, StackedFacts
  <2>2. \A i \in 1 .. n + 1 : r[i].processed \subseteq past \cup Names(r)
      BY <1>2, <1>5, <1>6, <1>7, <1>9, <2>1
  <2> QED
      BY <1>6, <2>2 DEF Known
<1>18. Stacked(r, past, done)
    BY <1>10, <1>11, <1>12, <1>13, <1>14, <1>15, <1>16, <1>17 DEF Stacked
<1> QED
    BY <1>9, <1>18 DEF r, d

-----------------------------------------------------------------------------
(* The steps.                                                              *)
LEMMA Gone ==
    ASSUME NEW s, NEW without, NEW done,
           Stacked(s, complete \cup without, done), GoOn(s, without)
    PROVE  /\ Left(s, complete \cup without, done, stack', complete')
           /\ \/ stack' = <<>> /\ op' = "none" /\ result' = "ok"
              \/ /\ Stacked(stack', complete', done) /\ UNCHANGED result
                 /\ stack'[Len(stack')].state # "DONE"
                 /\ op' = Started(stack'[Len(stack')])
           /\ complete' \subseteq complete \cup without \cup Names(s)
<1> DEFINE past == complete \cup without
           busy == {i \in 1 .. Len(s) : Back(s, i).state # "DONE"}
           k == CHOOSE i \in busy : \A j \in busy : j <= i
<1>1. s \in Seq(Record) /\ Len(s) \in Nat \ {0}
    BY StackedFacts, LastRecord
<1>2. CASE busy = {}
  <2>1. /\ stack' = <<>> /\ op' = "none" /\ result' = "ok"
        /\ complete' = past \cup {s[i].name : i \in 1 .. Len(s)}
      BY <1>2 DEF GoOn, Back
  <2>2. complete' = past \cup Names(s)
      BY <2>1 DEF Names
  <2> HIDE DEF past
  <2>3. \A i \in 1 .. Len(s) :
            /\ AllSettled(s[i].name, done)
            /\ unpack => Elements(requires[s[i].name]) \subseteq complete'
    <3> TAKE i \in 1 .. Len(s)
    <3>1. Back(s, i).state = "DONE"
        BY <1>2
    <3> QED
        BY <2>2, <3>1, BackDone DEF past
  <2>4. Left(s, past, done, stack', complete')
      BY <2>2, <2>3 DEF Left
  <2> QED
      BY <2>1, <2>2, <2>4 DEF past
<1>3. CASE busy # {}
  <2>1. k \in busy /\ \A j \in busy : j <= k
    <3>1. busy \in SUBSET (1 .. Len(s)) /\ Len(s) \in Nat
        BY <1>1
    <3> HIDE DEF busy
    <3>2. \E i \in busy : \A j \in busy : j <= i
        BY <1>3, <3>1, Greatest
    <3> QED
        BY <3>2
  <2>2. /\ stack' = Shortened(s, k, Back(s, k))
        /\ op' = Started(Back(s, k))
        /\ complete' = past \cup {s[i].name : i \in k + 1 .. Len(s)}
        /\ UNCHANGED result
      BY <1>3 DEF GoOn, Back, Shortened
  <2> HIDE DEF k
  <2>3. /\ k \in 1 .. Len(s) /\ Back(s, k).state # "DONE"
        /\ \A i \in 1 .. Len(s) : i <= k \/ Back(s, i).state = "DONE"
      BY <2>1
  <2> HIDE DEF busy, past
  <2>4. Stacked(s, past, done)
      BY DEF past
  <2>5. PICK to, more : to = stack' /\ more = complete'
      OBVIOUS
  <2>6. /\ Stacked(to, more, done) /\ to[Len(to)] = Back(s, k)
        /\ Left(s, past, done, to, more)
    <3>1. PICK at, before : at = k /\ before = past
        OBVIOUS
    <3>2. PICK ended : ended = {s[i].name : i \in at + 1 .. Len(s)}
        OBVIOUS
    <3>3. Ending(s, at, ended)
      <4>1. \A i \in at + 1 .. Len(s) : s[i].name \in Names(s)
          BY <1>1, <2>3, <3>1, NamesOf
      <4>2. ended \subseteq Names(s) /\ \A i \in at + 1 .. Len(s) : s[i].name \in ended
          BY <3>2, <4>1
      <4> QED
          BY <2>3, <3>1, <4>2 DEF Ending
    <3>4. to = Shortened(s, at, Back(s, at)) /\ more = before \cup ended
        BY <2>2, <2>5, <3>1, <3>2
    <3>5. Stacked(s, before, done)
        BY <2>4, <3>1
    <3>6. /\ Stacked(to, more, done) /\ to[Len(to)] = Back(s, at)
          /\ Left(s, before, done, to, more)
        BY <3>3, <3>4, <3>5, Cut
    <3> QED
        BY <3>1, <3>6
  <2>7. complete' \subseteq past \cup Names(s)
    <3>1. \A i \in k + 1 .. Len(s) : s[i].name \in Names(s)
        BY <1>1, <2>3, NamesOf
    <3> QED
        BY <2>2, <3>1
  <2> QED
      BY <2>2, <2>3, <2>5, <2>6, <2>7 DEF past
<1> QED
    BY <1>2, <1>3

LEMMA StackType ==
    ASSUME NEW s, NEW past, NEW done, Stacked(s, past, done),
           s[Len(s)].state # "DONE"
    PROVE  s \in Seq(DataType)
<1>1. s \in Seq(Record) /\ Len(s) \in Nat \ {0} /\ s \in [1 .. Len(s) -> Record]
    BY StackedFacts, LastRecord, LenProperties
<1>2. ASSUME NEW i \in 1 .. Len(s)
      PROVE  s[i] \in DataType
  <2>1. s[i].state # "DONE"
    <3>1. CASE i = Len(s)
        BY <3>1
    <3>2. CASE i # Len(s)
      <4>1. Len(s) \in Nat \ {0}
          BY <1>1
      <4>2. i + 1 \in 1 .. Len(s)
          BY <3>2, <4>1
      <4>3. s[i].state = "REPO"
          BY <4>2, StackedFacts
      <4> QED
          BY <4>3
    <3> QED
        BY <3>1, <3>2
  <2> QED
      BY <1>1, <2>1 DEF Record, DataType
<1>3. s \in [1 .. Len(s) -> DataType]
    BY <1>1, <1>2
<1> QED
    BY <1>1, <1>3, SeqDef

LEMMA TypeFacts ==
    ASSUME IInv
    PROVE  /\ requires \in Graphs /\ unpack \in BOOLEAN /\ compat \in BOOLEAN
           /\ stack \in Seq(DataType)
           /\ op \in {"start", "none", "fetch"} \cup Commands
           /\ cancelled \in BOOLEAN /\ result \in {"none", "ok", "error"}
           /\ read \subseteq Tasks /\ settled \subseteq Tasks \X Packages
           /\ complete \subseteq Tasks /\ cause \in BOOLEAN
BY DEF IInv, TypeOK

LEMMA RecordNames ==
    ASSUME NEW s \in Seq(Record)
    PROVE  Names(s) \subseteq Tasks
<1>1. \A i \in 1 .. Len(s) : s[i] \in Record
    BY ElementOfSeq, LenProperties
<1> QED
    BY <1>1 DEF Names, Record

LEMMA NoNames == Names(<<>>) = {}
<1>1. \A i : ~(i \in 1 .. Len(<<>>))
    OBVIOUS
<1> QED
    BY <1>1 DEF Names

LEMMA StartedOp ==
    ASSUME NEW d
    PROVE  Started(d) \in {"fetch", "remove", "install", "single", "soft"}
BY DEF Started

(* A callback goes on: what it needs to show of the copies it goes on with.*)
LEMMA Resumed ==
    ASSUME IInv, op # "none", NEW s, NEW without \in SUBSET Tasks,
           Stacked(s, complete \cup without, settled'), GoOn(s, without),
           settled \subseteq settled', settled' \subseteq Tasks \X Packages,
           read \subseteq read', read' \subseteq read \cup Names(s),
           Names(stack) \subseteq Names(s),
           Awaited \subseteq without \cup Names(s),
           cause' \in BOOLEAN, cause => cause', UNCHANGED <<given, cancelled>>
    PROVE  IInv'
<1> DEFINE past == complete \cup without
<1>0. /\ requires' = requires /\ unpack' = unpack /\ compat' = compat
      /\ cancelled' = cancelled
    BY DEF given
<1>1. /\ Left(s, past, settled', stack', complete')
      /\ \/ stack' = <<>> /\ op' = "none" /\ result' = "ok"
         \/ /\ Stacked(stack', complete', settled') /\ UNCHANGED result
            /\ stack'[Len(stack')].state # "DONE"
            /\ op' = Started(stack'[Len(stack')])
      /\ complete' \subseteq complete \cup without \cup Names(s)
    BY Gone
<1>2. Names(s) \subseteq Tasks /\ s \in Seq(Record) /\ Main \in Names(s)
  <2>1. s \in Seq(Record) /\ s[1].name = Main /\ s # <<>>
      BY StackedFacts
  <2>2. 1 \in 1 .. Len(s)
      BY <2>1, LastRecord
  <2> QED
      BY <2>1, <2>2, NamesOf, RecordNames
<1>3. result = "none"
    BY DEF IInv, Operation
<1>4. op' \in {"none", "fetch", "remove", "install", "single", "soft"}
    BY <1>1, StartedOp
<1>5. Awaited' = {}
    BY <1>4 DEF Awaited
<1>6. TypeOK'
  <2>1. stack' \in Seq(DataType)
    <3>1. CASE stack' = <<>>
        BY <3>1
    <3>2. CASE /\ Stacked(stack', complete', settled')
               /\ stack'[Len(stack')].state # "DONE"
        BY <3>2, StackType
    <3> QED
        BY <1>1, <3>1, <3>2
  <2>2. complete' \subseteq Tasks /\ read' \subseteq Tasks
      BY <1>1, <1>2, TypeFacts
  <2>3. op' \in {"start", "none", "fetch"} \cup Commands
      BY <1>4 DEF Commands
  <2>4. result' \in {"none", "ok", "error"}
      BY <1>1, <1>3
  <2> QED
      BY <1>0, <2>1, <2>2, <2>3, <2>4, TypeFacts DEF TypeOK
<1>7. Causes'
  <2>1. result' # "error"
      BY <1>1, <1>3
  <2> QED
      BY <1>0, <2>1 DEF IInv, Causes
<1>8. Operation'
  <2>1. CASE stack' = <<>> /\ op' = "none" /\ result' = "ok"
      BY <2>1 DEF Operation
  <2>2. CASE /\ Stacked(stack', complete', settled') /\ UNCHANGED result
             /\ stack'[Len(stack')].state # "DONE"
             /\ op' = Started(stack'[Len(stack')])
    <3>1. stack' # <<>>
        BY <2>2, StackedFacts
    <3>2. op' \in {"fetch", "remove", "install", "single", "soft"}
        BY <2>2, StartedOp
    <3>3. Stacked(stack, complete \cup Awaited, settled)'
      <4>1. complete' \cup Awaited' = complete'
          BY <1>5
      <4>2. Stacked(stack', complete' \cup Awaited', settled')
          BY <2>2, <4>1
      <4> QED
          BY <1>0, <4>2 DEF Stacked, Typed, Fitted, Nesting, Unpacked, Passed,
                            Marked, Apart, Known
    <3>4. /\ Top'.state # "DONE" /\ op' = Started(Top') /\ Started(Top)' = Started(Top')
        BY <2>2 DEF Top, Started
    <3>5. op' \notin {"start", "none", "metadata"} /\ result' = "none"
        BY <1>3, <2>2, <3>2
    <3> QED
        BY <3>1, <3>3, <3>4, <3>5 DEF Operation
  <2> QED
      BY <1>1, <2>1, <2>2
<1>9. Reads'
  <2> SUFFICES ASSUME NEW t \in read', t \notin Names(stack')
               PROVE  Finished(t)'
      BY DEF Reads
  <2>1. CASE t \in Names(s)
    <3>1. PICK i \in 1 .. Len(s) : t = s[i].name
        BY <2>1 DEF Names
    <3>2. /\ AllSettled(t, settled')
          /\ unpack => Elements(requires[t]) \subseteq complete' \cup Names(stack')
        BY <1>1, <3>1 DEF Left
    <3> QED
        BY <1>0, <3>2 DEF Finished
  <2>2. CASE t \notin Names(s)
    <3>1. t \in read /\ op # "start" /\ t \notin Names(stack)
        BY <1>2, <2>2 DEF IInv, Operation
    <3>2. Finished(t)
        BY <1>3, <3>1 DEF IInv, Reads
    <3>3. AllSettled(t, settled')
        BY <3>2 DEF Finished, AllSettled
    <3>4. past \cup Names(s) \subseteq complete' \cup Names(stack')
        BY <1>1 DEF Left
    <3>5. unpack => Elements(requires[t]) \subseteq complete' \cup Names(stack')
        BY <3>2, <3>4 DEF Finished
    <3> QED
        BY <1>0, <3>3, <3>5 DEF Finished
  <2> QED
      BY <2>1, <2>2
<1> QED
    BY <1>6, <1>7, <1>8, <1>9 DEF IInv

(* finish_cb with an error.                                                *)
LEMMA Failed ==
    ASSUME IInv, Fail, cause' = TRUE, UNCHANGED <<given, cancelled, read, settled>>
    PROVE  IInv'
<1>1. /\ stack' = <<>> /\ op' = "none" /\ result' = "error"
      /\ complete' = complete
    BY DEF Fail
<1>2. /\ requires' = requires /\ unpack' = unpack /\ compat' = compat
      /\ cancelled' = cancelled /\ read' = read /\ settled' = settled
    BY DEF given
<1>3. TypeOK'
    BY <1>1, <1>2, TypeFacts DEF TypeOK
<1>4. Causes' /\ Reads'
    BY <1>1 DEF Causes, Reads
<1>5. Operation'
    BY <1>1 DEF Operation
<1> QED
    BY <1>3, <1>4, <1>5 DEF IInv

(* The innermost copy, while something is under way.                       *)
LEMMA TopFacts ==
    ASSUME IInv, op \notin {"start", "none"}
    PROVE  /\ Stacked(stack, complete \cup Awaited, settled)
           /\ stack \in Seq(Record) /\ Len(stack) \in 1 .. Len(stack)
           /\ Top \in Record /\ Top = stack[Len(stack)] /\ Fits(Top, settled)
           /\ Top.state # "DONE" /\ result = "none" /\ Top.name \in Names(stack)
           /\ op # "metadata" => op = Started(Top) /\ Awaited = {}
           /\ ~unpack => Top.state # "REPO"
           /\ unpack /\ Top.state # "REPO" => Top.repodeps = <<>>
           /\ Top.processed \subseteq complete \cup Awaited \cup Names(stack)
<1>1. stack # <<>> /\ result = "none"
    BY DEF IInv, Operation
<1>2. /\ Stacked(stack, complete \cup Awaited, settled)
      /\ Top.state # "DONE" /\ (op # "metadata" => op = Started(Top))
    BY <1>1 DEF IInv, Operation
<1>3. op # "metadata" => Awaited = {}
    BY DEF Awaited
<1>4. PICK past : past = complete \cup Awaited
    OBVIOUS
<1>5. Stacked(stack, past, settled)
    BY <1>2, <1>4
<1>6. stack \in Seq(Record) /\ Len(stack) \in 1 .. Len(stack) /\ Len(stack) \in Nat
    BY <1>5, StackedFacts, LastRecord
<1>7. PICK n : n = Len(stack)
    OBVIOUS
<1>8. /\ stack[n] \in Record /\ Fits(stack[n], settled)
      /\ unpack /\ stack[n].state # "REPO" => stack[n].repodeps = <<>>
      /\ stack[n].processed \subseteq past \cup Names(stack)
    BY <1>5, <1>6, <1>7, StackedFacts
<1>9. ~unpack => stack[n].state # "REPO"
    BY <1>5, <1>7, StackedFacts
<1>10. stack[n].name \in Names(stack)
    BY <1>6, <1>7, NamesOf
<1> QED
    BY <1>1, <1>2, <1>3, <1>4, <1>6, <1>7, <1>8, <1>9, <1>10 DEF Top

(* A callback that changes the innermost copy to d, and goes on.           *)
LEMMA Replacing ==
    ASSUME IInv, op \notin {"start", "none"}, NEW without \in SUBSET Tasks,
           NEW d \in Record, d.name = Top.name, Fits(d, settled'),
           Awaited \subseteq without, Top.processed \subseteq d.processed,
           d.processed \subseteq complete \cup without \cup Names(stack),
           ~unpack => d.state # "REPO",
           unpack => /\ Elements(Top.repodeps)
                            \subseteq Elements(d.repodeps) \cup complete
                                          \cup without \cup Names(stack)
                     /\ d.state # "REPO" => d.repodeps = <<>>,
           NEW s, s = InTop(d), GoOn(s, without),
           settled \subseteq settled', settled' \subseteq Tasks \X Packages,
           read' = read, cause' \in BOOLEAN, cause => cause',
           UNCHANGED <<given, cancelled>>
    PROVE  IInv'
<1>1. PICK past, past2 : past = complete \cup Awaited /\ past2 = complete \cup without
    OBVIOUS
<1>2. PICK done2 : done2 = settled'
    OBVIOUS
<1>3. Stacked(stack, past, settled) /\ Top = stack[Len(stack)]
    BY <1>1, TopFacts
<1>4. past \subseteq past2 /\ settled \subseteq done2 /\ Fits(d, done2)
    BY <1>1, <1>2
<1>5. /\ d.name = stack[Len(stack)].name
      /\ stack[Len(stack)].processed \subseteq d.processed
      /\ d.processed \subseteq past2 \cup Names(stack)
    BY <1>1, <1>3
<1>6. unpack => /\ Elements(stack[Len(stack)].repodeps)
                       \subseteq Elements(d.repodeps) \cup past2 \cup Names(stack)
                /\ d.state # "REPO" => d.repodeps = <<>>
    BY <1>1, <1>3
<1>7. LET r == Changed(stack, d)
      IN Stacked(r, past2, done2) /\ Names(r) = Names(stack)
  <2>1. Replaces(stack, d, past2, done2)
      BY <1>4, <1>5, <1>6 DEF Replaces
  <2>2. Stacked(stack, past2, done2)
      BY <1>3, <1>4, Grown
  <2> QED
      BY <2>1, <2>2, Replaced
<1>8. Stacked(s, past2, done2) /\ Names(s) = Names(stack)
    BY <1>7 DEF InTop, Changed
<1>9. Stacked(s, complete \cup without, settled')
    BY <1>1, <1>2, <1>8
<1>10. op # "none" /\ Names(stack) \subseteq Names(s) /\ read \subseteq read'
       /\ read' \subseteq read \cup Names(s)
       /\ Awaited \subseteq without \cup Names(s)
    BY <1>8
<1> QED
    BY <1>9, <1>10, Resumed

-----------------------------------------------------------------------------
(* The callbacks.                                                          *)
LEMMA FirstCopy ==
    ASSUME NEW d \in Record, NEW past, NEW done, Fits(d, done), d.name = Main,
           d.processed = {}, ~unpack => d.state # "REPO",
           unpack => /\ d.repodeps = requires[Main]
                     /\ d.state # "REPO" => d.repodeps = <<>>
    PROVE  Stacked(<<d>>, past, done) /\ Names(<<d>>) = {Main}
<1>1. PICK s : s = <<d>>
    OBVIOUS
<1>2. s \in Seq(Record) /\ s # <<>> /\ Len(s) = 1 /\ s[1] = d
    BY <1>1
<1> HIDE <1>1
<1>3. \A i \in 1 .. Len(s) : i = 1
    BY <1>2
<1>4. \A i \in 2 .. Len(s) : FALSE
    BY <1>2
<1>5. Typed(s) /\ Fitted(s, done) /\ Unpacked(s)
    BY <1>2, <1>3 DEF Typed, Fitted, Unpacked
<1>6. Nesting(s)
  <2>1. \A i \in 1 .. Len(s), j \in 1 .. Len(s) : j # i + 1
      BY <1>3
  <2> QED
      BY <2>1 DEF Nesting
<1>7. Passed(s, past)
    BY <1>2, <1>3 DEF Passed
<1>8. Marked(s) /\ Apart(s)
    BY <1>4 DEF Marked, Apart
<1>9. Known(s, past)
    BY <1>2, <1>3 DEF Known
<1>10. Names(s) = {Main}
    BY <1>2, <1>3 DEF Names
<1> QED
    BY <1>1, <1>5, <1>6, <1>7, <1>8, <1>9, <1>10 DEF Stacked

LEMMA InstallStep ==
    ASSUME IInv, InstallDependencies
    PROVE  IInv'
<1>1. PICK state : state = FirstState
    OBVIOUS
<1>2. PICK d : d = Handler(Data(Main, state, Soft, {}))
    OBVIOUS
<1>3. /\ op = "start" /\ GoOn(<<d>>, {})
      /\ UNCHANGED <<given, cancelled, read, settled, cause>>
    BY <1>1, <1>2 DEF InstallDependencies
<1>4. stack = <<>> /\ read = {Main} /\ Awaited = {} /\ Names(stack) = {}
    BY <1>3, NoNames DEF IInv, Operation, Awaited
<1>5. state \in {"REPO", "RPM"} /\ (unpack => state = "REPO")
      /\ (~unpack => state = "RPM")
    BY <1>1 DEF FirstState
<1>6. /\ d \in Record /\ d.name = Main /\ d.repodeps = requires[Main]
      /\ d.processed = {} /\ Fits(d, settled)
      /\ state = "REPO" /\ d.state # "REPO" => d.repodeps = <<>>
      /\ state = "RPM" => d.state # "REPO"
  <2>1. PICK t, soft, none : t = Main /\ soft = Soft /\ none = {}
      OBVIOUS
  <2>2. /\ t \in Tasks /\ soft \in Seq(Packages) /\ none \in SUBSET Tasks
        /\ requires \in Graphs /\ state \in {"REPO", "RPM"}
      BY <1>5, <2>1, DependencyAssumption, TypeFacts
  <2>3. d = Handler(Data(t, state, soft, none))
      BY <1>2, <2>1
  <2>4. /\ d \in Record /\ d.name = t /\ d.repodeps = requires[t]
        /\ d.processed = none /\ Fits(d, settled)
        /\ state = "REPO" /\ d.state # "REPO" => d.repodeps = <<>>
        /\ state = "RPM" => d.state # "REPO"
      BY <2>2, <2>3, DataFits, SMTT(30)
  <2> QED
      BY <2>1, <2>4
<1>7. Stacked(<<d>>, complete \cup {}, settled) /\ Names(<<d>>) = {Main}
  <2>1. PICK past : past = complete \cup {}
      OBVIOUS
  <2>2. ~unpack => d.state # "REPO"
      BY <1>5, <1>6
  <2>3. unpack => d.repodeps = requires[Main] /\ (d.state # "REPO" => d.repodeps = <<>>)
      BY <1>5, <1>6
  <2>4. Stacked(<<d>>, past, settled) /\ Names(<<d>>) = {Main}
      BY <1>6, <2>2, <2>3, FirstCopy
  <2> QED
      BY <2>1, <2>4
<1>8. PICK s, without : s = <<d>> /\ without = {}
    OBVIOUS
<1>9. /\ Stacked(s, complete \cup without, settled') /\ GoOn(s, without)
      /\ without \in SUBSET Tasks /\ op # "none"
      /\ settled \subseteq settled' /\ settled' \subseteq Tasks \X Packages
      /\ read \subseteq read' /\ read' \subseteq read \cup Names(s)
      /\ Names(stack) \subseteq Names(s) /\ Awaited \subseteq without \cup Names(s)
      /\ cause' \in BOOLEAN /\ (cause => cause')
      /\ UNCHANGED <<given, cancelled>>
    BY <1>3, <1>4, <1>7, <1>8, TypeFacts
<1> QED
    BY <1>9, Resumed

(* The metadata of t, at the cursor of the innermost of s.                 *)
LEMMA MetadataStep ==
    ASSUME IInv, op \notin {"start", "none"}, unpack,
           NEW s, NEW t, Stacked(s, complete \cup {t}, settled),
           Names(s) = Names(stack), Awaited \subseteq {t},
           AtCursor(s, t),
           NEW outcome \in {"parsed", "unreadable", "missing"},
           Metadata(s, outcome), UNCHANGED <<given, cancelled, settled>>
    PROVE  IInv'
<1>0. s[Len(s)].state = "REPO" /\ Head(s[Len(s)].repodeps) = t
    BY DEF AtCursor
<1>1. PICK past : past = complete \cup {t}
    OBVIOUS
<1>2. PICK last : last = s[Len(s)]
    OBVIOUS
<1>3. Stacked(s, past, settled)
    BY <1>1
<1>4. /\ last \in Record /\ Fits(last, settled)
      /\ last.processed \subseteq past \cup Names(s)
      /\ Elements(requires[last.name])
             \subseteq Elements(last.repodeps) \cup past \cup Names(s)
  <2>1. Len(s) \in 1 .. Len(s)
      BY <1>3, StackedFacts, LastRecord
  <2> QED
      BY <1>2, <1>3, <2>1, StackedFacts
<1>5. last.repodeps # <<>> /\ t \in Tasks
  <2>1. last.repodeps # <<>>
      BY <1>0, <1>2, <1>4 DEF Fits
  <2>2. last.repodeps \in Seq(Tasks)
      BY <1>4 DEF Record
  <2> QED
      BY <1>0, <1>2, <2>1, <2>2, HeadElement
<1>6. CASE outcome = "parsed"
  <2>1. PICK r : r = Append(s, Handler(Nested(t, s)))
      OBVIOUS
  <2>2. GoOn(r, {}) /\ read' = read \cup {t} /\ cause' = cause
      BY <1>0, <1>6, <2>1 DEF Metadata
  <2>3. Stacked(r, complete, settled) /\ Names(r) = Names(s) \cup {t}
    <3>1. PICK before : before = complete
        OBVIOUS
    <3>2. /\ requires \in Graphs /\ t \in Tasks /\ unpack
          /\ Stacked(s, before \cup {t}, settled)
          /\ AtCursor(s, t)
        BY <1>5, <3>1, TypeFacts
    <3>3. Stacked(r, before, settled) /\ Names(r) = Names(s) \cup {t}
        BY <2>1, <3>2, Entered
    <3> QED
        BY <3>1, <3>3
  <2>4. PICK without : without = {}
      OBVIOUS
  <2>5. complete \cup without = complete
      BY <2>4
  <2>6. /\ Stacked(r, complete \cup without, settled') /\ GoOn(r, without)
        /\ without \in SUBSET Tasks /\ op # "none"
        /\ settled \subseteq settled' /\ settled' \subseteq Tasks \X Packages
        /\ read \subseteq read' /\ read' \subseteq read \cup Names(r)
        /\ Names(stack) \subseteq Names(r) /\ Awaited \subseteq without \cup Names(r)
        /\ cause' \in BOOLEAN /\ (cause => cause')
    <3>1. settled' = settled
        OBVIOUS
    <3> QED
        BY <2>2, <2>3, <2>4, <2>5, <3>1, TypeFacts
  <2> QED
      BY <2>6, Resumed
<1>7. CASE outcome = "unreadable"
  <2>1. Fail /\ cause' = TRUE /\ read' = read
      BY <1>7 DEF Metadata
  <2> QED
      BY <2>1, Failed
<1>8. CASE outcome = "missing"
  <2>1. PICK d : d = NextRepodep(last)
      OBVIOUS
  <2>2. PICK r : r = Changed(s, d)
      OBVIOUS
  <2>3. GoOn(r, {t}) /\ read' = read /\ cause' = cause
      BY <1>0, <1>2, <1>8, <2>1, <2>2 DEF Metadata, Changed
  <2>4. /\ d \in Record /\ d.name = last.name /\ d.processed = last.processed
        /\ Fits(d, settled)
        /\ d.state # "REPO" => d.repodeps = <<>>
        /\ Elements(last.repodeps) \subseteq {t} \cup Elements(d.repodeps)
      BY <1>0, <1>2, <1>4, <1>5, <2>1, NextFits
  <2>5. Stacked(r, past, settled) /\ Names(r) = Names(s)
    <3>1. PICK done : done = settled
        OBVIOUS
    <3>2. /\ d \in Record /\ Fits(d, done)
          /\ d.name = s[Len(s)].name /\ s[Len(s)].processed \subseteq d.processed
          /\ d.processed \subseteq past \cup Names(s)
        BY <1>2, <1>4, <2>4, <3>1
    <3>3. /\ Elements(s[Len(s)].repodeps)
                 \subseteq Elements(d.repodeps) \cup past \cup Names(s)
          /\ d.state # "REPO" => d.repodeps = <<>>
        BY <1>1, <1>2, <2>4
    <3>4. Replaces(s, d, past, done)
        BY <3>2, <3>3 DEF Replaces
    <3>5. Stacked(s, past, done)
        BY <1>3, <3>1
    <3>6. Stacked(r, past, done) /\ Names(r) = Names(s)
        BY <2>2, <3>4, <3>5, Replaced
    <3> QED
        BY <3>1, <3>6
  <2>6. PICK without : without = {t}
      OBVIOUS
  <2>7. /\ Stacked(r, complete \cup without, settled') /\ GoOn(r, without)
        /\ without \in SUBSET Tasks /\ op # "none"
        /\ settled \subseteq settled' /\ settled' \subseteq Tasks \X Packages
        /\ read \subseteq read' /\ read' \subseteq read \cup Names(r)
        /\ Names(stack) \subseteq Names(r) /\ Awaited \subseteq without \cup Names(r)
        /\ cause' \in BOOLEAN /\ (cause => cause')
    <3>1. settled' = settled
        OBVIOUS
    <3> QED
        BY <1>1, <1>5, <2>3, <2>5, <2>6, <3>1, TypeFacts
  <2> QED
      BY <2>7, Resumed
<1> QED
    BY <1>6, <1>7, <1>8

LEMMA FetchTop ==
    ASSUME IInv, op = "fetch"
    PROVE  /\ Top.state = "REPO" /\ unpack /\ Top.repodeps # <<>>
           /\ Top.repodeps \in Seq(Tasks) /\ Head(Top.repodeps) \in Tasks
<1>1. /\ Top \in Record /\ Fits(Top, settled) /\ op = Started(Top)
      /\ (~unpack => Top.state # "REPO")
    BY TopFacts
<1>2. Top.state = "REPO"
    BY <1>1 DEF Started
<1>3. Top.repodeps # <<>> /\ Top.repodeps \in Seq(Tasks)
    BY <1>1, <1>2 DEF Fits, Record
<1>4. Head(Top.repodeps) \in Tasks
    BY <1>3, HeadElement
<1>5. unpack
    BY <1>1, <1>2
<1> QED
    BY <1>2, <1>3, <1>4, <1>5

(* A repodep met for the first time is in processed_deps from now on.      *)
LEMMA NewFacts ==
    ASSUME IInv, op = "fetch", NEW r, r = Head(Top.repodeps),
           r \notin Top.processed,
           NEW new, new = InTop([Top EXCEPT !.processed = @ \cup {r}])
    PROVE  /\ Stacked(new, complete \cup {r}, settled) /\ Names(new) = Names(stack)
           /\ AtCursor(new, r) /\ new[Len(new)].state = "REPO"
<1>1. PICK d : d = [Top EXCEPT !.processed = @ \cup {r}]
    OBVIOUS
<1>2. new = Changed(stack, d)
    BY <1>1 DEF InTop, Changed
<1>3. PICK past, done : past = complete \cup {r} /\ done = settled
    OBVIOUS
<1>4. /\ Stacked(stack, past, done) /\ Top = stack[Len(stack)]
      /\ Top \in Record /\ Fits(Top, done)
      /\ Top.processed \subseteq past \cup Names(stack)
      /\ Top.name \in Names(stack)
  <2>1. /\ Stacked(stack, complete \cup Awaited, settled) /\ Awaited = {}
        /\ Top = stack[Len(stack)] /\ Top \in Record /\ Fits(Top, settled)
        /\ Top.processed \subseteq complete \cup Awaited \cup Names(stack)
        /\ Top.name \in Names(stack)
      BY TopFacts
  <2>2. Stacked(stack, complete, settled) /\ complete \subseteq past
      BY <1>3, <2>1
  <2>3. PICK before : before = complete
      OBVIOUS
  <2>4. Stacked(stack, before, done) /\ before \subseteq past /\ done \subseteq done
      BY <1>3, <2>2, <2>3
  <2>5. Stacked(stack, past, done)
      BY <2>4, Grown
  <2> QED
      BY <1>3, <2>1, <2>2, <2>5
<1>5. unpack /\ Top.state = "REPO" /\ r \in Tasks
    BY FetchTop
<1>6. /\ d \in Record /\ d.name = Top.name /\ d.state = "REPO"
      /\ d.processed = Top.processed \cup {r} /\ d.repodeps = Top.repodeps
      /\ Fits(d, done)
  <2>1. Top.processed \in SUBSET Tasks
      BY <1>4 DEF Record
  <2>2. /\ d \in Record /\ d.name = Top.name /\ d.state = "REPO"
        /\ d.processed = Top.processed \cup {r} /\ d.repodeps = Top.repodeps
        /\ d.dependencies = Top.dependencies
      BY <1>1, <1>4, <1>5, <2>1 DEF Record
  <2> QED
      BY <1>4, <1>5, <2>2 DEF Fits
<1>7. /\ d.name = stack[Len(stack)].name
      /\ stack[Len(stack)].processed \subseteq d.processed
      /\ d.processed \subseteq past \cup Names(stack)
      /\ Elements(stack[Len(stack)].repodeps)
             \subseteq Elements(d.repodeps) \cup past \cup Names(stack)
      /\ d.state = "REPO"
    BY <1>3, <1>4, <1>6
<1>8. Replaces(stack, d, past, done)
    BY <1>5, <1>6, <1>7 DEF Replaces
<1>9. /\ Stacked(new, past, done) /\ Names(new) = Names(stack)
      /\ Len(new) = Len(stack) /\ new[Len(new)] = d
      /\ \A i \in 1 .. Len(stack) : new[i].name = stack[i].name
  <2>1. Stacked(new, past, done) /\ Names(new) = Names(stack)
      BY <1>2, <1>4, <1>8, Replaced
  <2>2. Len(new) = Len(stack) /\ new[Len(new)] = d
      BY <1>2, <1>4, <1>8, Replaced
  <2>3. \A i \in 1 .. Len(stack) : new[i].name = stack[i].name
      BY <1>2, <1>4, <1>8, Replaced
  <2> QED
      BY <2>1, <2>2, <2>3
<1>10. AtCursor(new, r)
  <2>1. ASSUME NEW i \in 2 .. Len(new)
        PROVE  new[i].name # r
    <3>1. PICK n : n = Len(stack)
        OBVIOUS
    <3>2. n \in Nat \ {0} /\ n \in 1 .. n
        BY <1>4, <3>1, StackedFacts, LastRecord
    <3>3. i \in 2 .. n /\ i \in 1 .. n /\ i <= n + 1
        BY <1>9, <3>1, <3>2
    <3>4. stack[i].name \in stack[n].processed
        BY <1>4, <3>1, <3>2, <3>3, StackedFacts
    <3> QED
        BY <1>4, <1>9, <3>1, <3>3, <3>4
  <2>2. Head(new[Len(new)].repodeps) = r /\ r \in new[Len(new)].processed
      BY <1>6, <1>9
  <2> QED
      BY <1>6, <1>9, <2>1, <2>2 DEF AtCursor
<1> QED
    BY <1>3, <1>6, <1>9, <1>10

(* make runs for a repodep that has neither metadata nor testinfo.desc.    *)
LEMMA MakeStep ==
    ASSUME IInv, op = "fetch", NEW r, r = Head(Top.repodeps),
           r \notin Top.processed,
           NEW new, new = InTop([Top EXCEPT !.processed = @ \cup {r}]),
           stack' = new, op' = "metadata",
           UNCHANGED <<given, cancelled, result, read, settled, complete, cause>>
    PROVE  IInv'
<1>1. /\ requires' = requires /\ unpack' = unpack /\ compat' = compat
      /\ cancelled' = cancelled /\ result' = result /\ read' = read
      /\ settled' = settled /\ complete' = complete /\ cause' = cause
    BY DEF given
<1>2. /\ Stacked(new, complete \cup {r}, settled) /\ Names(new) = Names(stack)
      /\ AtCursor(new, r) /\ new[Len(new)].state = "REPO"
    BY NewFacts
<1>3. /\ Head(new[Len(new)].repodeps) = r /\ r \in new[Len(new)].processed
      /\ \A i \in 2 .. Len(new) : new[i].name # r
    BY <1>2 DEF AtCursor
<1>4. PICK past : past = complete \cup {r}
    OBVIOUS
<1>5. new \in Seq(DataType) /\ new # <<>>
  <2>1. Stacked(new, past, settled) /\ new[Len(new)].state # "DONE"
      BY <1>2, <1>4
  <2>2. new \in Seq(DataType)
      BY <2>1, StackType
  <2>3. new # <<>>
      BY <2>1, StackedFacts
  <2> QED
      BY <2>2, <2>3
<1>6. TypeOK'
    BY <1>1, <1>5, TypeFacts DEF TypeOK, Commands
<1>7. Causes'
    BY <1>1 DEF IInv, Causes
<1>8. Top' = new[Len(new)] /\ Awaited' = {r}
    BY <1>3 DEF Top, Awaited
<1>9. result = "none" /\ Awaited = {}
    BY TopFacts
<1>10. Stacked(stack, complete \cup Awaited, settled)'
  <2>1. Stacked(stack', complete' \cup Awaited', settled')
      BY <1>1, <1>2, <1>8
  <2> QED
      BY <1>1, <2>1, ZenonT(30)
         DEF Stacked, Typed, Fitted, Nesting, Unpacked, Passed, Marked,
             Apart, Known
<1>11. Operation'
  <2>1. /\ Top'.state = "REPO" /\ Head(Top'.repodeps) \in Top'.processed
        /\ \A i \in 2 .. Len(stack') : stack'[i].name # Head(Top'.repodeps)
      BY <1>2, <1>3, <1>8
  <2>2. stack' # <<>> /\ op' = "metadata" /\ result' = "none"
      BY <1>1, <1>5, <1>9
  <2> QED
      BY <1>10, <2>1, <2>2 DEF Operation
<1>12. Reads'
  <2> SUFFICES ASSUME NEW t \in read, t \notin Names(new)
               PROVE  Finished(t)'
      BY <1>1 DEF Reads, Names
  <2>1. Finished(t)
      BY <1>2, <1>9 DEF IInv, Reads
  <2>2. AllSettled(t, settled)
      BY <2>1 DEF Finished
  <2>3. unpack => Elements(requires[t]) \subseteq complete \cup {r} \cup Names(new)
      BY <1>2, <1>9, <2>1 DEF Finished
  <2>4. Names(stack)' = Names(new) /\ AllSettled(t, settled)'
      BY <1>1, <2>2 DEF Names, AllSettled
  <2> QED
      BY <1>1, <1>8, <2>3, <2>4 DEF Finished
<1> QED
    BY <1>6, <1>7, <1>11, <1>12 DEF IInv

LEMMA FetchStep ==
    ASSUME IInv, FetchFinished
    PROVE  IInv'
<1>1. PICK r, new : /\ r = Head(Top.repodeps)
                    /\ new = InTop([Top EXCEPT !.processed = @ \cup {r}])
    OBVIOUS
<1>2. op = "fetch" /\ UNCHANGED <<given, cancelled, settled>>
    BY DEF FetchFinished
<1>3. \/ Fail /\ cause' = TRUE /\ read' = read
      \/ /\ r \in Top.processed /\ GoOn(InTop(NextRepodep(Top)), {})
         /\ UNCHANGED <<read, cause>>
      \/ /\ r \notin Top.processed
         /\ \E outcome \in {"parsed", "unreadable"} : Metadata(new, outcome)
      \/ /\ r \notin Top.processed
         /\ stack' = new /\ op' = "metadata"
         /\ UNCHANGED <<result, complete, read, cause>>
    BY <1>1 DEF FetchFinished
<1>4. /\ Top.state = "REPO" /\ unpack /\ Top.repodeps # <<>>
      /\ Top.repodeps \in Seq(Tasks) /\ r \in Tasks
    BY <1>1, <1>2, FetchTop
<1>5. CASE Fail /\ cause' = TRUE /\ read' = read
    BY <1>2, <1>5, Failed
<1>6. CASE /\ r \in Top.processed /\ GoOn(InTop(NextRepodep(Top)), {})
           /\ UNCHANGED <<read, cause>>
  <2>1. PICK d : d = NextRepodep(Top)
      OBVIOUS
  <2>2. PICK s, without : s = InTop(d) /\ without = {}
      OBVIOUS
  <2>3. GoOn(s, without) /\ read' = read /\ cause' = cause /\ settled' = settled
      BY <1>2, <1>6, <2>1, <2>2
  <2>4. /\ Top \in Record /\ Fits(Top, settled) /\ Awaited = {}
        /\ Top.processed \subseteq complete \cup Awaited \cup Names(stack)
      BY <1>2, TopFacts
  <2>5. /\ d \in Record /\ d.name = Top.name /\ d.processed = Top.processed
        /\ Fits(d, settled)
        /\ d.state # "REPO" => d.repodeps = <<>>
        /\ Elements(Top.repodeps) \subseteq {r} \cup Elements(d.repodeps)
      BY <1>1, <1>4, <2>1, <2>4, NextFits
  <2>6. /\ without \in SUBSET Tasks /\ Fits(d, settled') /\ Awaited \subseteq without
        /\ Top.processed \subseteq d.processed
        /\ d.processed \subseteq complete \cup without \cup Names(stack)
        /\ Elements(Top.repodeps) \subseteq Elements(d.repodeps) \cup complete
                                      \cup without \cup Names(stack)
      BY <1>6, <2>2, <2>3, <2>4, <2>5
  <2>7. /\ settled \subseteq settled' /\ settled' \subseteq Tasks \X Packages
        /\ cause' \in BOOLEAN /\ (cause => cause') /\ op \notin {"start", "none"}
      BY <1>2, <2>3, TypeFacts
  <2> QED
      BY <1>2, <1>4, <2>2, <2>3, <2>5, <2>6, <2>7, Replacing
<1>7. CASE /\ r \notin Top.processed
           /\ \E outcome \in {"parsed", "unreadable"} : Metadata(new, outcome)
  <2>1. PICK outcome \in {"parsed", "unreadable", "missing"} : Metadata(new, outcome)
      BY <1>7
  <2>2. /\ Stacked(new, complete \cup {r}, settled) /\ Names(new) = Names(stack)
        /\ AtCursor(new, r) /\ new[Len(new)].state = "REPO"
      BY <1>1, <1>2, <1>7, NewFacts
  <2>3. Awaited \subseteq {r} /\ op \notin {"start", "none"}
      BY <1>2 DEF Awaited
  <2> QED
      BY <1>2, <1>4, <2>1, <2>2, <2>3, MetadataStep
<1>8. CASE /\ r \notin Top.processed
           /\ stack' = new /\ op' = "metadata"
           /\ UNCHANGED <<result, complete, read, cause>>
    BY <1>1, <1>2, <1>8, MakeStep
<1> QED
    BY <1>3, <1>5, <1>6, <1>7, <1>8

LEMMA TestinfoStep ==
    ASSUME IInv, TestinfoMade
    PROVE  IInv'
<1>1. /\ op = "metadata" /\ UNCHANGED <<given, cancelled, settled>>
      /\ \/ cancelled /\ Fail /\ UNCHANGED <<read, cause>>
         \/ \E outcome \in {"parsed", "unreadable", "missing"} :
                Metadata(stack, outcome)
    BY DEF TestinfoMade
<1>2. CASE cancelled /\ Fail /\ UNCHANGED <<read, cause>>
  <2>1. cause' = TRUE
      BY <1>2, TypeFacts DEF IInv, Causes
  <2> QED
      BY <1>1, <1>2, <2>1, Failed
<1>3. CASE \E outcome \in {"parsed", "unreadable", "missing"} :
               Metadata(stack, outcome)
  <2>1. PICK outcome \in {"parsed", "unreadable", "missing"} :
            Metadata(stack, outcome)
      BY <1>3
  <2>2. PICK t : t = Head(Top.repodeps)
      OBVIOUS
  <2>3. /\ Stacked(stack, complete \cup Awaited, settled)
        /\ Top = stack[Len(stack)] /\ (~unpack => Top.state # "REPO")
      BY <1>1, TopFacts
  <2>4. Awaited = {t}
      BY <1>1, <2>2 DEF Awaited
  <2>5. /\ Top.state = "REPO" /\ t \in Top.processed
        /\ \A i \in 2 .. Len(stack) : stack[i].name # t
      BY <1>1, <2>2 DEF IInv, Operation
  <2>6. AtCursor(stack, t) /\ unpack
      BY <2>2, <2>3, <2>5 DEF AtCursor
  <2>7. /\ Stacked(stack, complete \cup {t}, settled) /\ Awaited \subseteq {t}
        /\ Names(stack) = Names(stack) /\ stack[Len(stack)].state = "REPO"
        /\ op \notin {"start", "none"}
      BY <1>1, <2>3, <2>4, <2>5
  <2> QED
      BY <1>1, <2>1, <2>6, <2>7, MetadataStep
<1> QED
    BY <1>1, <1>2, <1>3

(* The packages of a command are dealt with, and the innermost copy goes   *)
(* on as after says.                                                       *)
LEMMA InstalledStep ==
    ASSUME IInv, op \in {"remove", "install", "single"},
           NEW packages \in SUBSET Packages, NEW failed, NEW after,
           Installed(packages, failed, after), read' = read,
           UNCHANGED <<given, cancelled>>,
           NEW done, done = settled \cup {<<Top.name, p>> : p \in packages},
           Keeps(Top, after), Fits(after, done), after.state # "REPO"
    PROVE  IInv'
<1>1. /\ Top \in Record /\ op = Started(Top) /\ Awaited = {}
      /\ Top.processed \subseteq complete \cup Awaited \cup Names(stack)
      /\ (unpack /\ Top.state # "REPO" => Top.repodeps = <<>>)
    BY TopFacts
<1>2. Top.state # "REPO"
    BY <1>1 DEF Started
<1>3. /\ after \in Record /\ after.name = Top.name
      /\ after.repodeps = Top.repodeps /\ after.processed = Top.processed
    BY DEF Keeps
<1>4. CASE Fail /\ cause' = TRUE /\ settled' = settled
    BY <1>4, Failed
<1>5. CASE GoOn(InTop(after), {}) /\ Settle(packages) /\ cause' = cause
  <2>1. PICK s, without : s = InTop(after) /\ without = {}
      OBVIOUS
  <2>2. GoOn(s, without) /\ settled' = done /\ cause' = cause
      BY <1>5, <2>1 DEF Settle
  <2>3. settled \subseteq settled' /\ settled' \subseteq Tasks \X Packages
    <3>1. Top.name \in Tasks
        BY <1>1 DEF Record
    <3>2. settled \subseteq Tasks \X Packages
        BY TypeFacts
    <3>3. \A p \in packages : <<Top.name, p>> \in Tasks \X Packages
        BY <3>1
    <3> QED
        BY <2>2, <3>2, <3>3
  <2>4. /\ without \in SUBSET Tasks /\ Awaited \subseteq without
        /\ Top.processed \subseteq after.processed
        /\ after.processed \subseteq complete \cup without \cup Names(stack)
        /\ Fits(after, settled')
      BY <1>1, <1>3, <2>1, <2>2
  <2>5. unpack =>
           /\ Elements(Top.repodeps) \subseteq Elements(after.repodeps) \cup complete
                                         \cup without \cup Names(stack)
           /\ after.repodeps = <<>>
      BY <1>1, <1>2, <1>3
  <2>6. cause' \in BOOLEAN /\ (cause => cause') /\ op \notin {"start", "none"}
      BY <2>2, TypeFacts
  <2> QED
      BY <1>3, <2>1, <2>2, <2>3, <2>4, <2>5, <2>6, Replacing
<1> QED
    BY <1>4, <1>5 DEF Installed

(* What is settled when packages are.                                      *)
LEMMA SettledNow ==
    ASSUME NEW d, NEW done, NEW packages, NEW more,
           more = done \cup {<<d.name, p>> : p \in packages}
    PROVE  /\ done \subseteq more
           /\ \A p \in packages : <<d.name, p>> \in more
OBVIOUS

LEMMA RpmTop ==
    ASSUME IInv, op \in {"remove", "install"}
    PROVE  /\ Top \in Record /\ Top.state = "RPM"
           /\ Top.dependencies = Hard[Top.name]
           /\ op = "install" => Top.remove = {}
           /\ Top.remove \in SUBSET Packages /\ Top.install \in SUBSET Packages
           /\ Top.remove \in SUBSET Removals
           /\ Top.install \in SUBSET (Packages \ Removals)
           /\ \A p \in Elements(Hard[Top.name]) :
                 <<Top.name, p>> \in settled \/ p \in Top.remove \cup Top.install
<1>1. Top \in Record /\ Fits(Top, settled) /\ op = Started(Top)
    BY TopFacts
<1>2. Top.state = "RPM" /\ (op = "install" => Top.remove = {})
    BY <1>1 DEF Started
<1>3. /\ Top.remove \in SUBSET Removals
      /\ Top.install \in SUBSET (Packages \ Removals)
    BY <1>1 DEF Record
<1> QED
    BY <1>1, <1>2, <1>3, DependencyAssumption DEF Fits

LEMMA RemovedFits ==
    ASSUME NEW d \in Record, NEW done, NEW more, d.state = "RPM",
           d.dependencies = Hard[d.name],
           \A p \in Elements(Hard[d.name]) :
               <<d.name, p>> \in done \/ p \in d.remove \cup d.install,
           done \subseteq more, \A p \in d.remove : <<d.name, p>> \in more
    PROVE  LET after == Batch([d EXCEPT !.remove = {}])
           IN Keeps(d, after) /\ Fits(after, more) /\ after.state # "REPO"
<1>1. PICK e : e = [d EXCEPT !.remove = {}]
    OBVIOUS
<1>2. /\ e \in Record /\ e.state = "RPM" /\ e.name = d.name
      /\ e.dependencies = d.dependencies /\ e.repodeps = d.repodeps
      /\ e.processed = d.processed /\ e.remove = {} /\ e.install = d.install
    BY <1>1 DEF Record
<1>3. /\ e.dependencies = Hard[e.name]
      /\ \A p \in Elements(Hard[e.name]) :
            <<e.name, p>> \in more \/ p \in e.remove \cup e.install
    BY <1>2
<1>4. Keeps(e, Batch(e)) /\ Fits(Batch(e), more) /\ Batch(e).state # "REPO"
    BY <1>2, <1>3, BatchFits
<1>5. Keeps(d, Batch(e))
    BY <1>2, <1>4 DEF Keeps
<1> QED
    BY <1>1, <1>4, <1>5

LEMMA InstallFits ==
    ASSUME NEW d \in Record, NEW done, NEW more, d.remove = {},
           \A p \in Elements(Hard[d.name]) :
               <<d.name, p>> \in done \/ p \in d.remove \cup d.install,
           done \subseteq more, \A p \in d.install : <<d.name, p>> \in more
    PROVE  LET after == Later([d EXCEPT !.install = {}])
           IN Keeps(d, after) /\ Fits(after, more) /\ after.state # "REPO"
<1>1. PICK e : e = [d EXCEPT !.install = {}]
    OBVIOUS
<1>2. /\ e \in Record /\ e.name = d.name /\ e.repodeps = d.repodeps
      /\ e.processed = d.processed
    BY <1>1 DEF Record
<1>3. AllSettled(e.name, more)
    BY <1>2 DEF AllSettled
<1>4. /\ Keeps(e, Later(e)) /\ Later(e).state \in {"SOFT_RPM", "DONE"}
      /\ Fits(Later(e), more)
    BY <1>2, <1>3, LaterFits
<1>5. Keeps(d, Later(e)) /\ Later(e).state # "REPO"
    BY <1>2, <1>4 DEF Keeps
<1> QED
    BY <1>1, <1>4, <1>5

LEMMA BatchStep ==
    ASSUME IInv, NEW failed \in BOOLEAN, BatchFinished(failed)
    PROVE  IInv'
<1>1. /\ op \in {"remove", "install"} /\ read' = read
      /\ UNCHANGED <<given, cancelled>>
    BY DEF BatchFinished
<1>2. PICK top : top = Top
    OBVIOUS
<1>3. /\ top \in Record /\ top.state = "RPM" /\ top.dependencies = Hard[top.name]
      /\ op = "install" => top.remove = {}
      /\ top.remove \in SUBSET Packages /\ top.install \in SUBSET Packages
      /\ \A p \in Elements(Hard[top.name]) :
            <<top.name, p>> \in settled \/ p \in top.remove \cup top.install
    BY <1>1, <1>2, RpmTop
<1>4. op \in {"remove", "install", "single"}
    BY <1>1
<1>5. CASE failed
  <2>1. PICK packages, after : packages = {} /\ after = Fallback(top)
      OBVIOUS
  <2>2. Installed(packages, failed, after) /\ packages \in SUBSET Packages
      BY <1>2, <1>5, <2>1 DEF BatchFinished
  <2>3. PICK done : done = settled \cup {<<Top.name, p>> : p \in packages}
      OBVIOUS
  <2>4. Keeps(Top, after) /\ Fits(after, done) /\ after.state # "REPO"
      BY <1>2, <1>3, <2>1, FallbackFits
  <2> QED
      BY <1>1, <1>4, <2>2, <2>3, <2>4, InstalledStep
<1>6. CASE ~failed /\ op = "remove"
  <2>1. PICK packages, after :
            packages = top.remove /\ after = Batch([top EXCEPT !.remove = {}])
      OBVIOUS
  <2>2. Installed(packages, failed, after) /\ packages \in SUBSET Packages
      BY <1>2, <1>3, <1>6, <2>1 DEF BatchFinished
  <2>3. PICK done : done = settled \cup {<<Top.name, p>> : p \in packages}
      OBVIOUS
  <2>4. settled \subseteq done /\ \A p \in packages : <<top.name, p>> \in done
      BY <1>2, <2>3
  <2>5. PICK before : before = settled
      OBVIOUS
  <2>6. /\ before \subseteq done /\ \A p \in top.remove : <<top.name, p>> \in done
        /\ \A p \in Elements(Hard[top.name]) :
              <<top.name, p>> \in before \/ p \in top.remove \cup top.install
      BY <1>3, <2>1, <2>4, <2>5
  <2>7. Keeps(top, after) /\ Fits(after, done) /\ after.state # "REPO"
      BY <1>3, <2>1, <2>6, RemovedFits
  <2> QED
      BY <1>1, <1>2, <1>4, <2>2, <2>3, <2>7, InstalledStep
<1>7. CASE ~failed /\ op = "install"
  <2>1. PICK packages, after :
            packages = top.install /\ after = Later([top EXCEPT !.install = {}])
      OBVIOUS
  <2>2. Installed(packages, failed, after) /\ packages \in SUBSET Packages
      BY <1>2, <1>3, <1>7, <2>1 DEF BatchFinished
  <2>3. PICK done : done = settled \cup {<<Top.name, p>> : p \in packages}
      OBVIOUS
  <2>4. settled \subseteq done /\ \A p \in packages : <<top.name, p>> \in done
      BY <1>2, <2>3
  <2>5. PICK before : before = settled
      OBVIOUS
  <2>6. /\ before \subseteq done /\ \A p \in top.install : <<top.name, p>> \in done
        /\ \A p \in Elements(Hard[top.name]) :
              <<top.name, p>> \in before \/ p \in top.remove \cup top.install
      BY <1>3, <2>1, <2>4, <2>5
  <2>7. top.remove = {}
      BY <1>3, <1>7
  <2>8. Keeps(top, after) /\ Fits(after, done) /\ after.state # "REPO"
      BY <1>3, <2>1, <2>6, <2>7, InstallFits
  <2> QED
      BY <1>1, <1>2, <1>4, <2>2, <2>3, <2>8, InstalledStep
<1> QED
    BY <1>1, <1>5, <1>6, <1>7

LEMMA TriedFits ==
    ASSUME NEW d \in Record, NEW done, NEW more, d.state = "SINGLE_RPM",
           Fits(d, done), done \subseteq more,
           <<d.name, Head(d.dependencies)>> \in more
    PROVE  LET after == Handler([d EXCEPT !.dependencies = Tail(@)])
           IN /\ Keeps(d, after) /\ Fits(after, more) /\ after.state # "REPO"
              /\ Head(d.dependencies) \in Packages
<1>1. PICK e : e = [d EXCEPT !.dependencies = Tail(@)]
    OBVIOUS
<1>2. d.dependencies # <<>> /\ d.dependencies \in Seq(Packages)
    BY DEF Fits, Record
<1>3. /\ Tail(d.dependencies) \in Seq(Packages) /\ Head(d.dependencies) \in Packages
      /\ Elements(d.dependencies)
             \subseteq {Head(d.dependencies)} \cup Elements(Tail(d.dependencies))
    BY <1>2, HeadElement
<1>4. /\ e \in Record /\ e.name = d.name /\ e.repodeps = d.repodeps
      /\ e.processed = d.processed /\ e.state = "SINGLE_RPM"
      /\ e.dependencies = Tail(d.dependencies)
    BY <1>1, <1>3 DEF Record
<1>5. \A p \in Elements(Hard[e.name]) :
          <<e.name, p>> \in more \/ p \in Elements(e.dependencies)
  <2> TAKE p \in Elements(Hard[e.name])
  <2>1. <<d.name, p>> \in done \/ p \in Elements(d.dependencies)
      BY <1>4 DEF Fits
  <2> QED
      BY <1>3, <1>4, <2>1
<1>6. Keeps(e, Handler(e)) /\ Fits(Handler(e), more) /\ Handler(e).state # "REPO"
    BY <1>4, <1>5, HandlerSingleFits
<1>7. Keeps(d, Handler(e))
    BY <1>4, <1>6 DEF Keeps
<1> QED
    BY <1>1, <1>3, <1>6, <1>7

LEMMA SingleStep ==
    ASSUME IInv, NEW failed \in BOOLEAN, SingleFinished(failed)
    PROVE  IInv'
<1>1. PICK top, packages, after :
          /\ top = Top /\ packages = {Head(top.dependencies)}
          /\ after = Handler([top EXCEPT !.dependencies = Tail(@)])
    OBVIOUS
<1>2. /\ op = "single" /\ Installed(packages, failed, after) /\ read' = read
      /\ UNCHANGED <<given, cancelled>>
    BY <1>1 DEF SingleFinished
<1>3. top \in Record /\ Fits(top, settled) /\ op = Started(top)
    BY <1>1, <1>2, TopFacts
<1>4. top.state = "SINGLE_RPM"
    BY <1>2, <1>3 DEF Started
<1>5. PICK done : done = settled \cup {<<Top.name, p>> : p \in packages}
    OBVIOUS
<1>6. PICK before : before = settled
    OBVIOUS
<1>7. /\ before \subseteq done /\ <<top.name, Head(top.dependencies)>> \in done
      /\ Fits(top, before)
    BY <1>1, <1>3, <1>5, <1>6
<1>8. /\ Keeps(top, after) /\ Fits(after, done) /\ after.state # "REPO"
      /\ Head(top.dependencies) \in Packages
    BY <1>1, <1>3, <1>4, <1>7, TriedFits
<1>9. packages \in SUBSET Packages /\ op \in {"remove", "install", "single"}
    BY <1>1, <1>2, <1>8
<1> QED
    BY <1>1, <1>2, <1>5, <1>8, <1>9, InstalledStep

LEMMA SoftStep ==
    ASSUME IInv, NEW failed \in BOOLEAN, SoftFinished(failed)
    PROVE  IInv'
<1>1. /\ op = "soft" /\ UNCHANGED <<given, cancelled, read, settled, cause>>
      /\ \/ cancelled /\ Fail
         \/ GoOn(InTop(Handler([Top EXCEPT !.soft = Tail(@)])), {})
    BY DEF SoftFinished
<1>2. CASE cancelled /\ Fail
  <2>1. cause' = TRUE
      BY <1>1, <1>2, TypeFacts DEF IInv, Causes
  <2> QED
      BY <1>1, <1>2, <2>1, Failed
<1>3. CASE GoOn(InTop(Handler([Top EXCEPT !.soft = Tail(@)])), {})
  <2>1. PICK top, e : top = Top /\ e = [top EXCEPT !.soft = Tail(@)]
      OBVIOUS
  <2>2. PICK after, s, without :
            after = Handler(e) /\ s = InTop(after) /\ without = {}
      OBVIOUS
  <2>3. GoOn(s, without)
      BY <1>3, <2>1, <2>2
  <2>4. /\ top \in Record /\ Fits(top, settled) /\ op = Started(top)
        /\ Awaited = {} /\ top.state # "DONE"
        /\ top.processed \subseteq complete \cup Awaited \cup Names(stack)
        /\ (unpack /\ top.state # "REPO" => top.repodeps = <<>>)
      BY <1>1, <2>1, TopFacts
  <2>5. top.state = "SOFT_RPM"
      BY <1>1, <2>4 DEF Started, Record
  <2>6. top.soft # <<>> /\ AllSettled(top.name, settled)
      BY <2>4, <2>5 DEF Fits
  <2>7. Tail(top.soft) \in Seq(Packages)
      BY <2>4, <2>6, HeadElement DEF Record
  <2>8. /\ e \in Record /\ e.name = top.name /\ e.repodeps = top.repodeps
        /\ e.processed = top.processed /\ e.state = "SOFT_RPM"
      BY <2>1, <2>4, <2>5, <2>7 DEF Record
  <2>9. Keeps(e, after) /\ Fits(after, settled) /\ after.state # "REPO"
    <3>1. PICK done : done = settled
        OBVIOUS
    <3>2. AllSettled(e.name, done)
        BY <2>6, <2>8, <3>1
    <3>3. Keeps(e, after) /\ Fits(after, done) /\ after.state # "REPO"
        BY <2>2, <2>8, <3>2, HandlerSoftFits
    <3> QED
        BY <3>1, <3>3
  <2>10. /\ after \in Record /\ after.name = Top.name
         /\ after.repodeps = Top.repodeps /\ after.processed = Top.processed
      BY <2>1, <2>8, <2>9 DEF Keeps
  <2>11. /\ without \in SUBSET Tasks /\ Awaited \subseteq without
         /\ Top.processed \subseteq after.processed
         /\ after.processed \subseteq complete \cup without \cup Names(stack)
         /\ Fits(after, settled')
      BY <1>1, <2>1, <2>2, <2>4, <2>9, <2>10
  <2>12. unpack =>
            /\ Elements(Top.repodeps) \subseteq Elements(after.repodeps) \cup complete
                                          \cup without \cup Names(stack)
            /\ after.repodeps = <<>>
      BY <2>1, <2>4, <2>5, <2>10
  <2>13. /\ cause' \in BOOLEAN /\ (cause => cause') /\ op \notin {"start", "none"}
         /\ settled \subseteq settled' /\ settled' \subseteq Tasks \X Packages
         /\ read' = read
      BY <1>1, TypeFacts
  <2> QED
      BY <1>1, <2>2, <2>3, <2>9, <2>10, <2>11, <2>12, <2>13, Replacing
<1> QED
    BY <1>1, <1>2, <1>3

(* What does not touch the copies, nor what they rest on.                  *)
LEMMA Untouched ==
    ASSUME IInv, cancelled' \in BOOLEAN, cause' \in BOOLEAN,
           cancelled' => cause', cause => cause',
           UNCHANGED <<given, stack, op, result, read, settled, complete>>
    PROVE  IInv'
<1>1. /\ requires' = requires /\ unpack' = unpack /\ compat' = compat
      /\ stack' = stack /\ op' = op /\ result' = result /\ read' = read
      /\ settled' = settled /\ complete' = complete
    BY DEF given
<1>2. TypeOK'
    BY <1>1, TypeFacts DEF TypeOK
<1>3. Causes'
    BY <1>1 DEF IInv, Causes
<1>4. Top' = Top /\ Awaited' = Awaited /\ Names(stack)' = Names(stack)
    BY <1>1 DEF Top, Awaited, Names
<1>5. Operation'
  <2>1. Operation
      BY DEF IInv
  <2>2. stack # <<>> => Stacked(stack, complete \cup Awaited, settled)'
    <3> SUFFICES ASSUME stack # <<>>
                 PROVE  Stacked(stack, complete \cup Awaited, settled)'
        OBVIOUS
    <3>1. Stacked(stack, complete \cup Awaited, settled)
        BY <2>1 DEF Operation
    <3> QED
        BY <1>1, <1>4, <3>1 DEF Stacked, Typed, Fitted, Nesting, Unpacked, Passed,
                                Marked, Apart, Known
  <2>3. Started(Top)' = Started(Top)
      BY <1>4 DEF Started
  <2> QED
      BY <1>1, <1>4, <2>1, <2>2, <2>3 DEF Operation
<1>6. Reads'
  <2>1. Reads
      BY DEF IInv
  <2>2. \A t : Finished(t) => Finished(t)'
      BY <1>1, <1>4 DEF Finished, AllSettled
  <2> QED
      BY <1>1, <1>4, <2>1, <2>2 DEF Reads
<1> QED
    BY <1>2, <1>3, <1>5, <1>6 DEF IInv

LEMMA InitIInv == Init => IInv
<1> SUFFICES ASSUME Init PROVE IInv
    OBVIOUS
<1>1. Main \in Tasks
    BY DependencyAssumption
<1>2. TypeOK
  <2>1. <<>> \in Seq(DataType)
      OBVIOUS
  <2>2. "start" \in {"start", "none", "fetch"} \cup Commands
      OBVIOUS
  <2>3. {Main} \subseteq Tasks /\ {} \subseteq Tasks \X Packages
      BY <1>1
  <2> QED
      BY <2>1, <2>2, <2>3 DEF Init, TypeOK
<1>3. Causes /\ Reads
    BY DEF Init, Causes, Reads
<1>4. Operation
    BY DEF Init, Operation
<1> QED
    BY <1>2, <1>3, <1>4 DEF IInv

LEMMA NextIInv == IInv /\ [Next]_vars => IInv'
<1> SUFFICES ASSUME IInv, [Next]_vars PROVE IInv'
    OBVIOUS
<1>1. CASE InstallDependencies
    BY <1>1, InstallStep
<1>2. CASE FetchFinished
    BY <1>2, FetchStep
<1>3. CASE TestinfoMade
    BY <1>3, TestinfoStep
<1>4. ASSUME NEW failed \in BOOLEAN, BatchFinished(failed) PROVE IInv'
    BY <1>4, BatchStep
<1>5. ASSUME NEW failed \in BOOLEAN, SingleFinished(failed) PROVE IInv'
    BY <1>5, SingleStep
<1>6. ASSUME NEW failed \in BOOLEAN, SoftFinished(failed) PROVE IInv'
    BY <1>6, SoftStep
<1>7. CASE Abort
    BY <1>7, Untouched DEF Abort
<1>8. CASE UNCHANGED vars
  <2>1. /\ UNCHANGED <<given, stack, op, result, read, settled, complete>>
        /\ cancelled' = cancelled /\ cause' = cause
      BY <1>8 DEF vars, given
  <2>2. /\ cancelled' \in BOOLEAN /\ cause' \in BOOLEAN /\ (cause => cause')
        /\ (cancelled' => cause')
      BY <2>1, TypeFacts DEF IInv, Causes
  <2> QED
      BY <2>1, <2>2, Untouched
<1> QED
    BY <1>1, <1>2, <1>3, <1>4, <1>5, <1>6, <1>7, <1>8 DEF Next, Callback

LEMMA DependenciesInvariant == Spec => []IInv
BY InitIInv, NextIInv, PTL DEF Spec

-----------------------------------------------------------------------------
(* restraint_install_dependencies answers its caller truthfully, whatever  *)
(* the graph: with success, every package of every task whose metadata was *)
(* read was dealt with, and every repodep; with an error, something that   *)
(* counts failed.                                                          *)
THEOREM DependenciesTruthful == Spec => []Truthful
<1>1. IInv => Truthful
  <2> SUFFICES ASSUME IInv PROVE Truthful
      OBVIOUS
  <2>1. TypeOK /\ (result = "error" => cause)
      BY DEF IInv, Causes
  <2>2. ASSUME result = "ok", NEW t \in read
        PROVE  /\ \A p \in Elements(Hard[t]) : <<t, p>> \in settled
               /\ unpack => Elements(requires[t]) \subseteq complete
    <3>1. op = "none" /\ stack = <<>>
        BY <2>2 DEF IInv, Operation
    <3>2. Awaited = {} /\ Names(stack) = {}
        BY <3>1, NoNames DEF Awaited
    <3>3. Finished(t)
        BY <2>2, <3>1, <3>2 DEF IInv, Reads
    <3> QED
        BY <3>2, <3>3 DEF Finished, AllSettled
  <2> QED
      BY <2>1, <2>2 DEF Truthful
<1> QED
    BY <1>1, DependenciesInvariant, PTL

(* The nested copies of the procedure: a repodep is never being dealt with *)
(* twice at a time, though the graph may have cycles, and the repodeps of  *)
(* a task that was unpacked, the main one included, come before its        *)
(* packages.                                                               *)
THEOREM RepodepsFirst == Spec => []RepodepOrder
<1>1. IInv => RepodepOrder
  <2> SUFFICES ASSUME IInv PROVE RepodepOrder
      OBVIOUS
  <2>1. CASE stack = <<>>
    <3>1. Len(stack) = 0
        BY <2>1
    <3> QED
        BY <3>1 DEF RepodepOrder
  <2>2. CASE stack # <<>>
    <3>1. op \notin {"start", "none"}
        BY <2>2 DEF IInv, Operation
    <3>2. PICK past : past = complete \cup Awaited
        OBVIOUS
    <3>3. /\ Stacked(stack, past, settled) /\ Len(stack) \in 1 .. Len(stack)
          /\ Top = stack[Len(stack)]
          /\ (unpack /\ Top.state # "REPO" => Top.repodeps = <<>>)
        BY <3>1, <3>2, TopFacts
    <3>4. \A i, j \in 2 .. Len(stack) : stack[i].name = stack[j].name => i = j
        BY <3>3, StackedFacts
    <3>5. ASSUME unpack, NEW n \in 1 .. Len(stack), stack[n].state # "REPO"
          PROVE  Elements(requires[stack[n].name])
                     \subseteq complete \cup Names(stack)
      <4>1. n = Len(stack)
        <5>1. ASSUME n # Len(stack) PROVE FALSE
          <6>1. n + 1 \in 1 .. Len(stack)
              BY <3>3, <5>1
          <6>2. stack[n].state = "REPO"
              BY <3>3, <6>1 DEF Stacked, Nesting
          <6> QED
              BY <3>5, <6>2
        <5> QED
            BY <5>1
      <4>2. Elements(requires[stack[n].name])
                \subseteq Elements(stack[n].repodeps) \cup past \cup Names(stack)
          BY <3>3, <3>5, StackedFacts
      <4>3. stack[n].repodeps = <<>>
          BY <3>3, <3>5, <4>1
      <4>4. Awaited = {}
        <5>1. op # "metadata"
            BY <3>3, <3>5, <4>1 DEF IInv, Operation
        <5> QED
            BY <5>1 DEF Awaited
      <4> QED
          BY <3>2, <4>2, <4>3, <4>4, NoElements
    <3> QED
        BY <3>4, <3>5 DEF RepodepOrder, Names
  <2> QED
      BY <2>1, <2>2
<1> QED
    BY <1>1, DependenciesInvariant, PTL

(* The procedure never nests deeper than there are tasks, however its      *)
(* repodeps refer to each other: each nested copy (dep_mtdata_finish_cb)   *)
(* deals with a task of its own, and so the recursion ends.                *)
THEOREM NestingBounded ==
    ASSUME IsFiniteSet(Tasks)
    PROVE  Spec => [](Len(stack) <= Cardinality(Tasks) + 1)
<1>1. IInv => Len(stack) <= Cardinality(Tasks) + 1
  <2> SUFFICES ASSUME IInv PROVE Len(stack) <= Cardinality(Tasks) + 1
      OBVIOUS
  <2>1. Cardinality(Tasks) \in Nat /\ Len(stack) \in Nat
      BY TypeFacts, FS_CardinalityType, LenProperties
  <2>2. ASSUME stack # <<>>, Cardinality(Tasks) + 1 < Len(stack)
        PROVE  FALSE
    <3>1. op \notin {"start", "none"}
        BY <2>2 DEF IInv, Operation
    <3>2. PICK past : past = complete \cup Awaited
        OBVIOUS
    <3>3. Stacked(stack, past, settled)
        BY <3>1, <3>2, TopFacts
    <3>4. PICK n : n = Len(stack)
        OBVIOUS
    <3>5. n \in Nat /\ 2 \in Int /\ n \in Int /\ Cardinality(Tasks) + 1 < n
        BY <2>1, <2>2, <3>4
    <3>6. IsFiniteSet(2 .. n) /\ Cardinality(2 .. n) = IF 2 > n THEN 0 ELSE n - 2 + 1
        BY <3>5, FS_Interval
    <3>7. Cardinality(Tasks) < Cardinality(2 .. n)
        BY <2>1, <3>5, <3>6
    <3>8. PICK f : f = [i \in 2 .. n |-> stack[i].name]
        OBVIOUS
    <3>9. f \in [2 .. n -> Tasks]
      <4>1. \A i \in 2 .. n : i \in 1 .. Len(stack)
          BY <3>4, <3>5
      <4>2. \A i \in 2 .. n : stack[i].name \in Tasks
          BY <3>3, <4>1, StackedFacts DEF Record
      <4> QED
          BY <3>8, <4>2
    <3>10. \E x, y \in 2 .. n : x # y /\ f[x] = f[y]
        BY <3>6, <3>7, <3>9, FS_PigeonHole
    <3> QED
        BY <3>3, <3>4, <3>8, <3>10, StackedFacts
  <2>3. CASE stack = <<>>
    <3>1. Len(stack) = 0
        BY <2>3
    <3> QED
        BY <2>1, <3>1
  <2> QED
      BY <2>1, <2>2, <2>3
<1> QED
    BY <1>1, DependenciesInvariant, PTL
=============================================================================
