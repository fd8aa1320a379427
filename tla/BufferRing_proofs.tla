-------------------------- MODULE BufferRing_proofs --------------------------
(***************************************************************************)
(* For any number of workers, any ring and any days: finish_bit hands a    *)
(* buffer over, so that none is written while a worker reads it; and every *)
(* worker gets every segment of every day once, in order, with the engine  *)
(* of its day, up to a day without orders, in the baseline program as well.*)
(* The threads of the one never all wait for each other, and the other     *)
(* stops only where it may.                                                *)
(***************************************************************************)
EXTENDS BaselineRing, SequenceTheorems, WellFoundedInduction, TLAPS

\* The loader writes to a buffer all workers have finished with; a worker reads
\* a buffer it has not finished with.
LoaderOwns    == Writing => Free
WorkerOwns(w) == Reading(w) => w \notin finish_bit[index[w]]

HandOver == TypeOK /\ LoaderOwns /\ \A w \in Worker : WorkerOwns(w)

LEMMA IncrInSlots ==
  ASSUME NEW i \in Slots
  PROVE  INCR(i) \in Slots
BY RingAssumption DEF INCR, Slots

LEMMA ExclusiveOwner == HandOver => ExclusiveAccess
BY DEF HandOver, LoaderOwns, WorkerOwns, ExclusiveAccess, Free

LEMMA HandOverInit == Init => HandOver
<1> SUFFICES ASSUME Init PROVE HandOver
  OBVIOUS
<1>1. 0 \in Slots
  BY RingAssumption DEF Slots
<1>2. TypeOK
  BY <1>1 DEF Init, TypeOK
<1>3. LoaderOwns /\ \A w \in Worker : WorkerOwns(w)
  BY <1>1 DEF Init, LoaderOwns, Free, WorkerOwns, Reading
<1>4. QED BY <1>2, <1>3 DEF HandOver

\* A step of the loader that hands nothing over writes to a buffer it has.
LEMMA LoaderKeeps ==
  ASSUME HandOver, UNCHANGED <<finish_bit, ioIndex, work>>,
         Free, TypeOK'
  PROVE  HandOver'
BY DEF HandOver, LoaderOwns, WorkerOwns, Free, Reading, work

\* Publishing a buffer gives it to every worker, and no worker has one already.
LEMMA LoaderGives ==
  ASSUME HandOver, Publish, UNCHANGED work, ~Writing', TypeOK'
  PROVE  HandOver'
<1>1. LoaderOwns'
  BY DEF LoaderOwns
<1>2. ASSUME NEW w \in Worker, Reading(w)'
      PROVE  w \notin finish_bit'[index'[w]]
  <2>1. w \notin finish_bit[index[w]] /\ index' = index
    BY <1>2 DEF HandOver, WorkerOwns, Reading, work
  <2>2. QED BY <2>1 DEF HandOver, TypeOK, Publish
<1>3. QED BY <1>1, <1>2 DEF HandOver, WorkerOwns

LEMMA LoaderStep == HandOver /\ IO => HandOver'
<1> SUFFICES ASSUME HandOver, IO PROVE HandOver'
  OBVIOUS
<1> USE DEF HandOver
<1>1. CASE StartDay
  <2>1. TypeOK'
    BY <1>1 DEF StartDay, TypeOK, work
  <2>2. QED BY <1>1, <2>1, LoaderKeeps DEF StartDay
<1>2. CASE ReadHeader
  <2>1. TypeOK'
    BY <1>2 DEF ReadHeader, TypeOK, work
  <2>2. Free
    BY <1>2 DEF ReadHeader, LoaderOwns, Writing
  <2>3. QED BY <1>2, <2>1, <2>2, LoaderKeeps DEF ReadHeader
<1>3. CASE ReadSegment
  <2>1. TypeOK'
    BY <1>3 DEF ReadSegment, TypeOK, work
  <2>2. Free
    BY <1>3 DEF ReadSegment, LoaderOwns, Writing
  <2>3. QED BY <1>3, <2>1, <2>2, LoaderKeeps DEF ReadSegment
<1>4. CASE PublishSegment
  <2>1. TypeOK'
    BY <1>4, IncrInSlots DEF PublishSegment, Publish, TypeOK, work
  <2>2. QED BY <1>4, <2>1, LoaderGives DEF PublishSegment, Writing
<1>5. CASE NextBuffer
  <2>1. TypeOK'
    BY <1>5 DEF NextBuffer, TypeOK, work
  <2>2. QED BY <1>5, <2>1, LoaderKeeps DEF NextBuffer
<1>6. CASE EndOfLog
  <2>1. TypeOK'
    BY <1>6 DEF EndOfLog, TypeOK, work
  <2>2. Free
    BY <1>6 DEF EndOfLog, LoaderOwns, Writing
  <2>3. QED BY <1>6, <2>1, <2>2, LoaderKeeps DEF EndOfLog
<1>7. CASE PublishEnd
  <2>1. TypeOK'
    BY <1>7, IncrInSlots DEF PublishEnd, Publish, NextDay, TypeOK, work
  <2>2. QED BY <1>7, <2>1, LoaderGives DEF PublishEnd, NextDay, Writing
<1>8. CASE List
  <2>1. TypeOK'
    BY <1>8 DEF List, TypeOK, buffers, work
  <2>2. QED BY <1>8, <2>1 DEF List, LoaderOwns, WorkerOwns, Writing, Reading, buffers, work
<1>9. QED BY <1>1, <1>2, <1>3, <1>4, <1>5, <1>6, <1>7, <1>8 DEF IO

\* A worker inside a buffer goes on in it.
LEMMA WorkerKeeps ==
  ASSUME HandOver, NEW w \in Worker, UNCHANGED <<finish_bit, io, index>>, TypeOK',
         \A v \in Worker \ {w} : pc'[v] = pc[v],
         w \notin finish_bit[index[w]]
  PROVE  HandOver'
<1>1. LoaderOwns'
  BY DEF HandOver, LoaderOwns, Writing, Free, io
<1>2. \A v \in Worker : WorkerOwns(v)'
  BY DEF HandOver, WorkerOwns, Reading
<1>3. QED BY <1>1, <1>2 DEF HandOver

LEMMA WorkerStep ==
  ASSUME NEW w \in Worker, HandOver, Work(w)
  PROVE  HandOver'
<1> USE DEF HandOver
<1>1. CASE Acquire(w)
  <2>1. TypeOK'
    BY <1>1 DEF Acquire, TypeOK, buffers, io
  <2>2. QED BY <1>1, <2>1, WorkerKeeps DEF Acquire, buffers, TypeOK
<1>2. CASE StartEngine(w) \/ InsertOrders(w) \/ Complete(w)
  <2>1. TypeOK'
    BY <1>2 DEF StartEngine, InsertOrders, Complete, TypeOK, buffers, io
  <2>2. w \notin finish_bit[index[w]]
    BY <1>2 DEF StartEngine, InsertOrders, Complete, WorkerOwns, Reading
  <2>3. QED BY <1>2, <2>1, <2>2, WorkerKeeps
            DEF StartEngine, InsertOrders, Complete, buffers, TypeOK
<1>3. CASE Release(w)
  <2>1. TypeOK'
    BY <1>3, IncrInSlots DEF Release, TypeOK, io
  <2>2. LoaderOwns'
    <3>1. \A i \in Slots : finish_bit[i] \subseteq finish_bit'[i]
      BY <1>3 DEF Release, TypeOK
    <3>2. QED BY <1>3, <2>1, <3>1 DEF Release, LoaderOwns, Writing, Free, io, TypeOK
  <2>3. ASSUME NEW v \in Worker, Reading(v)'
        PROVE  v \notin finish_bit'[index'[v]]
    <3>1. v # w /\ pc'[v] = pc[v] /\ index'[v] = index[v]
      BY <1>3, <2>3 DEF Release, Reading, TypeOK
    <3>2. v \notin finish_bit[index[v]] /\ index[v] \in Slots
      BY <2>3, <3>1 DEF WorkerOwns, Reading, TypeOK
    <3>3. QED BY <1>3, <3>1, <3>2 DEF Release, TypeOK
  <2>4. QED BY <2>1, <2>2, <2>3 DEF WorkerOwns
<1>4. CASE UseNoEngine(w)
  BY <1>4 DEF UseNoEngine, TypeOK, LoaderOwns, WorkerOwns, Writing, Reading, Free, buffers, io
<1>5. QED BY <1>1, <1>2, <1>3, <1>4 DEF Work

LEMMA HandOverStep == HandOver /\ [Next]_vars => HandOver'
<1> SUFFICES ASSUME HandOver, [Next]_vars PROVE HandOver'
  OBVIOUS
<1>1. CASE IO
  BY <1>1, LoaderStep
<1>2. CASE \E w \in Worker : Work(w)
  BY <1>2, WorkerStep
<1>3. CASE UNCHANGED vars
  BY <1>3 DEF vars, buffers, io, work, HandOver, TypeOK, LoaderOwns, WorkerOwns, Writing,
     Reading, Free
<1>4. QED BY <1>1, <1>2, <1>3 DEF Next, AllDone

\* The threads of entrance.cpp never write and read a buffer at the same time.
THEOREM Exclusive == Spec => []ExclusiveAccess
<1>1. Spec => []HandOver
  BY HandOverInit, HandOverStep, PTL DEF Spec
<1>2. QED BY <1>1, ExclusiveOwner, PTL

\* Both sides of the ring stay inside it.
THEOREM RingTypeCorrect == Spec => []TypeOK
<1>1. HandOver => TypeOK
  BY DEF HandOver
<1>2. QED BY HandOverInit, HandOverStep, <1>1, PTL DEF Spec

-----------------------------------------------------------------------------
(* Concatenations.                                                         *)

\* Induction over the naturals, for a set.
LEMMA SetInduction ==
  ASSUME NEW T, 0 \in T, \A n \in Nat : n \in T => n + 1 \in T
  PROVE  Nat \subseteq T
<1> DEFINE R == {ss \in Nat \X Nat : ss[1] < ss[2]}
           Bad == Nat \ T
<1> SUFFICES ASSUME Bad # {} PROVE FALSE
  OBVIOUS
<1>1. IsWellFoundedOn(R, Nat)
  BY NatLessThanWellFounded DEF OpToRel
<1>2. \A x, y \in Nat : y < x => <<y, x>> \in R
  OBVIOUS
<1>3. Bad \in SUBSET Nat
  OBVIOUS
<1> HIDE DEF R
<1>4. PICK x \in Bad : \A y \in Bad : ~(<<y, x>> \in R)
  BY <1>1, <1>3, WFMin
<1>5. x \in Nat \ {0}
  BY <1>4
<1>6. x - 1 \in Nat /\ x - 1 \in T
  <2>1. x - 1 \in Nat /\ x \in Nat /\ x - 1 < x
    BY <1>5
  <2>2. <<x - 1, x>> \in R
    BY <1>2, <2>1
  <2>3. QED BY <1>4, <2>1, <2>2
<1>7. QED BY <1>4, <1>5, <1>6

\* The prefixes of the concatenation.
Concat(f, seqs) ==
  /\ f[0] = <<>>
  /\ \A i \in 1..Len(seqs) : f[i] = f[i - 1] \o seqs[i]

LEMMA ConcatExists ==
  ASSUME NEW S, NEW seqs \in Seq(Seq(S))
  PROVE  \E f \in [0..Len(seqs) -> Seq(S)] : Concat(f, seqs)
<1> DEFINE Fits(n, f) == /\ f[0] = <<>>
                         /\ \A i \in 1..n : f[i] = f[i - 1] \o seqs[i]
           P(n) == n <= Len(seqs) => \E f \in [0..n -> Seq(S)] : Fits(n, f)
           T == {n \in Nat : P(n)}
<1>1. P(0)
  <2>1. [i \in 0..0 |-> <<>>] \in [0..0 -> Seq(S)]
    BY EmptySeq
  <2>2. Fits(0, [i \in 0..0 |-> <<>>])
    OBVIOUS
  <2> HIDE DEF Fits
  <2>3. QED BY <2>1, <2>2
<1>2. ASSUME NEW n \in Nat, P(n) PROVE P(n + 1)
  <2> SUFFICES ASSUME n + 1 <= Len(seqs)
               PROVE  \E f \in [0..n + 1 -> Seq(S)] : Fits(n + 1, f)
    OBVIOUS
  <2>0. Len(seqs) \in Nat /\ seqs[n + 1] \in Seq(S) /\ n <= Len(seqs)
    OBVIOUS
  <2>1. PICK f \in [0..n -> Seq(S)] : Fits(n, f)
    <3> HIDE DEF Fits
    <3> QED BY <1>2, <2>0
  <2> DEFINE g == [i \in 0..n + 1 |-> IF i = n + 1 THEN f[n] \o seqs[n + 1] ELSE f[i]]
  <2>2. f[n] \o seqs[n + 1] \in Seq(S)
    BY <2>0, <2>1, ConcatProperties
  <2>3. g \in [0..n + 1 -> Seq(S)]
    BY <2>1, <2>2
  <2>4. ASSUME NEW i \in 1..n + 1 PROVE g[i] = g[i - 1] \o seqs[i]
    <3>1. g[i - 1] = f[i - 1]
      OBVIOUS
    <3>2. CASE i = n + 1
      <4>1. g[i] = f[n] \o seqs[n + 1] /\ i - 1 = n
        BY <3>2
      <4>2. QED BY <3>1, <3>2, <4>1
    <3>3. CASE i # n + 1
      <4>1. i \in 1..n /\ g[i] = f[i]
        BY <3>3
      <4>2. QED BY <2>1, <3>1, <4>1
    <3>4. QED BY <3>2, <3>3
  <2>5. g[0] = <<>>
    BY <2>1
  <2> HIDE DEF g
  <2>6. QED BY <2>3, <2>4, <2>5
<1> HIDE DEF P
<1>3. Nat \subseteq T
  <2>1. 0 \in T /\ \A n \in Nat : n \in T => n + 1 \in T
    BY <1>1, <1>2
  <2> HIDE DEF T
  <2>2. QED BY <2>1, SetInduction
<1>4. P(Len(seqs)) /\ Len(seqs) \in Nat
  BY <1>3
<1>5. \E f \in [0..Len(seqs) -> Seq(S)] : Fits(Len(seqs), f)
  <2> HIDE DEF Fits
  <2> QED BY <1>4 DEF P
<1>6. QED BY <1>5 DEF Concat

LEMMA FlattenIsConcat ==
  ASSUME NEW S, NEW seqs \in Seq(Seq(S)), NEW f \in [0..Len(seqs) -> Seq(S)], Concat(f, seqs)
  PROVE  FlattenSeq(seqs) = f[Len(seqs)]
<1>1. CASE seqs = <<>>
  BY <1>1 DEF FlattenSeq, Concat
<1>2. CASE seqs # <<>>
  <2> DEFINE Def(h) == [i \in 1..Len(seqs) |-> IF i = 1 THEN seqs[i] ELSE h[i - 1] \o seqs[i]]
             flatten == CHOOSE h : h = Def(h)
             g == [i \in 1..Len(seqs) |-> f[i]]
  <2>0. Len(seqs) \in Nat \ {0} /\ \A i \in 1..Len(seqs) : seqs[i] \in Seq(S)
    BY <1>2
  <2>1. g = Def(g)
    <3>1. ASSUME NEW i \in 1..Len(seqs)
          PROVE  f[i] = IF i = 1 THEN seqs[i] ELSE g[i - 1] \o seqs[i]
      <4>1. f[1] = seqs[1]
        <5>1. 1 \in 1..Len(seqs) /\ 1 - 1 = 0
          BY <2>0
        <5>3. f[1] = f[1 - 1] \o seqs[1] /\ f[0] = <<>>
          BY <5>1 DEF Concat
        <5>2. QED BY <2>0, <5>1, <5>3, ConcatEmptySeq
      <4>2. i # 1 => g[i - 1] = f[i - 1]
        BY <2>0
      <4>3. QED BY <4>1, <4>2, <2>0 DEF Concat
    <3>2. QED BY <3>1
  <2>2. flatten = Def(flatten)
    BY <2>1
  <2> HIDE DEF flatten
  <2> DEFINE P(n) == n \in 1..Len(seqs) => flatten[n] = g[n]
             T == {n \in Nat : P(n)}
  <2>3. P(0)
    OBVIOUS
  <2>4. ASSUME NEW n \in Nat, P(n) PROVE P(n + 1)
    <3> SUFFICES ASSUME n + 1 \in 1..Len(seqs) PROVE flatten[n + 1] = g[n + 1]
      OBVIOUS
    <3>1. flatten[n + 1] = Def(flatten)[n + 1] /\ g[n + 1] = Def(g)[n + 1]
      BY <2>1, <2>2
    <3>2. n + 1 # 1 => flatten[n] = g[n]
      BY <2>0, <2>4
    <3> HIDE DEF g
    <3>3. (n + 1) - 1 = n
      OBVIOUS
    <3>4. QED BY <3>1, <3>2, <3>3
  <2> HIDE DEF P
  <2>5. Nat \subseteq T
    <3>1. 0 \in T /\ \A n \in Nat : n \in T => n + 1 \in T
      BY <2>3, <2>4
    <3> HIDE DEF T
    <3>2. QED BY <3>1, SetInduction
  <2>6. flatten[Len(seqs)] = f[Len(seqs)]
    <3>1. P(Len(seqs))
      BY <2>0, <2>5
    <3>2. QED BY <2>0, <3>1 DEF P
  <2>7. FlattenSeq(seqs) = flatten[Len(seqs)]
    BY <2>0 DEF FlattenSeq, flatten
  <2>8. QED BY <2>6, <2>7
<1>3. QED BY <1>1, <1>2

\* Each prefix is a prefix of the later ones.
Growing(f, n) ==
  \A i \in 0..n : \A j \in i..n :
    Len(f[i]) <= Len(f[j]) /\ \A k \in 1..Len(f[i]) : f[j][k] = f[i][k]

LEMMA ConcatPrefix ==
  ASSUME NEW S, NEW seqs \in Seq(Seq(S)), NEW f \in [0..Len(seqs) -> Seq(S)], Concat(f, seqs)
  PROVE  Growing(f, Len(seqs))
<1> SUFFICES ASSUME NEW i \in 0..Len(seqs)
             PROVE  \A j \in i..Len(seqs) :
                      Len(f[i]) <= Len(f[j]) /\ \A k \in 1..Len(f[i]) : f[j][k] = f[i][k]
  BY DEF Growing
<1> DEFINE Q(j) == /\ Len(f[i]) <= Len(f[j])
                   /\ \A k \in 1..Len(f[i]) : f[j][k] = f[i][k]
           P(n) == i + n <= Len(seqs) => Q(i + n)
           T == {n \in Nat : P(n)}
<1>0. Len(seqs) \in Nat /\ \A j \in 1..Len(seqs) : seqs[j] \in Seq(S)
  OBVIOUS
<1>1. P(0)
  BY <1>0
<1>2. ASSUME NEW n \in Nat, P(n) PROVE P(n + 1)
  <2> SUFFICES ASSUME i + (n + 1) <= Len(seqs) PROVE Q(i + (n + 1))
    OBVIOUS
  <2> DEFINE j == i + n
  <2>1. j \in 0..Len(seqs) /\ j + 1 \in 1..Len(seqs) /\ i + (n + 1) = j + 1
    BY <1>0
  <2>2. Q(j)
    BY <1>2, <2>1
  <2>3. f[j + 1] = f[j] \o seqs[j + 1]
    <3>1. f[j + 1] = f[(j + 1) - 1] \o seqs[j + 1]
      BY <2>1 DEF Concat
    <3>2. (j + 1) - 1 = j
      BY <2>1
    <3>3. QED BY <3>1, <3>2
  <2> HIDE DEF j
  <2>4. /\ Len(f[j + 1]) = Len(f[j]) + Len(seqs[j + 1])
        /\ \A k \in 1..Len(f[j]) : f[j + 1][k] = f[j][k]
    <3>1. f[j] \in Seq(S) /\ seqs[j + 1] \in Seq(S)
      BY <1>0, <2>1
    <3> DEFINE u == f[j]
               v == seqs[j + 1]
    <3>2. u \in Seq(S) /\ v \in Seq(S) /\ f[j + 1] = u \o v
      BY <2>3, <3>1
    <3> HIDE DEF u, v
    <3>3. Len(u \o v) = Len(u) + Len(v) /\ \A k \in 1..Len(u) : (u \o v)[k] = u[k]
      BY <3>2, ConcatProperties
    <3>4. Len(f[j + 1]) = Len(u) + Len(v) /\ \A k \in 1..Len(u) : f[j + 1][k] = u[k]
      BY <3>2, <3>3
    <3>5. QED BY <3>4 DEF u, v
  <2>5. Len(f[i]) \in Nat /\ Len(f[j]) \in Nat /\ Len(seqs[j + 1]) \in Nat
    BY <1>0, <2>1
  <2>6. Len(f[i]) <= Len(f[j + 1])
    <3>1. Len(f[i]) <= Len(f[j]) /\ Len(f[j + 1]) = Len(f[j]) + Len(seqs[j + 1])
      BY <2>2, <2>4
    <3> DEFINE a == Len(f[i])
               b == Len(f[j])
               c == Len(f[j + 1])
               e == Len(seqs[j + 1])
    <3>2. a \in Nat /\ b \in Nat /\ e \in Nat /\ a <= b /\ c = b + e
      BY <2>5, <3>1
    <3> HIDE DEF a, b, c, e
    <3>3. a <= c
      BY <3>2
    <3>4. QED BY <3>3 DEF a, c
  <2>7. ASSUME NEW k \in 1..Len(f[i]) PROVE f[j + 1][k] = f[i][k]
    <3>1. k \in 1..Len(f[j])
      BY <2>2, <2>5
    <3>2. QED BY <2>2, <2>4, <3>1
  <2>8. Q(j + 1)
    BY <2>6, <2>7
  <2> HIDE DEF Q
  <2>9. QED BY <2>1, <2>8
<1> HIDE DEF P
<1>3. Nat \subseteq T
  <2>1. 0 \in T /\ \A n \in Nat : n \in T => n + 1 \in T
    BY <1>1, <1>2
  <2> HIDE DEF T
  <2>2. QED BY <2>1, SetInduction
<1>4. ASSUME NEW j \in i..Len(seqs) PROVE Q(j)
  <2>1. j - i \in Nat /\ i + (j - i) = j /\ j <= Len(seqs)
    BY <1>0
  <2>2. P(j - i)
    BY <1>3, <2>1
  <2> HIDE DEF Q
  <2>3. QED BY <2>1, <2>2 DEF P
<1>5. QED BY <1>4

-----------------------------------------------------------------------------
(* The stream: the buffer with segment s of the i-th listed day is behind  *)
(* Base(i) + s - 1 others.                                                 *)

N       == Len(Listed)
Seg(i)  == Segments[Listed[i]]
Base(i) == Len(StreamOf(SubSeq(Listed, 1, i - 1)))

Item == [engine : Nat \X Nat, orders : {<<>>} \cup (Nat \X Nat),
         flag : {"FILE_HEAD", "IN_PROCESS", "FILE_END"}]

StartOK == start_date \in StartDates

LEMMA ListedType ==
  ASSUME StartOK
  PROVE  /\ Listed \in Seq(Nat) /\ N \in Nat /\ DOMAIN Listed = 1..N
         /\ \A i \in 1..N : Listed[i] \in DOMAIN Segments /\ Seg(i) \in Nat
<1> DEFINE before == IF start_date = None THEN 0 ELSE start_date - 1
<1>1. Len(Segments) \in Nat /\ DOMAIN Segments = 1..Len(Segments)
  BY DaysAssumption
<1>2. before \in 0..Len(Segments)
  BY <1>1, StartAssumption DEF StartOK
<1>3. Listed = [i \in 1..Len(Segments) - before |-> before + i]
  BY DEF Listed
<1> HIDE DEF before
<1>4. Len(Segments) - before \in Nat
  BY <1>1, <1>2
<1>5. /\ Listed \in Seq(Nat) /\ Len(Listed) = Len(Segments) - before
      /\ DOMAIN Listed = 1..Len(Segments) - before
  BY <1>1, <1>2, <1>3, <1>4
<1>6. \A i \in 1..N : Listed[i] \in 1..Len(Segments)
  BY <1>1, <1>2, <1>3, <1>5 DEF N
<1>7. QED BY <1>1, <1>5, <1>6, DaysAssumption DEF N, Seg

LEMMA DayType ==
  ASSUME NEW d \in Nat, Segments[d] \in Nat
  PROVE  /\ Day(d) \in Seq(Item) /\ Len(Day(d)) = Segments[d] + 1
<1>1. \A s \in 1..Segments[d] + 1 : Day(d)[s] \in Item
  BY DEF Day, Item
<1>2. Day(d) \in [1..Segments[d] + 1 -> Item]
  BY <1>1 DEF Day
<1>3. Segments[d] + 1 \in Nat
  OBVIOUS
<1>4. \A S : \A n \in Nat : \A t \in [1..n -> S] : t \in Seq(S) /\ Len(t) = n
  OBVIOUS
<1>5. QED BY <1>2, <1>3, <1>4

LEMMA StreamPrefixes ==
  ASSUME StartOK
  PROVE  \E f \in [0..N -> Seq(Item)] :
           /\ f[0] = <<>>
           /\ \A i \in 1..N : f[i] = f[i - 1] \o Day(Listed[i])
           /\ \A n \in 0..N : StreamOf(SubSeq(Listed, 1, n)) = f[n]
           /\ Growing(f, N)
<1> DEFINE seqs == [i \in 1..N |-> Day(Listed[i])]
<1>1. seqs \in Seq(Seq(Item)) /\ Len(seqs) = N /\ N \in Nat
  <2>1. \A i \in 1..N : Day(Listed[i]) \in Seq(Item)
    BY ListedType, DayType DEF Seg
  <2>2. N \in Nat
    BY ListedType
  <2>3. QED BY <2>1, <2>2
<1>2. PICK f \in [0..N -> Seq(Item)] : Concat(f, seqs)
  BY <1>1, ConcatExists
<1>3. f[0] = <<>> /\ \A i \in 1..N : f[i] = f[i - 1] \o Day(Listed[i])
  BY <1>1, <1>2 DEF Concat
<1>4. ASSUME NEW n \in 0..N
      PROVE  StreamOf(SubSeq(Listed, 1, n)) = f[n]
  <2> DEFINE part == SubSeq(Listed, 1, n)
             some == [i \in DOMAIN part |-> Day(part[i])]
             g == [i \in 0..n |-> f[i]]
  <2>1. DOMAIN part = 1..n /\ \A i \in 1..n : part[i] = Listed[i]
    BY <1>1, ListedType DEF N
  <2>2. some = [i \in 1..n |-> Day(Listed[i])]
    BY <2>1
  <2>3. some \in Seq(Seq(Item)) /\ Len(some) = n
    <3>1. \A i \in 1..n : Day(Listed[i]) \in Seq(Item)
      BY <1>1, ListedType, DayType DEF Seg
    <3>2. n \in Nat
      BY <1>1
    <3>3. QED BY <2>2, <3>1, <3>2
  <2>4. g \in [0..n -> Seq(Item)]
    BY <1>1
  <2>5. Concat(g, some)
    <3>1. g[0] = <<>>
      BY <1>1, <1>3
    <3>2. ASSUME NEW i \in 1..n PROVE g[i] = g[i - 1] \o some[i]
      <4>1. g[i] = f[i] /\ g[i - 1] = f[i - 1] /\ some[i] = Day(Listed[i]) /\ i \in 1..N
        BY <1>1, <2>2
      <4>2. QED BY <1>3, <4>1
    <3> HIDE DEF g, some
    <3>3. QED BY <2>3, <3>1, <3>2 DEF Concat
  <2>6. FlattenSeq(some) = g[n]
    <3> HIDE DEF g, some
    <3> QED BY <2>3, <2>4, <2>5, FlattenIsConcat
  <2>7. StreamOf(part) = FlattenSeq(some)
    BY DEF StreamOf
  <2>8. g[n] = f[n]
    BY <1>1
  <2> HIDE DEF g, some
  <2>9. QED BY <2>6, <2>7, <2>8
<1>5. Growing(f, N)
  <2> HIDE DEF seqs
  <2>1. f \in [0..Len(seqs) -> Seq(Item)]
    BY <1>1, <1>2
  <2>2. QED BY <1>1, <1>2, <2>1, ConcatPrefix
<1>6. QED BY <1>3, <1>4, <1>5

LEMMA Layout ==
  ASSUME StartOK
  PROVE  /\ Stream \in Seq(Item) /\ Len(Stream) = Base(N + 1)
         /\ Base(1) = 0 /\ \A i \in 1..N + 1 : Base(i) \in Nat /\ Base(i) <= Base(N + 1)
         /\ \A i \in 1..N : /\ Base(i + 1) = Base(i) + Seg(i) + 1
                            /\ \A s \in 1..Seg(i) + 1 : Stream[Base(i) + s] = Day(Listed[i])[s]
                            /\ StreamOf(SubSeq(Listed, 1, i - 1)) = SubSeq(Stream, 1, Base(i))
<1>1. PICK f \in [0..N -> Seq(Item)] :
           /\ f[0] = <<>>
           /\ \A i \in 1..N : f[i] = f[i - 1] \o Day(Listed[i])
           /\ \A n \in 0..N : StreamOf(SubSeq(Listed, 1, n)) = f[n]
           /\ Growing(f, N)
  BY StreamPrefixes
<1>2. N \in Nat /\ SubSeq(Listed, 1, N) = Listed
  BY ListedType DEF N
<1>3. \A i \in 1..N + 1 : Base(i) = Len(f[i - 1])
  <2> TAKE i \in 1..N + 1
  <2>1. i - 1 \in 0..N
    BY <1>2
  <2>2. QED BY <1>1, <2>1 DEF Base
<1>4. Stream = f[N]
  <2>1. StreamOf(SubSeq(Listed, 1, N)) = f[N] /\ N \in 0..N
    BY <1>1, <1>2
  <2>2. QED BY <1>2, <2>1 DEF Stream
<1>5. \A i \in 0..N : f[i] \in Seq(Item) /\ Len(f[i]) \in Nat
  BY <1>1
<1>6. Stream \in Seq(Item) /\ Len(Stream) = Base(N + 1)
  BY <1>2, <1>3, <1>4, <1>5
<1>7. Base(1) = 0
  BY <1>1, <1>2, <1>3
<1>8. ASSUME NEW i \in 1..N + 1 PROVE Base(i) \in Nat /\ Base(i) <= Base(N + 1)
  <2>1. i - 1 \in 0..N /\ N \in (i - 1)..N
    BY <1>2
  <2>2. Len(f[i - 1]) <= Len(f[N])
    BY <1>1, <1>2, <2>1 DEF Growing
  <2>3. Base(N + 1) = Len(f[N])
    BY <1>2, <1>3
  <2>4. QED BY <1>3, <1>5, <2>1, <2>2, <2>3
<1>9. ASSUME NEW i \in 1..N
      PROVE  /\ Base(i + 1) = Base(i) + Seg(i) + 1
             /\ \A s \in 1..Seg(i) + 1 : Stream[Base(i) + s] = Day(Listed[i])[s]
             /\ StreamOf(SubSeq(Listed, 1, i - 1)) = SubSeq(Stream, 1, Base(i))
  <2>1. i - 1 \in 0..N /\ i \in 0..N /\ i \in 1..N + 1 /\ i + 1 \in 1..N + 1 /\ (i + 1) - 1 = i
        /\ N \in i..N /\ N \in (i - 1)..N
    BY <1>2
  <2>2. f[i] = f[i - 1] \o Day(Listed[i])
    BY <1>1
  <2>3. Day(Listed[i]) \in Seq(Item) /\ Len(Day(Listed[i])) = Seg(i) + 1 /\ Seg(i) \in Nat
    BY ListedType, DayType DEF Seg
  <2>4. Base(i) = Len(f[i - 1]) /\ Base(i + 1) = Len(f[i])
    BY <1>3, <2>1
  <2>5. Len(f[i]) = Len(f[i - 1]) + Len(Day(Listed[i]))
    BY <1>5, <2>1, <2>2, <2>3, ConcatProperties
  <2>6. ASSUME NEW s \in 1..Seg(i) + 1
        PROVE  Stream[Base(i) + s] = Day(Listed[i])[s]
    <3>1. Base(i) + s \in 1..Len(f[i]) /\ Base(i) \in Nat
      BY <1>5, <2>1, <2>3, <2>4, <2>5
    <3>2. f[N][Base(i) + s] = f[i][Base(i) + s]
      BY <1>1, <2>1, <3>1 DEF Growing
    <3>3. f[i][Base(i) + s] = Day(Listed[i])[s]
      BY <1>5, <2>1, <2>2, <2>3, <2>4, <2>5, <3>1
    <3>4. QED BY <1>4, <3>2, <3>3
  <2>7. f[i - 1] = SubSeq(Stream, 1, Base(i))
    <3>1. Len(f[i - 1]) <= Len(f[N]) /\ \A k \in 1..Len(f[i - 1]) : f[N][k] = f[i - 1][k]
      BY <1>1, <1>2, <2>1 DEF Growing
    <3>2. f[i - 1] \in Seq(Item) /\ f[N] \in Seq(Item)
      BY <1>2, <1>5, <2>1
    <3>3. f[i - 1] = SubSeq(f[N], 1, Len(f[i - 1]))
      <4> DEFINE u == f[i - 1]
                 v == f[N]
      <4>1. u \in Seq(Item) /\ v \in Seq(Item) /\ Len(u) <= Len(v) /\ \A k \in 1..Len(u) : v[k] = u[k]
        BY <3>1, <3>2
      <4> HIDE DEF u, v
      <4>2. u = SubSeq(v, 1, Len(u))
        BY <4>1
      <4>3. QED BY <4>2 DEF u, v
    <3>4. QED BY <1>4, <2>4, <3>3
  <2>8. StreamOf(SubSeq(Listed, 1, i - 1)) = f[i - 1]
    BY <1>1, <2>1
  <2>9. Base(i + 1) = Base(i) + Seg(i) + 1
    <3> DEFINE a == Len(f[i - 1])
               b == Len(Day(Listed[i]))
    <3>1. Base(i) = a /\ Base(i + 1) = a + b /\ b = Seg(i) + 1 /\ Seg(i) \in Nat /\ a \in Nat
      BY <1>5, <2>1, <2>3, <2>4, <2>5
    <3> HIDE DEF a, b
    <3>2. QED BY <3>1
  <2>10. StreamOf(SubSeq(Listed, 1, i - 1)) = SubSeq(Stream, 1, Base(i))
    BY <2>7, <2>8
  <2>11. QED BY <2>6, <2>9, <2>10
<1>10. QED BY <1>6, <1>7, <1>8, <1>9

-----------------------------------------------------------------------------
(* The k-th buffer published, from 0 on, is in slot k % BUFFER_NUM.         *)

LEMMA DivMod ==
  ASSUME NEW a \in Nat, NEW b \in Nat \ {0}
  PROVE  \E q \in Nat : \E r \in 0..b - 1 : a = (b * q) + r /\ a % b = r
<1>1. a % b \in 0..b - 1 /\ a = (b * (a \div b)) + (a % b) /\ a \div b \in Nat
  OBVIOUS
<1>2. QED BY <1>1

LEMMA ModUnique ==
  ASSUME NEW b \in Nat \ {0}, NEW q \in Nat, NEW r \in 0..b - 1
  PROVE  ((b * q) + r) % b = r
OBVIOUS

LEMMA ModNext ==
  ASSUME NEW b \in Nat \ {0}, NEW k \in Nat
  PROVE  ((k % b) + 1) % b = (k + 1) % b
<1>1. PICK q \in Nat, r \in 0..b - 1 : k = (b * q) + r /\ k % b = r
  BY DivMod
<1>2. CASE r + 1 < b
  <2>1. r + 1 \in 0..b - 1 /\ k + 1 = (b * q) + (r + 1)
    BY <1>1, <1>2
  <2>2. ((b * q) + (r + 1)) % b = r + 1
    BY <2>1, ModUnique
  <2>3. (r + 1) % b = r + 1
    BY <2>1
  <2>4. QED BY <1>1, <2>1, <2>2, <2>3
<1>3. CASE r + 1 = b
  <2>1. 0 \in 0..b - 1 /\ k + 1 = (b * (q + 1)) + 0 /\ q + 1 \in Nat
    BY <1>1, <1>3
  <2>2. ((b * (q + 1)) + 0) % b = 0
    BY <2>1, ModUnique
  <2>3. (r + 1) % b = 0
    BY <1>3
  <2>4. QED BY <1>1, <2>1, <2>2, <2>3
<1>4. QED BY <1>2, <1>3

LEMMA ModPlus ==
  ASSUME NEW b \in Nat \ {0}, NEW k \in Nat
  PROVE  (k + b) % b = k % b
<1>1. PICK q \in Nat, r \in 0..b - 1 : k = (b * q) + r /\ k % b = r
  BY DivMod
<1>2. k + b = (b * (q + 1)) + r /\ q + 1 \in Nat
  BY <1>1
<1>3. ((b * (q + 1)) + r) % b = r
  BY <1>2, ModUnique
<1>4. QED BY <1>1, <1>2, <1>3

LEMMA ModApart ==
  ASSUME NEW b \in Nat \ {0}, NEW k \in Nat, NEW l \in Nat, k < l, l < k + b
  PROVE  k % b # l % b
<1>1. PICK q \in Nat, r \in 0..b - 1 : k = (b * q) + r /\ k % b = r
  BY DivMod
<1>2. PICK q2 \in Nat, r2 \in 0..b - 1 : l = (b * q2) + r2 /\ l % b = r2
  BY DivMod
<1>3. SUFFICES ASSUME r = r2 PROVE FALSE
  BY <1>1, <1>2
<1>4. CASE q2 <= q
  <2>1. b * q2 <= b * q
    BY <1>4
  <2>2. QED BY <1>1, <1>2, <1>3, <2>1
<1>5. CASE q2 >= q + 1
  <2>1. b * q2 >= (b * q) + b
    BY <1>5
  <2>2. QED BY <1>1, <1>2, <1>3, <2>1
<1>6. QED BY <1>4, <1>5
Slot(k) == k % BUFFER_NUM

LEMMA SlotFacts ==
  /\ Slot(0) = 0
  /\ \A k \in Nat : /\ Slot(k) \in Slots /\ INCR(Slot(k)) = Slot(k + 1)
                    /\ Slot(k + BUFFER_NUM) = Slot(k)
  /\ \A k, l \in Nat : k < l /\ l < k + BUFFER_NUM => Slot(k) # Slot(l)
<1>1. Slot(0) = 0
  BY RingAssumption DEF Slot
<1>2. ASSUME NEW k \in Nat
      PROVE  Slot(k) \in Slots /\ INCR(Slot(k)) = Slot(k + 1) /\ Slot(k + BUFFER_NUM) = Slot(k)
  <2>1. Slot(k) \in Slots
    BY RingAssumption, DivMod DEF Slot, Slots
  <2>2. INCR(Slot(k)) = Slot(k + 1)
    BY RingAssumption, ModNext DEF Slot, INCR
  <2>3. Slot(k + BUFFER_NUM) = Slot(k)
    BY RingAssumption, ModPlus DEF Slot
  <2>4. QED BY <2>1, <2>2, <2>3
<1>3. ASSUME NEW k \in Nat, NEW l \in Nat, k < l, l < k + BUFFER_NUM
      PROVE  Slot(k) # Slot(l)
  BY <1>3, RingAssumption, ModApart DEF Slot
<1>4. QED BY <1>1, <1>2, <1>3

-----------------------------------------------------------------------------
(* Every place in the stream is one segment, or the end, of one day.       *)

LEMMA BaseOrder ==
  ASSUME StartOK, NEW i \in 1..N + 1, NEW j \in 1..N + 1, i <= j
  PROVE  Base(i) <= Base(j)
<1>1. PICK f \in [0..N -> Seq(Item)] :
           /\ \A n \in 0..N : StreamOf(SubSeq(Listed, 1, n)) = f[n]
           /\ Growing(f, N)
  BY StreamPrefixes
<1>2. i - 1 \in 0..N /\ j - 1 \in (i - 1)..N /\ j - 1 \in 0..N
  BY ListedType
<1>3. Len(f[i - 1]) <= Len(f[j - 1])
  BY <1>1, <1>2 DEF Growing
<1>4. QED BY <1>1, <1>2, <1>3 DEF Base

\* Segment s of the i-th listed day, Seg(i) + 1 for its end, has k before it.
At(k, i, s) == i \in 1..N /\ s \in 1..Seg(i) + 1 /\ k = Base(i) + s - 1

LEMMA Located ==
  ASSUME StartOK, NEW k \in Nat, k < Base(N + 1)
  PROVE  \E i \in 1..N : \E s \in 1..Seg(i) + 1 : At(k, i, s)
<1> DEFINE P(n) == n <= N /\ k < Base(n + 1) => \E i \in 1..N : \E s \in 1..Seg(i) + 1 : At(k, i, s)
           T == {n \in Nat : P(n)}
<1>1. P(0)
  BY Layout
<1>2. ASSUME NEW n \in Nat, P(n) PROVE P(n + 1)
  <2> SUFFICES ASSUME n + 1 <= N, k < Base((n + 1) + 1)
               PROVE  \E i \in 1..N : \E s \in 1..Seg(i) + 1 : At(k, i, s)
    OBVIOUS
  <2> DEFINE i == n + 1
             s == k - Base(i) + 1
  <2>1. i \in 1..N /\ i \in 1..N + 1 /\ n <= N
    BY ListedType
  <2>2. Base(i + 1) = Base(i) + Seg(i) + 1 /\ Base(i) \in Nat /\ Seg(i) \in Nat
    BY <2>1, Layout, ListedType
  <2>3. CASE k < Base(i)
    BY <1>2, <2>1, <2>3
  <2>4. CASE Base(i) <= k
    <3>1. s \in 1..Seg(i) + 1 /\ k = Base(i) + s - 1
      BY <2>2, <2>4
    <3>2. QED BY <2>1, <3>1 DEF At
  <2>5. QED BY <2>2, <2>3, <2>4
<1> HIDE DEF P
<1>3. Nat \subseteq T
  <2>1. 0 \in T /\ \A n \in Nat : n \in T => n + 1 \in T
    BY <1>1, <1>2
  <2> HIDE DEF T
  <2>2. QED BY <2>1, SetInduction
<1>4. P(N)
  BY <1>3, ListedType
<1>5. QED BY <1>4, ListedType DEF P

LEMMA OnePlace ==
  ASSUME StartOK, NEW k, NEW i, NEW s, NEW j, NEW t, At(k, i, s), At(k, j, t)
  PROVE  i = j /\ s = t
<1>1. \A m, n \in 1..N : m < n => Base(m) + Seg(m) + 1 <= Base(n)
  <2> TAKE m, n \in 1..N
  <2> HAVE m < n
  <2>1. m + 1 \in 1..N + 1 /\ n \in 1..N + 1 /\ m + 1 <= n /\ m \in 1..N
    BY ListedType
  <2>2. Base(m + 1) <= Base(n)
    BY <2>1, BaseOrder
  <2>3. QED BY <2>1, <2>2, Layout
<1>2. \A m \in 1..N : Base(m) \in Nat /\ Seg(m) \in Nat
  BY Layout, ListedType
<1>3. N \in Nat
  BY ListedType
<1>4. ~(i < j) /\ ~(j < i)
  BY <1>1, <1>2, <1>3 DEF At
<1>5. i = j
  BY <1>3, <1>4 DEF At
<1>6. QED BY <1>2, <1>5 DEF At

\* The stream stays what it is while the start date does.
LEMMA SameStream ==
  ASSUME start_date' = start_date
  PROVE  /\ Listed' = Listed /\ N' = N /\ Stream' = Stream
         /\ \A i : Seg(i)' = Seg(i) /\ Base(i)' = Base(i)
         /\ \A k, i, s : At(k, i, s)' = At(k, i, s)
<1>1. Listed' = Listed
  BY DEF Listed
<1>2. N' = N /\ Stream' = Stream
  BY <1>1 DEF N, Stream, StreamOf
<1>3. ASSUME NEW i PROVE Seg(i)' = Seg(i) /\ Base(i)' = Base(i)
  BY <1>1 DEF Seg, Base, StreamOf
<1>4. ASSUME NEW k, NEW i, NEW s PROVE At(k, i, s)' = At(k, i, s)
  BY <1>2, <1>3 DEF At
<1>5. QED BY <1>1, <1>2, <1>3, <1>4

-----------------------------------------------------------------------------
(* What the workers have not finished with is in the ring, in order.       *)

\* The slot holds segment s of the i-th listed day, or the end of that day.  The
\* end of a day without orders shares its buffer with the head of the day.
Holds(i, s, slot) ==
  /\ s = 1 /\ s <= Seg(i) =>
       flag[slot] = "FILE_HEAD" /\ path[slot] = Listed[i] /\ header[slot] = Listed[i]
  /\ s > 1 /\ s <= Seg(i) => flag[slot] = "IN_PROCESS"
  /\ s <= Seg(i) => order_count[slot] = 1 /\ order_data[slot] = <<Listed[i], s>>
  /\ s > Seg(i) => flag[slot] = "FILE_END" /\ (s > 1 => order_count[slot] = 0)

\* How far the loader is, and in which slot.
LoaderAt ==
  /\ ioPc = "list" => published = 0 /\ day = 1
  /\ ioPc # "list" => path_list = Listed
  /\ ioPc \notin {"list", "done"} => day \in 1..N
  /\ ioPc = "head" => published = Base(day)
  /\ ioPc \in {"header", "read", "next", "end"} => published = Base(day) + offset /\ offset \in 0..Seg(day)
  /\ ioPc = "header" => offset = 0
  /\ ioPc = "publish" => published = Base(day) + offset - 1 /\ offset \in 1..Seg(day)
  /\ ioPc = "next" => offset > 0
  /\ ioPc = "end" => offset = Seg(day)
  /\ ioPc = "done" => published = Base(N + 1)
  /\ ioIndex = Slot(published)

\* What is already in the buffer the loader writes.
LoaderHas ==
  /\ ioPc = "header" => flag[ioIndex] = "FILE_HEAD" /\ path[ioIndex] = Listed[day]
  /\ ioPc = "read" => IF offset = 0
       THEN flag[ioIndex] = "FILE_HEAD" /\ path[ioIndex] = Listed[day] /\ header[ioIndex] = Listed[day]
       ELSE flag[ioIndex] = "IN_PROCESS" /\ order_count[ioIndex] = 0
  /\ ioPc = "publish" => Holds(day, offset, ioIndex)
  /\ ioPc = "end" => Holds(day, offset + 1, ioIndex)

\* The buffers worker w has released; it has processed one more before it
\* releases that one.
Done(w) == IF pc[w] \in {"finish", "release"} THEN Len(seen[w]) - 1 ELSE Len(seen[w])

WorkerAt(w) ==
  /\ seen[w] = SubSeq(Stream, 1, Len(seen[w]))
  /\ Done(w) \in 0..published /\ published <= Done(w) + BUFFER_NUM
  /\ pc[w] # "wait" => Done(w) < published
  /\ index[w] = Slot(Done(w))

\* Its bit is cleared in what it has to process and set in every other buffer.
Bits(w) ==
  /\ \A k \in Done(w)..published - 1 : w \notin finish_bit[Slot(k)]
  /\ \A slot \in Slots :
       (\A k \in Done(w)..published - 1 : Slot(k) # slot) => w \in finish_bit[slot]

Contents(w) ==
  \A i \in 1..N : \A s \in 1..Seg(i) + 1 : \A k \in Done(w)..published - 1 :
    At(k, i, s) => Holds(i, s, Slot(k))

Made(i) == <<Listed[i], Listed[i]>>

\* From the head of a day to its end the worker has the engine of the day.
EngineAt(w) ==
  \A i \in 1..N : \A s \in 1..Seg(i) + 1 :
    At(Done(w), i, s) =>
      /\ pc[w] \in {"wait", "start"} => engine[w] = IF s = 1 THEN None ELSE Made(i)
      /\ pc[w] = "orders" => engine[w] = IF Seg(i) = 0 THEN None ELSE Made(i)
      /\ pc[w] = "finish" => Seg(i) > 0 /\ engine[w] = Made(i)
      /\ pc[w] = "release" => Seg(i) > 0 /\ engine[w] = IF s > Seg(i) THEN None ELSE Made(i)

\* No worker gets past a day without orders.
Passed(w) == \A i \in 1..N : Base(i) < Done(w) => Seg(i) > 0

Crash == crashed => \E w \in Worker : pc[w] = "orders" /\ NoEngine(w)

Kinds ==
  /\ start_date \in StartDates
  /\ path \in [Slots -> Nat \cup {None}] /\ header \in [Slots -> Nat \cup {None}]
  /\ order_data \in [Slots -> {<<>>} \cup (Nat \X Nat)]
  /\ engine \in [Worker -> {None} \cup ((Nat \cup {None}) \X (Nat \cup {None}))]
  /\ seen \in [Worker -> Seq(Item)]

WorkerInv(w) == WorkerAt(w) /\ Bits(w) /\ Contents(w) /\ EngineAt(w) /\ Passed(w)

Delivery == /\ HandOver /\ Kinds /\ LoaderAt /\ LoaderHas /\ Crash
            /\ \A w \in Worker : WorkerInv(w)

LEMMA DeliveryFacts ==
  ASSUME Delivery
  PROVE  /\ StartOK /\ published \in Nat /\ BUFFER_NUM \in Nat \ {0}
         /\ \A w \in Worker : Done(w) \in Nat /\ Len(seen[w]) \in Nat
BY RingAssumption DEF Delivery, HandOver, TypeOK, Kinds, StartOK, WorkerInv, WorkerAt

LEMMA DeliveryInit == Init => Delivery
<1> SUFFICES ASSUME Init PROVE Delivery
  OBVIOUS
<1>1. StartOK /\ HandOver
  BY HandOverInit DEF Init, StartOK
<1>2. Kinds
  BY <1>1, EmptySeq DEF Init, Kinds, StartOK
<1>3. LoaderAt /\ LoaderHas /\ Crash
  BY SlotFacts DEF Init, LoaderAt, LoaderHas, Crash
<1>4. ASSUME NEW w \in Worker PROVE WorkerInv(w)
  <2>1. pc[w] = "wait" /\ seen[w] = <<>> /\ published = 0 /\ index[w] = 0 /\ engine[w] = None
    BY DEF Init
  <2>2. Done(w) = 0
    BY <2>1 DEF Done
  <2>3. SubSeq(Stream, 1, 0) = <<>>
    BY <1>1, Layout
  <2>4. WorkerAt(w)
    BY <2>1, <2>2, <2>3, SlotFacts, RingAssumption DEF WorkerAt
  <2>5. Bits(w)
    BY <2>1, <2>2 DEF Bits, Init
  <2>6. Contents(w)
    BY <2>1, <2>2 DEF Contents
  <2>7. ASSUME NEW i \in 1..N, NEW s \in 1..Seg(i) + 1, At(0, i, s) PROVE s = 1
    <3>1. Base(i) \in Nat /\ Seg(i) \in Nat
      BY <1>1, Layout, ListedType
    <3>2. QED BY <2>7, <3>1 DEF At
  <2>8. EngineAt(w)
    BY <2>1, <2>2, <2>7 DEF EngineAt
  <2>9. Passed(w)
    BY <1>1, <2>2, Layout, ListedType DEF Passed
  <2>10. QED BY <2>4, <2>5, <2>6, <2>8, <2>9 DEF WorkerInv
<1>5. QED BY <1>1, <1>2, <1>3, <1>4 DEF Delivery

\* A buffer all workers have finished with is none they still have to process.
LEMMA Room ==
  ASSUME Delivery, Free, NEW w \in Worker
  PROVE  published < Done(w) + BUFFER_NUM
<1> SUFFICES ASSUME published = Done(w) + BUFFER_NUM PROVE FALSE
  BY DeliveryFacts DEF Delivery, WorkerInv, WorkerAt
<1>1. Done(w) \in Done(w)..published - 1
  BY DeliveryFacts
<1>2. w \notin finish_bit[Slot(Done(w))]
  BY <1>1 DEF Delivery, WorkerInv, Bits
<1>3. ioIndex = Slot(Done(w))
  BY DeliveryFacts, SlotFacts DEF Delivery, LoaderAt
<1>4. QED BY <1>2, <1>3 DEF Free

\* The slot of the loader is none of those either.
LEMMA OtherSlots ==
  ASSUME Delivery, Free, NEW w \in Worker, NEW k \in Done(w)..published - 1
  PROVE  Slot(k) \in Slots \ {ioIndex} /\ k \in Nat
<1>1. k \in Nat /\ k < published /\ published < k + BUFFER_NUM
  BY Room, DeliveryFacts
<1>2. ioIndex = Slot(published)
  BY DEF Delivery, LoaderAt
<1>3. QED BY <1>1, <1>2, SlotFacts, DeliveryFacts

SameSlot(slot) ==
  /\ flag'[slot] = flag[slot] /\ path'[slot] = path[slot] /\ header'[slot] = header[slot]
  /\ order_data'[slot] = order_data[slot] /\ order_count'[slot] = order_count[slot]

LEMMA HoldsKept ==
  ASSUME start_date' = start_date, NEW i, NEW s, NEW slot, SameSlot(slot)
  PROVE  Holds(i, s, slot)' = Holds(i, s, slot)
BY SameStream DEF Holds, SameSlot

\* A step of the loader that publishes nothing.
LEMMA LoaderInside ==
  ASSUME Delivery, Free, ~crashed, UNCHANGED <<finish_bit, work, seen, published, start_date>>,
         \A slot \in Slots \ {ioIndex} : SameSlot(slot),
         HandOver', Kinds', LoaderAt', LoaderHas'
  PROVE  Delivery'
<1>1. Crash'
  BY DEF Crash, work
<1>2. ASSUME NEW w \in Worker PROVE WorkerInv(w)'
  <2> USE DEF Delivery, WorkerInv
  <2>1. Done(w)' = Done(w) /\ pc' = pc /\ index' = index /\ engine' = engine /\ start_date' = start_date
    BY DEF Done, work
  <2>2. WorkerAt(w)'
    BY <2>1, SameStream DEF WorkerAt
  <2>3. Bits(w)'
    BY <2>1 DEF Bits
  <2>4. Contents(w)'
    <3>1. SUFFICES ASSUME NEW i \in 1..N, NEW s \in 1..Seg(i) + 1, NEW k \in Done(w)..published - 1,
                          At(k, i, s)
                   PROVE  Holds(i, s, Slot(k))'
      BY <2>1, SameStream DEF Contents
    <3>2. Holds(i, s, Slot(k))
      BY <3>1 DEF Contents
    <3>3. QED BY <2>1, <3>2, OtherSlots, HoldsKept
  <2>5. EngineAt(w)'
    BY <2>1, SameStream DEF EngineAt, Made
  <2>6. Passed(w)'
    BY <2>1, SameStream DEF Passed
  <2>7. QED BY <2>2, <2>3, <2>4, <2>5, <2>6
<1>3. QED BY <1>1, <1>2 DEF Delivery

\* Publishing the buffer at hand.
LEMMA LoaderPublishes ==
  ASSUME Delivery, Free, ~crashed, Publish,
         UNCHANGED <<flag, path, header, order_data, order_count, work, seen, start_date>>,
         NEW i, NEW s, At(published, i, s), Holds(i, s, ioIndex),
         HandOver', Kinds', LoaderAt', LoaderHas'
  PROVE  Delivery'
<1>1. Crash'
  BY DEF Crash, work
<1>2. ASSUME NEW w \in Worker PROVE WorkerInv(w)'
  <2> USE DEF Delivery, WorkerInv
  <2>1. Done(w)' = Done(w) /\ pc' = pc /\ index' = index /\ engine' = engine /\ start_date' = start_date
    BY DEF Done, work
  <2>2. published' = published + 1 /\ published \in Nat /\ Done(w) \in Nat
    BY DeliveryFacts DEF Publish
  <2>3. published < Done(w) + BUFFER_NUM /\ ioIndex = Slot(published) /\ ioIndex \in Slots
    BY Room, DeliveryFacts, SlotFacts DEF LoaderAt
  <2>4. /\ finish_bit'[ioIndex] = {}
        /\ \A slot \in Slots \ {ioIndex} : finish_bit'[slot] = finish_bit[slot]
    BY <2>3 DEF Publish, HandOver, TypeOK
  <2>5. WorkerAt(w)'
    BY <2>1, <2>2, <2>3, DeliveryFacts, SameStream DEF WorkerAt
  <2>6. Bits(w)'
    <3>1. ASSUME NEW k \in Done(w)..published PROVE w \notin finish_bit'[Slot(k)]
      <4>1. CASE k = published
        BY <2>3, <2>4, <4>1
      <4>2. CASE k # published
        <5>1. k \in Done(w)..published - 1
          BY <2>2, <4>2
        <5>2. QED BY <2>4, <5>1, OtherSlots DEF Bits
      <4>3. QED BY <4>1, <4>2
    <3>2. ASSUME NEW slot \in Slots, \A k \in Done(w)..published : Slot(k) # slot
          PROVE  w \in finish_bit'[slot]
      <4>1. slot # ioIndex
        <5>1. published \in Done(w)..published
          BY <2>2 DEF WorkerAt
        <5>2. QED BY <2>3, <3>2, <5>1
      <4>2. \A k \in Done(w)..published - 1 : Slot(k) # slot
        BY <2>2, <3>2
      <4>3. QED BY <2>4, <4>1, <4>2 DEF Bits
    <3>3. published' - 1 = published
      BY <2>2
    <3>4. QED BY <2>1, <3>1, <3>2, <3>3 DEF Bits
  <2>7. Contents(w)'
    <3>0. published' - 1 = published
      BY <2>2
    <3>1. SUFFICES ASSUME NEW j \in 1..N, NEW t \in 1..Seg(j) + 1, NEW k \in Done(w)..published,
                          At(k, j, t)
                   PROVE  Holds(j, t, Slot(k))'
      BY <2>1, <3>0, SameStream DEF Contents
    <3>2. Holds(j, t, Slot(k))' = Holds(j, t, Slot(k))
      <4>1. SameSlot(Slot(k))
        BY DEF SameSlot
      <4>2. QED BY <2>1, <4>1, HoldsKept
    <3>3. CASE k = published
      <4>1. i = j /\ s = t
        BY <3>1, <3>3, OnePlace, DeliveryFacts
      <4>2. QED BY <2>3, <3>2, <3>3, <4>1
    <3>4. CASE k # published
      <4>1. k \in Done(w)..published - 1
        BY <2>2, <3>4
      <4>2. Holds(j, t, Slot(k))
        BY <3>1, <4>1 DEF Contents
      <4>3. QED BY <3>2, <4>2
    <3>5. QED BY <3>3, <3>4
  <2>8. EngineAt(w)'
    BY <2>1, SameStream DEF EngineAt, Made
  <2>9. Passed(w)'
    BY <2>1, SameStream DEF Passed
  <2>10. QED BY <2>5, <2>6, <2>7, <2>8, <2>9
<1>3. QED BY <1>1, <1>2 DEF Delivery

LEMMA PlaceFacts ==
  ASSUME StartOK, NEW i \in 1..N
  PROVE  /\ Listed[i] \in Nat /\ Seg(i) \in Nat /\ Base(i) \in Nat /\ Base(i + 1) = Base(i) + Seg(i) + 1
         /\ Base(i) < Base(N + 1) /\ N \in Nat
         /\ \A s \in 1..Seg(i) + 1 : /\ At(Base(i) + s - 1, i, s)
                                     /\ Base(i) + s - 1 \in Nat /\ Base(i) + s - 1 < Base(N + 1)
<1>1. i \in 1..N + 1 /\ i + 1 \in 1..N + 1 /\ N + 1 \in 1..N + 1 /\ i + 1 <= N + 1 /\ N \in Nat
  BY ListedType
<1>2. /\ Listed[i] \in Nat /\ Seg(i) \in Nat /\ Base(i) \in Nat /\ Base(i + 1) = Base(i) + Seg(i) + 1
      /\ Base(N + 1) \in Nat
  BY <1>1, ListedType, Layout DEF N
<1>3. Base(i + 1) <= Base(N + 1)
  BY <1>1, BaseOrder
<1>4. ASSUME NEW s \in 1..Seg(i) + 1
      PROVE  At(Base(i) + s - 1, i, s) /\ Base(i) + s - 1 \in Nat /\ Base(i) + s - 1 < Base(N + 1)
  BY <1>2, <1>3 DEF At
<1>5. QED BY <1>1, <1>2, <1>3, <1>4

LEMMA DeliveryLoader ==
  ASSUME Delivery, IO
  PROVE  Delivery'
<1>1. /\ HandOver' /\ ~crashed /\ StartOK /\ (Writing => Free) /\ published \in Nat
      /\ (ioPc # "list" => path_list = Listed) /\ (ioPc \notin {"list", "done"} => day \in 1..N)
      /\ ioIndex = Slot(published) /\ ioIndex \in Slots /\ offset \in Nat
  <2>1. HandOver'
    BY LoaderStep DEF Delivery
  <2>2. ~crashed /\ StartOK /\ published \in Nat
    BY DeliveryFacts DEF IO
  <2>3. (Writing => Free) /\ ioIndex \in Slots /\ offset \in Nat
    BY DEF Delivery, HandOver, LoaderOwns, TypeOK
  <2>4. /\ (ioPc # "list" => path_list = Listed) /\ (ioPc \notin {"list", "done"} => day \in 1..N)
        /\ ioIndex = Slot(published)
    BY DEF Delivery, LoaderAt
  <2>5. QED BY <2>1, <2>2, <2>3, <2>4
<1>2. ASSUME day \in 1..N
      PROVE  /\ Seg(day) \in Nat /\ Base(day) \in Nat /\ Base(day + 1) = Base(day) + Seg(day) + 1
             /\ Listed[day] \in Nat /\ N \in Nat /\ day \in Nat
  <2>1. N \in Nat
    BY <1>1, ListedType
  <2>2. QED BY <1>1, <1>2, <2>1, PlaceFacts
<1>3. CASE StartDay
  <2>1. Free /\ UNCHANGED <<finish_bit, work, seen, published, start_date, path_list, day, ioIndex>>
        /\ \A slot \in Slots \ {ioIndex} : SameSlot(slot)
    BY <1>3 DEF StartDay, SameSlot, Kinds, Delivery, HandOver, TypeOK, args
  <2>2. Kinds'
    BY <1>1, <1>2, <1>3 DEF StartDay, Kinds, Delivery, work, args
  <2>3. LoaderAt'
    BY <1>1, <1>2, <1>3, SameStream DEF StartDay, Delivery, LoaderAt, args
  <2>4. LoaderHas'
    BY <1>1, <1>3, SameStream DEF StartDay, Delivery, LoaderHas, Kinds, HandOver, TypeOK, args
  <2>5. QED BY <1>1, <2>1, <2>2, <2>3, <2>4, LoaderInside
<1>4. CASE ReadHeader
  <2>1. Free /\ UNCHANGED <<finish_bit, work, seen, published, start_date, path_list, day, ioIndex>>
        /\ \A slot \in Slots \ {ioIndex} : SameSlot(slot)
    BY <1>1, <1>4 DEF ReadHeader, Writing, SameSlot, Kinds, Delivery, HandOver, TypeOK, args
  <2>2. Kinds'
    BY <1>1, <1>2, <1>4 DEF ReadHeader, Kinds, Delivery, work, args
  <2>3. LoaderAt'
    BY <1>1, <1>2, <1>4, SameStream DEF ReadHeader, Delivery, LoaderAt, args
  <2>4. LoaderHas'
    BY <1>1, <1>4, SameStream DEF ReadHeader, Delivery, LoaderHas, LoaderAt, Kinds, args
  <2>5. QED BY <1>1, <2>1, <2>2, <2>3, <2>4, LoaderInside
<1>5. CASE ReadSegment
  <2>1. Free /\ UNCHANGED <<finish_bit, work, seen, published, start_date, path_list, day, ioIndex>>
        /\ \A slot \in Slots \ {ioIndex} : SameSlot(slot)
    BY <1>1, <1>5 DEF ReadSegment, Writing, SameSlot, Kinds, Delivery, HandOver, TypeOK, args
  <2>2. offset < Seg(day) /\ offset' = offset + 1 /\ published = Base(day) + offset
    BY <1>1, <1>5 DEF ReadSegment, Seg, Delivery, LoaderAt
  <2>3. Kinds'
    BY <1>1, <1>2, <1>5 DEF ReadSegment, Kinds, Delivery, work, args
  <2>4. LoaderAt'
    BY <1>1, <1>2, <1>5, <2>2, SameStream DEF ReadSegment, Delivery, LoaderAt, args
  <2>5. LoaderHas'
    BY <1>1, <1>2, <1>5, <2>2, SameStream
       DEF ReadSegment, Delivery, LoaderHas, Holds, Kinds, HandOver, TypeOK, args
  <2>6. QED BY <1>1, <2>1, <2>3, <2>4, <2>5, LoaderInside
<1>6. CASE NextBuffer
  <2>1. Free /\ UNCHANGED <<finish_bit, work, seen, published, start_date, path_list, day, ioIndex>>
        /\ \A slot \in Slots \ {ioIndex} : SameSlot(slot)
    BY <1>6 DEF NextBuffer, SameSlot, Kinds, Delivery, HandOver, TypeOK, args
  <2>2. Kinds'
    BY <1>1, <1>6 DEF NextBuffer, Kinds, Delivery, work, args
  <2>3. LoaderAt'
    BY <1>1, <1>2, <1>6, SameStream DEF NextBuffer, Delivery, LoaderAt, args
  <2>4. LoaderHas'
    BY <1>1, <1>2, <1>6, SameStream DEF NextBuffer, Delivery, LoaderAt, LoaderHas, HandOver, TypeOK, args
  <2>5. QED BY <1>1, <2>1, <2>2, <2>3, <2>4, LoaderInside
<1>7. CASE EndOfLog
  <2>1. Free /\ UNCHANGED <<finish_bit, work, seen, published, start_date, path_list, day, ioIndex>>
        /\ \A slot \in Slots \ {ioIndex} : SameSlot(slot)
    BY <1>1, <1>7 DEF EndOfLog, Writing, SameSlot, Kinds, Delivery, HandOver, TypeOK, args
  <2>2. offset = Seg(day)
    BY <1>1, <1>2, <1>7 DEF EndOfLog, Seg, Delivery, LoaderAt
  <2>3. Kinds'
    BY <1>1, <1>7 DEF EndOfLog, Kinds, Delivery, work, args
  <2>4. LoaderAt'
    BY <1>1, <1>2, <1>7, <2>2, SameStream DEF EndOfLog, Delivery, LoaderAt, args
  <2>5. LoaderHas'
    BY <1>1, <1>2, <1>7, <2>2, SameStream
       DEF EndOfLog, Delivery, LoaderHas, Holds, HandOver, TypeOK, args
  <2>6. QED BY <1>1, <2>1, <2>3, <2>4, <2>5, LoaderInside
<1>8. CASE PublishSegment
  <2>1. Free /\ Publish /\ UNCHANGED <<flag, path, header, order_data, order_count, work, seen, start_date>>
    BY <1>1, <1>8 DEF PublishSegment, Writing, args
  <2>2. offset \in 1..Seg(day) /\ published = Base(day) + offset - 1 /\ Holds(day, offset, ioIndex)
    BY <1>8 DEF PublishSegment, Delivery, LoaderAt, LoaderHas
  <2>3. At(published, day, offset)
    BY <1>1, <1>2, <1>8, <2>2 DEF PublishSegment, At
  <2>4. Kinds'
    BY <1>8 DEF PublishSegment, Kinds, Delivery, work, args
  <2>5. LoaderAt'
    BY <1>1, <1>2, <1>8, <2>2, SlotFacts, SameStream DEF PublishSegment, Publish, Delivery, LoaderAt, args
  <2>6. LoaderHas'
    BY <1>8 DEF PublishSegment, LoaderHas
  <2>7. QED BY <1>1, <2>1, <2>2, <2>3, <2>4, <2>5, <2>6, LoaderPublishes
<1>9. CASE PublishEnd
  <2>1. Free /\ Publish /\ UNCHANGED <<flag, path, header, order_data, order_count, work, seen, start_date>>
    BY <1>1, <1>9 DEF PublishEnd, Writing, args
  <2>2. offset = Seg(day) /\ published = Base(day) + offset /\ Holds(day, offset + 1, ioIndex)
    BY <1>9 DEF PublishEnd, Delivery, LoaderAt, LoaderHas
  <2>3. At(published, day, offset + 1)
    BY <1>1, <1>2, <1>9, <2>2 DEF PublishEnd, At
  <2>4. Kinds'
    BY <1>9 DEF PublishEnd, NextDay, Kinds, Delivery, work, args
  <2>5. Len(path_list) = N /\ day \in 1..N
    BY <1>1, <1>9 DEF PublishEnd, N
  <2>6. published' = Base(day + 1) /\ ioIndex' = Slot(published')
    BY <1>1, <1>2, <1>9, <2>2, <2>5, SlotFacts DEF PublishEnd, Publish
  <2>7. LoaderAt'
    BY <1>1, <1>2, <1>9, <2>5, <2>6, SameStream DEF PublishEnd, NextDay, Delivery, LoaderAt, args
  <2>8. LoaderHas'
    BY <1>9 DEF PublishEnd, NextDay, LoaderHas
  <2>9. QED BY <1>1, <2>1, <2>2, <2>3, <2>4, <2>7, <2>8, LoaderPublishes
<1>10. CASE List
  <2>1. UNCHANGED <<buffers, work, seen, published, start_date, day, ioIndex>>
    BY <1>10 DEF List
  <2>2. Kinds'
    BY <2>1 DEF Kinds, Delivery, buffers, work
  <2>3. N \in Nat /\ (Listed = <<>> => N = 0) /\ (Listed # <<>> => N > 0) /\ Base(1) = 0
    BY <1>1, ListedType, Layout DEF N
  <2>4. LoaderAt'
    BY <1>1, <1>10, <2>1, <2>3, SameStream DEF List, Delivery, LoaderAt
  <2>5. LoaderHas'
    BY <1>10 DEF List, LoaderHas
  <2>6. Crash'
    BY <1>1, <2>1 DEF Crash, work
  <2>7. ASSUME NEW w \in Worker PROVE WorkerInv(w)'
    <3>1. Done(w)' = Done(w) /\ \A slot : SameSlot(slot)
      BY <2>1 DEF Done, work, SameSlot, buffers
    <3>2. Contents(w)'
      BY <2>1, <3>1, SameStream, HoldsKept DEF Contents, Delivery, WorkerInv
    <3>3. QED BY <2>1, <3>1, <3>2, SameStream
              DEF Delivery, WorkerInv, WorkerAt, Bits, EngineAt, Made, Passed, work, buffers
  <2>8. QED BY <1>1, <2>2, <2>4, <2>5, <2>6, <2>7 DEF Delivery
<1>11. QED BY <1>3, <1>4, <1>5, <1>6, <1>7, <1>8, <1>9, <1>10 DEF IO


\* A step of a worker is none of the loader's business, nor of the others'.
LEMMA OneWorker ==
  ASSUME Delivery, NEW w \in Worker, UNCHANGED <<flag, path, header, order_data, order_count, io, published>>,
         \A v \in Worker \ {w} :
           /\ pc'[v] = pc[v] /\ index'[v] = index[v] /\ engine'[v] = engine[v] /\ seen'[v] = seen[v]
           /\ \A slot \in Slots : v \in finish_bit'[slot] <=> v \in finish_bit[slot],
         HandOver', Kinds', Crash', WorkerInv(w)'
  PROVE  Delivery'
<1>1. start_date' = start_date /\ published \in Nat
  BY DeliveryFacts DEF io
<1>2. LoaderAt'
  BY <1>1, SameStream DEF Delivery, LoaderAt, io
<1>3. LoaderHas'
  BY <1>1, SameStream DEF Delivery, LoaderHas, Holds, io
<1>4. ASSUME NEW v \in Worker \ {w} PROVE WorkerInv(v)'
  <2> USE DEF Delivery, WorkerInv
  <2>1. Done(v)' = Done(v) /\ Done(v) \in Nat
    BY DeliveryFacts DEF Done
  <2>2. WorkerAt(v)'
    BY <1>1, <2>1, SameStream DEF WorkerAt
  <2>3. Bits(v)'
    <3>1. \A k \in Done(v)..published - 1 : Slot(k) \in Slots
      BY <1>1, <2>1, SlotFacts
    <3>2. QED BY <2>1, <3>1 DEF Bits
  <2>4. Contents(v)'
    <3>1. \A slot : SameSlot(slot)
      BY DEF SameSlot
    <3>2. QED BY <1>1, <2>1, <3>1, SameStream, HoldsKept DEF Contents
  <2>5. EngineAt(v)' /\ Passed(v)'
    BY <1>1, <2>1, SameStream DEF EngineAt, Made, Passed
  <2>6. QED BY <2>2, <2>3, <2>4, <2>5
<1>5. QED BY <1>2, <1>3, <1>4 DEF Delivery

\* A worker that has a buffer has the next segment of the stream in it.
LEMMA AtHand ==
  ASSUME Delivery, NEW w \in Worker, pc[w] # "wait"
  PROVE  \E i \in 1..N : \E s \in 1..Seg(i) + 1 : At(Done(w), i, s) /\ Holds(i, s, index[w])
<1>1. StartOK /\ Done(w) \in Nat /\ published \in Nat /\ Done(w) < published /\ index[w] = Slot(Done(w))
  BY DeliveryFacts DEF Delivery, WorkerInv, WorkerAt
<1>2. published <= Base(N + 1)
  <2>1. CASE ioPc \in {"list", "done"}
    <3>1. N + 1 \in 1..N + 1
      BY <1>1, ListedType
    <3>2. Base(N + 1) \in Nat
      BY <1>1, <3>1, Layout
    <3>3. QED BY <2>1, <3>2 DEF Delivery, LoaderAt
  <2>2. CASE ioPc \notin {"list", "done"}
    <3>1. day \in 1..N
      BY <2>2 DEF Delivery, LoaderAt
    <3>2. Seg(day) \in Nat /\ Base(day) \in Nat /\ Base(day) + Seg(day) + 1 = Base(day + 1)
      BY <1>1, <3>1, PlaceFacts
    <3>3. Base(day + 1) <= Base(N + 1) /\ Base(N + 1) \in Nat
      <4>1. N \in Nat /\ day + 1 \in 1..N + 1 /\ N + 1 \in 1..N + 1 /\ day + 1 <= N + 1
        BY <1>1, <3>1, ListedType
      <4>2. QED BY <1>1, <4>1, BaseOrder, Layout
    <3>4. published <= Base(day) + Seg(day)
      BY <2>2, <3>2 DEF Delivery, LoaderAt, HandOver, TypeOK
    <3>5. QED BY <1>1, <3>2, <3>3, <3>4
  <2>3. QED BY <2>1, <2>2
<1>3. Done(w) < Base(N + 1)
  <2>1. Base(N + 1) \in Nat
    BY <1>1, Layout, ListedType
  <2>2. QED BY <1>1, <1>2, <2>1
<1>4. PICK i \in 1..N : \E s \in 1..Seg(i) + 1 : At(Done(w), i, s)
  BY <1>1, <1>3, Located
<1>5. PICK s \in 1..Seg(i) + 1 : At(Done(w), i, s)
  BY <1>4
<1>6. Done(w) \in Done(w)..published - 1
  BY <1>1
<1>7. Holds(i, s, index[w])
  BY <1>1, <1>5, <1>6 DEF Delivery, WorkerInv, Contents
<1>8. QED BY <1>5, <1>7

\* What a worker has of a day is settled by the one place it is at.
LEMMA EngineThere ==
  ASSUME Delivery, NEW w \in Worker, NEW i, NEW s, At(Done(w), i, s), UNCHANGED <<start_date>>,
         Done(w)' = Done(w),
         /\ pc'[w] \in {"wait", "start"} => engine'[w] = IF s = 1 THEN None ELSE Made(i)
         /\ pc'[w] = "orders" => engine'[w] = IF Seg(i) = 0 THEN None ELSE Made(i)
         /\ pc'[w] = "finish" => Seg(i) > 0 /\ engine'[w] = Made(i)
         /\ pc'[w] = "release" => Seg(i) > 0 /\ engine'[w] = IF s > Seg(i) THEN None ELSE Made(i)
  PROVE  EngineAt(w)'
<1>1. \A j, t : At(Done(w), j, t) => j = i /\ t = s
  BY OnePlace, DeliveryFacts
<1>2. SUFFICES ASSUME NEW j \in 1..N, NEW t \in 1..Seg(j) + 1, At(Done(w), j, t)
               PROVE /\ pc'[w] \in {"wait", "start"} => engine'[w] = IF t = 1 THEN None ELSE Made(j)
                     /\ pc'[w] = "orders" => engine'[w] = IF Seg(j) = 0 THEN None ELSE Made(j)
                     /\ pc'[w] = "finish" => Seg(j) > 0 /\ engine'[w] = Made(j)
                     /\ pc'[w] = "release" => Seg(j) > 0 /\ engine'[w] = IF t > Seg(j) THEN None ELSE Made(j)
  BY SameStream DEF EngineAt, Made
<1>3. QED BY <1>1, <1>2

\* A step of a worker inside a buffer.
LEMMA WorkerInside ==
  ASSUME Delivery, NEW w \in Worker, UNCHANGED <<buffers, io, index, published>>,
         Done(w)' = Done(w), Len(seen'[w]) \in Nat,
         seen'[w] = SubSeq(Stream, 1, Len(seen'[w])),
         pc'[w] # "wait" => Done(w) < published,
         EngineAt(w)',
         \A i \in 1..N : Base(i) < Done(w) => Seg(i) > 0
  PROVE  WorkerInv(w)'
<1> USE DEF Delivery, WorkerInv
<1>1. start_date' = start_date
  BY DEF io
<1>2. WorkerAt(w)'
  BY <1>1, SameStream DEF WorkerAt
<1>3. Bits(w)'
  BY DEF Bits, buffers
<1>4. Contents(w)'
  <2>1. \A slot : SameSlot(slot)
    BY DEF SameSlot, buffers
  <2>2. QED BY <1>1, <2>1, SameStream, HoldsKept DEF Contents
<1>5. Passed(w)'
  BY <1>1, SameStream DEF Passed
<1>6. QED BY <1>2, <1>3, <1>4, <1>5


\* With an engine, what a worker does with the buffer at hand is what comes next
\* in the stream.
LEMMA Processing ==
  ASSUME Delivery, NEW w \in Worker, pc[w] = "orders", ~NoEngine(w)
  PROVE  /\ Processed(w) = Stream[Done(w) + 1] /\ Processed(w) \in Item /\ Done(w) + 1 \in 1..Len(Stream)
         /\ \E i \in 1..N : \E s \in 1..Seg(i) + 1 :
              At(Done(w), i, s) /\ Seg(i) > 0 /\ engine[w] = Made(i)
<1>1. StartOK /\ Done(w) \in Nat
  BY DeliveryFacts
<1>2. \A i \in 1..N : Seg(i) \in Nat /\ Base(i) \in Nat /\ Listed[i] \in Nat
  BY <1>1, PlaceFacts
<1>3. PICK i \in 1..N : \E s \in 1..Seg(i) + 1 : At(Done(w), i, s) /\ Holds(i, s, index[w])
  BY AtHand
<1>4. PICK s \in 1..Seg(i) + 1 : At(Done(w), i, s) /\ Holds(i, s, index[w])
  BY <1>3
<1>5. engine[w] = IF Seg(i) = 0 THEN None ELSE Made(i)
  BY <1>1, <1>4 DEF Delivery, WorkerInv, EngineAt
<1>6. Seg(i) > 0 /\ engine[w] = Made(i)
  BY <1>2, <1>1, <1>4, <1>5 DEF NoEngine, Holds
<1>7. Processed(w) = Stream[Done(w) + 1] /\ Processed(w) \in Item /\ Done(w) + 1 \in 1..Len(Stream)
  <2>1. Stream[Base(i) + s] = Day(Listed[i])[s] /\ Base(i) + s = Done(w) + 1
    <3>1. Base(i) + s = Done(w) + 1
      BY <1>1, <1>2, <1>4 DEF At
    <3>2. Stream[Base(i) + s] = Day(Listed[i])[s]
      BY <1>1, <1>4, Layout
    <3>3. QED BY <3>1, <3>2
  <2>2. Processed(w) = Day(Listed[i])[s]
    <3>1. Day(Listed[i])[s] =
            [engine |-> <<Listed[i], Listed[i]>>,
             orders |-> IF s <= Seg(i) THEN <<Listed[i], s>> ELSE <<>>,
             flag   |-> IF s > Seg(i) THEN "FILE_END"
                        ELSE IF s = 1 THEN "FILE_HEAD" ELSE "IN_PROCESS"]
      BY <1>4 DEF Day, Seg
    <3>2. s <= Seg(i) => Processed(w) = Day(Listed[i])[s]
      BY <1>2, <1>4, <1>6, <3>1 DEF Processed, Holds, Made
    <3>3. s > Seg(i) => Processed(w) = Day(Listed[i])[s]
      BY <1>2, <1>4, <1>6, <3>1 DEF Processed, Holds, Made
    <3>4. QED BY <1>2, <3>2, <3>3
  <2>3. Stream \in Seq(Item) /\ Len(Stream) = Base(N + 1) /\ Base(N + 1) \in Nat
    BY <1>1, Layout, ListedType
  <2>4. Done(w) + 1 \in 1..Len(Stream)
    BY <1>1, <1>2, <1>4, <2>3, PlaceFacts DEF At
  <2>5. QED BY <2>1, <2>2, <2>3, <2>4
<1>8. QED BY <1>3, <1>4, <1>6, <1>7

LEMMA DeliveryWorker ==
  ASSUME NEW w \in Worker, Delivery, Work(w)
  PROVE  Delivery'
<1> USE DEF WorkerInv
<1>1. /\ HandOver' /\ ~crashed /\ StartOK /\ published \in Nat /\ Done(w) \in Nat /\ Len(seen[w]) \in Nat
      /\ pc \in [Worker -> {"wait", "start", "orders", "finish", "release"}] /\ index \in [Worker -> Slots]
      /\ finish_bit \in [Slots -> SUBSET Worker]
      /\ engine \in [Worker -> {None} \cup ((Nat \cup {None}) \X (Nat \cup {None}))]
      /\ seen \in [Worker -> Seq(Item)]
  <2>1. HandOver'
    BY WorkerStep DEF Delivery
  <2>2. ~crashed /\ StartOK /\ published \in Nat /\ Done(w) \in Nat /\ Len(seen[w]) \in Nat
    BY DeliveryFacts DEF Work
  <2>3. QED BY <2>1, <2>2 DEF Delivery, HandOver, TypeOK, Kinds
<1>2. /\ seen[w] = SubSeq(Stream, 1, Len(seen[w]))
      /\ Done(w) \in 0..published /\ published <= Done(w) + BUFFER_NUM
      /\ pc[w] # "wait" => Done(w) < published
      /\ index[w] = Slot(Done(w))
      /\ \A i \in 1..N : Base(i) < Done(w) => Seg(i) > 0
  BY DEF Delivery, WorkerAt, Passed
<1>3. \A i \in 1..N : Seg(i) \in Nat /\ Base(i) \in Nat /\ Listed[i] \in Nat
  BY <1>1, PlaceFacts
<1>4. CASE Acquire(w)
  <2>1. UNCHANGED <<buffers, io, index, published, engine, seen, crashed>> /\ pc'[w] = "start" /\ pc[w] = "wait"
        /\ \A v \in Worker \ {w} : pc'[v] = pc[v]
    BY <1>1, <1>4 DEF Acquire
  <2>2. Done(w)' = Done(w)
    BY <2>1 DEF Done
  <2>3. Done(w) < published
    <3>1. SUFFICES ASSUME Done(w) = published PROVE FALSE
      BY <1>1, <1>2
    <3>2. index[w] \in Slots /\ \A k \in Done(w)..published - 1 : Slot(k) # index[w]
      BY <1>1, <3>1
    <3>3. w \in finish_bit[index[w]]
      BY <3>2 DEF Delivery, Bits
    <3>4. QED BY <1>4, <3>3 DEF Acquire
  <2>4. EngineAt(w)'
    <3>1. start_date' = start_date
      BY <2>1 DEF io
    <3>2. QED BY <2>1, <2>2, <3>1, SameStream DEF Delivery, EngineAt, Made
  <2>5. WorkerInv(w)'
    BY <1>1, <1>2, <2>1, <2>2, <2>3, <2>4, WorkerInside
  <2>6. Kinds' /\ Crash'
    BY <1>1, <2>1 DEF Delivery, Kinds, Crash, buffers, io
  <2>7. QED BY <1>1, <2>1, <2>5, <2>6, OneWorker DEF buffers
<1>5. ASSUME pc[w] # "wait"
      PROVE  \E i \in 1..N : \E s \in 1..Seg(i) + 1 : At(Done(w), i, s) /\ Holds(i, s, index[w])
  BY <1>5, AtHand
<1>6. CASE StartEngine(w)
  <2>1. UNCHANGED <<buffers, io, index, published, seen, crashed>> /\ pc'[w] = "orders" /\ pc[w] = "start"
        /\ \A v \in Worker \ {w} : pc'[v] = pc[v] /\ engine'[v] = engine[v]
    BY <1>1, <1>6 DEF StartEngine
  <2>2. Done(w)' = Done(w) /\ start_date' = start_date
    BY <2>1 DEF Done, io
  <2>3. PICK i \in 1..N : \E s \in 1..Seg(i) + 1 : At(Done(w), i, s) /\ Holds(i, s, index[w])
    BY <1>5, <2>1
  <2>4. PICK s \in 1..Seg(i) + 1 : At(Done(w), i, s) /\ Holds(i, s, index[w])
    BY <2>3
  <2>5. engine[w] = IF s = 1 THEN None ELSE Made(i)
    BY <2>1, <2>4 DEF Delivery, EngineAt
  <2>6. engine'[w] = IF Seg(i) = 0 THEN None ELSE Made(i)
    <3>1. CASE flag[index[w]] = "FILE_HEAD"
      <4>1. s = 1 /\ Seg(i) # 0
        BY <1>3, <2>4, <3>1 DEF Holds
      <4>2. engine'[w] = <<path[index[w]], header[index[w]]>>
        BY <1>1, <1>6, <3>1 DEF StartEngine
      <4>3. QED BY <1>3, <2>4, <4>1, <4>2 DEF Holds, Made
    <3>2. CASE flag[index[w]] # "FILE_HEAD"
      <4>1. engine'[w] = engine[w]
        BY <1>6, <3>2 DEF StartEngine
      <4>2. s = 1 <=> Seg(i) = 0
        BY <1>3, <2>4, <3>2 DEF Holds
      <4>3. QED BY <2>5, <4>1, <4>2
    <3>3. QED BY <3>1, <3>2
  <2>7. EngineAt(w)'
    BY <2>1, <2>2, <2>4, <2>6, EngineThere
  <2>8. WorkerInv(w)'
    BY <1>1, <1>2, <2>1, <2>2, <2>7, WorkerInside
  <2>9. Kinds'
    <3>1. path \in [Slots -> Nat \cup {None}] /\ header \in [Slots -> Nat \cup {None}]
      BY DEF Delivery, Kinds
    <3>2. <<path[index[w]], header[index[w]]>> \in (Nat \cup {None}) \X (Nat \cup {None})
      BY <1>1, <3>1
    <3>3. engine' \in [Worker -> {None} \cup ((Nat \cup {None}) \X (Nat \cup {None}))]
      BY <1>1, <1>6, <3>2 DEF StartEngine
    <3>4. QED BY <2>1, <3>3 DEF Delivery, Kinds, buffers, io
  <2>10. Crash'
    BY <1>1, <2>1 DEF Crash
  <2>11. QED BY <1>1, <2>1, <2>8, <2>9, <2>10, OneWorker DEF buffers
<1>7. CASE InsertOrders(w)
  <2>1. UNCHANGED <<buffers, io, index, published, engine, crashed>> /\ pc'[w] = "finish" /\ pc[w] = "orders"
        /\ seen'[w] = Append(seen[w], Processed(w)) /\ ~NoEngine(w)
        /\ \A v \in Worker \ {w} : pc'[v] = pc[v] /\ seen'[v] = seen[v]
    BY <1>1, <1>7 DEF InsertOrders
  <2>2. PICK i \in 1..N : \E s \in 1..Seg(i) + 1 :
               At(Done(w), i, s) /\ Seg(i) > 0 /\ engine[w] = Made(i)
    BY <2>1, Processing
  <2>3. PICK s \in 1..Seg(i) + 1 : At(Done(w), i, s) /\ Seg(i) > 0 /\ engine[w] = Made(i)
    BY <2>2
  <2>5. Seg(i) > 0 /\ engine[w] = Made(i)
    BY <2>3
  <2>6. Processed(w) = Stream[Done(w) + 1] /\ Processed(w) \in Item /\ Done(w) + 1 \in 1..Len(Stream)
    BY <2>1, Processing
  <2>7. Len(seen[w]) = Done(w) /\ Len(seen'[w]) = Done(w) + 1 /\ Done(w)' = Done(w)
    BY <1>1, <2>1, <2>6 DEF Done
  <2>8. seen'[w] = SubSeq(Stream, 1, Len(seen'[w]))
    <3> DEFINE n == Done(w)
               x == Stream
    <3>1. x \in Seq(Item) /\ n \in Nat /\ n + 1 \in 1..Len(x)
      BY <1>1, <2>6, Layout
    <3>2. seen'[w] = Append(SubSeq(x, 1, n), x[n + 1])
      BY <1>2, <2>1, <2>6, <2>7
    <3>3. Len(seen'[w]) = n + 1
      BY <2>7
    <3> HIDE DEF n, x
    <3>4. Append(SubSeq(x, 1, n), x[n + 1]) = SubSeq(x, 1, n + 1)
      BY <3>1
    <3>5. seen'[w] = SubSeq(x, 1, n + 1)
      BY <3>2, <3>4
    <3>6. QED BY <3>3, <3>5 DEF x
  <2>9. EngineAt(w)'
    <3>1. start_date' = start_date /\ engine'[w] = Made(i)
      BY <2>1, <2>5 DEF io
    <3>2. QED BY <2>1, <2>3, <2>5, <2>7, <3>1, EngineThere
  <2>10. WorkerInv(w)'
    <3>1. Len(seen'[w]) \in Nat
      BY <1>1, <2>7
    <3>2. QED BY <1>2, <2>1, <2>7, <2>8, <2>9, <3>1, WorkerInside
  <2>11. Kinds'
    <3>1. seen' \in [Worker -> Seq(Item)]
      BY <1>1, <1>7, <2>6 DEF InsertOrders
    <3>2. QED BY <2>1, <3>1 DEF Delivery, Kinds, buffers, io
  <2>12. Crash'
    BY <1>1, <2>1 DEF Crash
  <2>13. QED BY <1>1, <2>1, <2>10, <2>11, <2>12, OneWorker DEF buffers
<1>8. CASE UseNoEngine(w)
  <2>1. UNCHANGED <<buffers, io, pc, index, engine, published, seen>> /\ pc[w] = "orders" /\ NoEngine(w)
    BY <1>8 DEF UseNoEngine
  <2>2. Done(w)' = Done(w) /\ start_date' = start_date
    BY <2>1 DEF Done, io
  <2>3. EngineAt(w)'
    BY <2>1, <2>2, SameStream DEF Delivery, EngineAt, Made
  <2>4. WorkerInv(w)'
    BY <1>1, <1>2, <2>1, <2>2, <2>3, WorkerInside
  <2>5. Crash' /\ Kinds'
    BY <2>1 DEF Delivery, Crash, NoEngine, Kinds, buffers, io
  <2>6. QED BY <1>1, <2>1, <2>4, <2>5, OneWorker DEF buffers
<1>9. CASE Complete(w)
  <2>1. UNCHANGED <<buffers, io, index, published, seen, crashed>> /\ pc'[w] = "release" /\ pc[w] = "finish"
        /\ \A v \in Worker \ {w} : pc'[v] = pc[v] /\ engine'[v] = engine[v]
    BY <1>1, <1>9 DEF Complete
  <2>2. Done(w)' = Done(w) /\ start_date' = start_date
    BY <2>1 DEF Done, io
  <2>3. PICK i \in 1..N : \E s \in 1..Seg(i) + 1 : At(Done(w), i, s) /\ Holds(i, s, index[w])
    BY <1>5, <2>1
  <2>4. PICK s \in 1..Seg(i) + 1 : At(Done(w), i, s) /\ Holds(i, s, index[w])
    BY <2>3
  <2>5. Seg(i) > 0 /\ engine[w] = Made(i)
    BY <2>1, <2>4 DEF Delivery, EngineAt
  <2>6. flag[index[w]] = "FILE_END" <=> s > Seg(i)
    BY <1>3, <2>4 DEF Holds
  <2>7. engine'[w] = IF s > Seg(i) THEN None ELSE Made(i)
    BY <1>1, <1>9, <2>5, <2>6 DEF Complete
  <2>8. EngineAt(w)'
    BY <2>1, <2>2, <2>4, <2>5, <2>7, EngineThere
  <2>9. WorkerInv(w)'
    BY <1>1, <1>2, <2>1, <2>2, <2>8, WorkerInside
  <2>10. Kinds'
    <3>1. engine' \in [Worker -> {None} \cup ((Nat \cup {None}) \X (Nat \cup {None}))]
      BY <1>1, <1>9 DEF Complete
    <3>2. QED BY <2>1, <3>1 DEF Delivery, Kinds, buffers, io
  <2>11. Crash'
    BY <1>1, <2>1 DEF Crash
  <2>12. QED BY <1>1, <2>1, <2>9, <2>10, <2>11, OneWorker DEF buffers
<1>10. CASE Release(w)
  <2>1. /\ UNCHANGED <<flag, path, header, order_data, order_count, io, published, engine, seen, crashed>>
        /\ pc'[w] = "wait" /\ pc[w] = "release" /\ index'[w] = INCR(index[w])
        /\ \A v \in Worker \ {w} : pc'[v] = pc[v] /\ index'[v] = index[v]
        /\ finish_bit'[index[w]] = finish_bit[index[w]] \cup {w}
        /\ \A slot \in Slots \ {index[w]} : finish_bit'[slot] = finish_bit[slot]
    BY <1>1, <1>10 DEF Release
  <2>2. Done(w)' = Done(w) + 1 /\ start_date' = start_date
    BY <1>1, <2>1 DEF Done, io
  <2>3. PICK i \in 1..N : \E s \in 1..Seg(i) + 1 : At(Done(w), i, s) /\ Holds(i, s, index[w])
    BY <1>5, <2>1
  <2>4. PICK s \in 1..Seg(i) + 1 : At(Done(w), i, s) /\ Holds(i, s, index[w])
    BY <2>3
  <2>5. Seg(i) > 0 /\ engine[w] = IF s > Seg(i) THEN None ELSE Made(i)
    BY <2>1, <2>4 DEF Delivery, EngineAt
  <2>6. WorkerAt(w)'
    <3>1. index'[w] = Slot(Done(w) + 1)
      BY <1>1, <1>2, <2>1, SlotFacts
    <3>2. Done(w) + 1 \in 0..published /\ published <= Done(w) + 1 + BUFFER_NUM
      BY <1>1, <1>2, <2>1, RingAssumption
    <3>3. seen'[w] = SubSeq(Stream, 1, Len(seen'[w]))
      BY <1>2, <2>1
    <3>4. QED BY <2>1, <2>2, <3>1, <3>2, <3>3, SameStream DEF WorkerAt
  <2>7. Bits(w)'
    <3>1. ASSUME NEW k \in Done(w) + 1..published - 1 PROVE w \notin finish_bit'[Slot(k)]
      <4>1. k \in Nat /\ k \in Done(w)..published - 1 /\ Done(w) < k /\ k < Done(w) + BUFFER_NUM
        BY <1>1, <1>2, RingAssumption
      <4>2. Slot(k) \in Slots \ {index[w]}
        BY <1>1, <1>2, <4>1, SlotFacts
      <4>3. w \notin finish_bit[Slot(k)]
        BY <4>1 DEF Delivery, Bits
      <4>4. QED BY <2>1, <4>2, <4>3
    <3>2. ASSUME NEW slot \in Slots, \A k \in Done(w) + 1..published - 1 : Slot(k) # slot
          PROVE  w \in finish_bit'[slot]
      <4>1. CASE slot = index[w]
        BY <2>1, <4>1
      <4>2. CASE slot # index[w]
        <5>1. \A k \in Done(w)..published - 1 : Slot(k) # slot
          <6>1. SUFFICES ASSUME NEW k \in Done(w)..published - 1, Slot(k) = slot PROVE FALSE
            OBVIOUS
          <6>2. k # Done(w)
            BY <1>2, <4>2, <6>1
          <6>3. k \in Done(w) + 1..published - 1
            BY <1>1, <6>2
          <6>4. QED BY <3>2, <6>1, <6>3
        <5>2. w \in finish_bit[slot]
          BY <5>1 DEF Delivery, Bits
        <5>3. QED BY <2>1, <4>2, <5>2
      <4>3. QED BY <4>1, <4>2
    <3>3. QED BY <2>1, <2>2, <3>1, <3>2 DEF Bits
  <2>8. Contents(w)'
    <3>1. \A slot : SameSlot(slot)
      BY <2>1 DEF SameSlot
    <3>2. \A k \in Done(w) + 1..published - 1 : k \in Done(w)..published - 1
      BY <1>1
    <3>3. QED BY <2>1, <2>2, <3>1, <3>2, SameStream, HoldsKept DEF Delivery, Contents
  <2>9. EngineAt(w)'
    <3>1. ASSUME NEW j \in 1..N, NEW t \in 1..Seg(j) + 1, At(Done(w) + 1, j, t)
          PROVE  engine[w] = IF t = 1 THEN None ELSE Made(j)
      <4>1. CASE t = 1
        <5>1. s > Seg(i)
          <6>1. SUFFICES ASSUME s <= Seg(i) PROVE FALSE
            BY <1>3
          <6>2. At(Done(w) + 1, i, s + 1) /\ s + 1 # 1
            BY <1>1, <1>3, <2>4, <6>1 DEF At
          <6>3. QED BY <1>1, <3>1, <4>1, <6>2, OnePlace
        <5>2. QED BY <2>5, <4>1, <5>1
      <4>2. CASE t # 1
        <5>1. At(Done(w), j, t - 1)
          <6>1. Done(w) + 1 = Base(j) + t - 1 /\ Base(j) \in Nat /\ Seg(j) \in Nat
            BY <1>3, <3>1 DEF At
          <6>2. t - 1 \in 1..Seg(j) + 1
            BY <4>2, <6>1
          <6> DEFINE b == Base(j)
                     d == Done(w)
          <6>3. d \in Nat /\ b \in Nat /\ t \in Nat /\ d + 1 = b + t - 1
            BY <1>1, <6>1
          <6> HIDE DEF b, d
          <6>4. d = b + (t - 1) - 1
            BY <6>3
          <6>5. QED BY <6>2, <6>4 DEF At, b, d
        <5>2. j = i /\ t - 1 = s
          BY <1>1, <2>4, <5>1, OnePlace
        <5>3. ~(s > Seg(i))
          BY <1>3, <5>2
        <5>4. QED BY <2>5, <4>2, <5>2, <5>3
      <4>3. QED BY <4>1, <4>2
    <3>2. engine' = engine /\ pc'[w] = "wait"
      BY <2>1
    <3>3. QED BY <2>2, <3>1, <3>2, SameStream DEF EngineAt, Made
  <2>10. Passed(w)'
    <3>1. ASSUME NEW j \in 1..N, Base(j) < Done(w) + 1 PROVE Seg(j) > 0
      <4>1. CASE Base(j) < Done(w)
        BY <1>2, <4>1
      <4>2. CASE Base(j) = Done(w)
        <5>1. At(Done(w), j, 1)
          BY <1>3, <4>2 DEF At
        <5>2. QED BY <1>1, <2>4, <2>5, <5>1, OnePlace
      <4>3. QED BY <1>1, <1>3, <3>1, <4>1, <4>2
    <3>2. QED BY <2>2, <3>1, SameStream DEF Passed
  <2>11. Kinds' /\ Crash'
    BY <1>1, <2>1 DEF Delivery, Kinds, Crash, io
  <2>12. \A v \in Worker \ {w} : \A slot \in Slots : v \in finish_bit'[slot] <=> v \in finish_bit[slot]
    BY <1>1, <2>1
  <2>13. QED BY <1>1, <2>1, <2>6, <2>7, <2>8, <2>9, <2>10, <2>11, <2>12, OneWorker
<1>11. QED BY <1>4, <1>6, <1>7, <1>8, <1>9, <1>10 DEF Work


LEMMA DeliveryStep == Delivery /\ [Next]_vars => Delivery'
<1> SUFFICES ASSUME Delivery, [Next]_vars PROVE Delivery'
  OBVIOUS
<1>1. CASE IO
  BY <1>1, DeliveryLoader
<1>2. CASE \E w \in Worker : Work(w)
  BY <1>2, DeliveryWorker
<1>3. CASE UNCHANGED vars
  <2>1. UNCHANGED <<buffers, io, work, published, seen>>
    BY <1>3 DEF vars
  <2>2. HandOver'
    BY <1>3, HandOverStep DEF Delivery
  <2>3. \A i, s, slot : Holds(i, s, slot)' = Holds(i, s, slot)
    BY <2>1, HoldsKept DEF SameSlot, buffers, io
  <2>4. Kinds' /\ LoaderAt' /\ LoaderHas' /\ Crash'
    <3>1. Kinds'
      BY <2>1 DEF Delivery, Kinds, buffers, io, work
    <3>2. LoaderAt'
      BY <2>1, SameStream DEF Delivery, LoaderAt, io
    <3>3. LoaderHas'
      BY <2>1, <2>3, SameStream DEF Delivery, LoaderHas, io, buffers
    <3>4. Crash'
      BY <2>1 DEF Delivery, Crash, NoEngine, work, buffers
    <3>5. QED BY <3>1, <3>2, <3>3, <3>4
  <2>5. ASSUME NEW w \in Worker PROVE WorkerInv(w)'
    <3>1. Done(w)' = Done(w)
      BY <2>1 DEF Done, work
    <3>2. Contents(w)'
      BY <2>1, <2>3, <3>1, SameStream DEF Delivery, WorkerInv, Contents, io
    <3>3. QED BY <2>1, <3>1, <3>2, SameStream
              DEF Delivery, WorkerInv, WorkerAt, Bits, EngineAt, Made, Passed, work, buffers, io
  <2>6. QED BY <2>2, <2>4, <2>5 DEF Delivery
<1>4. QED BY <1>1, <1>2, <1>3 DEF Next, AllDone

LEMMA LostAtEmptyDay == Delivery => EndsAtEmptyDay
<1> SUFFICES ASSUME Delivery, crashed
             PROVE  \E i \in DOMAIN Listed :
                      LET before == StreamOf(SubSeq(Listed, 1, i - 1))
                      IN /\ Segments[Listed[i]] = 0 /\ \A j \in 1..i - 1 : Segments[Listed[j]] # 0
                         /\ \E w \in Worker : seen[w] = before
                         /\ \A w \in Worker : Len(seen[w]) > Len(before) - BUFFER_NUM
  BY DEF EndsAtEmptyDay
<1>1. StartOK /\ BUFFER_NUM \in Nat \ {0} /\ published \in Nat
      /\ \A w \in Worker : Done(w) \in Nat /\ Len(seen[w]) \in Nat
  BY DeliveryFacts
<1>2. PICK w \in Worker : pc[w] = "orders" /\ NoEngine(w)
  BY DEF Delivery, Crash
<1>3. PICK i \in 1..N : \E s \in 1..Seg(i) + 1 : At(Done(w), i, s) /\ Holds(i, s, index[w])
  BY <1>2, AtHand
<1>4. PICK s \in 1..Seg(i) + 1 : At(Done(w), i, s) /\ Holds(i, s, index[w])
  BY <1>3
<1>5. Seg(i) = 0
  <2>1. engine[w] = IF Seg(i) = 0 THEN None ELSE Made(i)
    BY <1>2, <1>4 DEF Delivery, WorkerInv, EngineAt
  <2>2. Made(i) # None
    BY <1>1, PlaceFacts, StartAssumption DEF Made
  <2>3. QED BY <1>2, <2>1, <2>2 DEF NoEngine
<1>6. Done(w) = Base(i) /\ Base(i) \in Nat
  <2>1. Base(i) \in Nat
    BY <1>1, PlaceFacts
  <2>2. QED BY <1>4, <1>5, <2>1 DEF At
<1>7. seen[w] = StreamOf(SubSeq(Listed, 1, i - 1)) /\ Base(i) < published
  <2>1. Len(seen[w]) = Base(i)
    BY <1>2, <1>6 DEF Done
  <2>2. seen[w] = SubSeq(Stream, 1, Len(seen[w])) /\ Done(w) < published
    BY <1>2 DEF Delivery, WorkerInv, WorkerAt
  <2>3. QED BY <1>1, <1>6, <2>1, <2>2, Layout
<1>8. ASSUME NEW j \in 1..i - 1 PROVE Segments[Listed[j]] # 0
  <2>1. N \in Nat /\ j \in 1..N /\ j + 1 \in 1..N + 1 /\ i \in 1..N + 1 /\ j + 1 <= i
    BY <1>1, ListedType
  <2>2. Base(j) \in Nat /\ Seg(j) \in Nat /\ Base(j) < Base(j + 1) /\ Base(j + 1) \in Nat
    <3>1. Base(j) \in Nat /\ Seg(j) \in Nat /\ Base(j + 1) = Base(j) + Seg(j) + 1
      BY <1>1, <2>1, PlaceFacts
    <3>2. QED BY <3>1
  <2>3. Base(j + 1) <= Base(i)
    BY <1>1, <2>1, BaseOrder
  <2>4. Seg(j) > 0
    BY <1>6, <2>1, <2>2, <2>3 DEF Delivery, WorkerInv, Passed
  <2>5. QED BY <2>4 DEF Seg
<1>9. ASSUME NEW v \in Worker PROVE Len(seen[v]) > Base(i) - BUFFER_NUM
  <2>1. published <= Done(v) + BUFFER_NUM
    BY DEF Delivery, WorkerInv, WorkerAt
  <2>2. Done(v) <= Len(seen[v])
    BY <1>1 DEF Done
  <2>3. QED BY <1>1, <1>6, <1>7, <2>1, <2>2
<1>10. Base(i) = Len(StreamOf(SubSeq(Listed, 1, i - 1))) /\ i \in DOMAIN Listed /\ Segments[Listed[i]] = 0
  BY <1>1, <1>5, ListedType DEF Base, Seg
<1>11. QED BY <1>2, <1>7, <1>8, <1>9, <1>10

\* If the process ends, a worker is at the first day without orders and has all
\* sessions of the days before it, and no worker is a ring behind that one
\* (entrance.cpp:44-63, io.h:162).
THEOREM LossIsBounded == Spec => []EndsAtEmptyDay
BY DeliveryInit, DeliveryStep, LostAtEmptyDay, PTL DEF Spec

\* A worker that waits for the loader has finished with all that was published, and
\* its bit is set in every buffer.
LEMMA CaughtUp ==
  ASSUME Delivery, NEW w \in Worker, WorkerSpins(w)
  PROVE  Done(w) = published /\ \A slot \in Slots : w \in finish_bit[slot]
<1>1. Done(w) \in 0..published /\ published \in Nat /\ index[w] = Slot(Done(w)) /\ Bits(w)
  BY DeliveryFacts DEF Delivery, WorkerInv, WorkerAt
<1>2. Done(w) = published
  <2> SUFFICES ASSUME Done(w) # published PROVE FALSE
    OBVIOUS
  <2>1. Done(w) \in Done(w)..published - 1
    BY <1>1
  <2>2. QED BY <1>1, <2>1 DEF Bits, WorkerSpins
<1>3. \A k \in Done(w)..published - 1 : FALSE
  BY <1>1, <1>2
<1>4. QED BY <1>1, <1>2, <1>3 DEF Bits

\* So when all workers wait, the loader has every buffer and waits for none.
LEMMA NoCircularWait == Delivery => StopsWhenAllDone
<1> SUFFICES ASSUME Delivery, LoaderSpins \/ ioPc = "done", \A w \in Worker : WorkerSpins(w)
             PROVE  ioPc = "done" /\ \A w \in Worker : seen[w] = Stream
  BY DEF StopsWhenAllDone
<1>1. Free
  <2>1. ioIndex \in Slots /\ finish_bit \in [Slots -> SUBSET Worker]
    BY DEF Delivery, HandOver, TypeOK
  <2>2. QED BY <2>1, CaughtUp DEF Free
<1>2. ioPc = "done"
  BY <1>1 DEF LoaderSpins
<1>3. StartOK /\ published = Len(Stream)
  BY <1>2, DeliveryFacts, Layout DEF Delivery, LoaderAt
<1>4. ASSUME NEW w \in Worker PROVE seen[w] = Stream
  <2>1. Done(w) = published /\ Done(w) = Len(seen[w])
    BY CaughtUp DEF WorkerSpins, Done
  <2>2. seen[w] = SubSeq(Stream, 1, Len(Stream))
    BY <1>3, <2>1 DEF Delivery, WorkerInv, WorkerAt
  <2>3. QED BY <1>3, <2>2, Layout
<1>5. QED BY <1>2, <1>4

\* The threads never all wait for each other (entrance.cpp:15, io.h:137, io.h:169):
\* when no thread gets out of its spin loop, every segment was processed by every
\* worker.
THEOREM NeverAllWaiting == Spec => []StopsWhenAllDone
<1>1. Delivery => StopsWhenAllDone
  BY NoCircularWait
<1>2. QED BY <1>1, DeliveryInit, DeliveryStep, PTL DEF Spec

\* A step of the threads is one of the stream, or none.
LEMMA StreamStep == Delivery /\ [Next]_vars => [Abstract!Next]_(<<Stream, published, seen>>)
<1> SUFFICES ASSUME Delivery, [Next]_vars PROVE [Abstract!Next]_(<<Stream, published, seen>>)
  OBVIOUS
<1> USE DEF Delivery, WorkerInv
<1>0. /\ StartOK /\ published \in Nat
      /\ \A w \in Worker : Done(w) \in Nat /\ Len(seen[w]) \in Nat /\ Done(w) <= Len(seen[w])
  <2>1. \A w \in Worker : Done(w) \in Nat /\ Len(seen[w]) \in Nat
    BY DeliveryFacts
  <2>2. \A w \in Worker : Done(w) <= Len(seen[w])
    BY <2>1 DEF Done
  <2>3. QED BY <2>1, <2>2, DeliveryFacts
<1>1. ASSUME PublishSegment \/ PublishEnd
      PROVE  Abstract!Send
  <2>1. start_date' = start_date /\ published' = published + 1 /\ seen' = seen /\ Free
    BY <1>1 DEF PublishSegment, PublishEnd, Publish, args, HandOver, LoaderOwns, Writing
  <2>2. published < Len(Stream)
    <3>1. day \in 1..N /\ Seg(day) \in Nat /\ Base(day) \in Nat
      BY <1>0, <1>1, PlaceFacts DEF PublishSegment, PublishEnd, LoaderAt
    <3>2. published <= Base(day) + Seg(day)
      BY <1>1, <3>1 DEF PublishSegment, PublishEnd, LoaderAt
    <3>3. Base(day + 1) = Base(day) + Seg(day) + 1 /\ Base(day + 1) <= Base(N + 1)
      <4>1. N \in Nat /\ day + 1 \in 1..N + 1
        BY <1>0, <3>1, ListedType
      <4>2. QED BY <1>0, <3>1, <4>1, Layout
    <3>4. Len(Stream) = Base(N + 1) /\ Base(N + 1) \in Nat
      BY <1>0, Layout, ListedType
    <3>5. QED BY <1>0, <3>1, <3>2, <3>3, <3>4
  <2>3. \A w \in Worker : published - Len(seen[w]) < BUFFER_NUM
    BY <1>0, <2>1, Room, RingAssumption
  <2>4. Stream' = Stream
    BY <2>1, SameStream
  <2>5. QED BY <2>1, <2>2, <2>3, <2>4 DEF Abstract!Send
<1>2. ASSUME NEW w \in Worker, InsertOrders(w)
      PROVE  Abstract!Receive(w)
  <2>1. /\ start_date' = start_date /\ published' = published /\ pc[w] = "orders" /\ ~NoEngine(w)
        /\ seen' = [seen EXCEPT ![w] = Append(@, Processed(w))]
    BY <1>2 DEF InsertOrders, io
  <2>2. Processed(w) = Stream[Done(w) + 1] /\ Len(seen[w]) = Done(w) /\ Done(w) < published
    BY <2>1, Processing DEF Done, WorkerAt
  <2>3. Stream' = Stream
    BY <2>1, SameStream
  <2>4. seen' = [seen EXCEPT ![w] = Append(@, Stream[Len(@) + 1])]
    BY <2>1, <2>2
  <2>5. QED BY <2>1, <2>2, <2>3, <2>4 DEF Abstract!Receive
<1>3. CASE UNCHANGED <<start_date, published, seen>>
  BY <1>3, SameStream
<1>4. CASE IO
  <2>1. PublishSegment \/ PublishEnd \/ UNCHANGED <<start_date, published, seen>>
    BY <1>4 DEF IO, List, StartDay, ReadHeader, ReadSegment, NextBuffer, EndOfLog, args
  <2>2. QED BY <1>1, <1>3, <2>1 DEF Abstract!Next
<1>5. CASE \E w \in Worker : Work(w)
  <2>1. PICK w \in Worker : Work(w)
    BY <1>5
  <2>2. InsertOrders(w) \/ UNCHANGED <<start_date, published, seen>>
    BY <2>1 DEF Work, Acquire, StartEngine, UseNoEngine, Complete, Release, io
  <2>3. QED BY <1>2, <1>3, <2>2 DEF Abstract!Next
<1>6. CASE UNCHANGED vars
  BY <1>3, <1>6 DEF vars, io
<1>7. QED BY <1>4, <1>5, <1>6 DEF Next, AllDone

\* The ring of buffers implements the stream: every matching thread processes every
\* segment of every day from the start date on once, in order and with the engine
\* of its day, up to a day without orders, and the loader is never more than the
\* ring ahead of it (entrance.cpp:13-67, io.h:108-188).
THEOREM Delivered == Spec => Implements
<1>1. Init => Abstract!Init
  BY DEF Init, Abstract!Init
<1>2. QED BY <1>1, DeliveryInit, DeliveryStep, StreamStep, PTL DEF Spec, Implements, Abstract!Spec

-----------------------------------------------------------------------------
(* The baseline program.  While main loads a day there is no worker; the   *)
(* workers of a day find all its buffers loaded, from buffer 0 on.         *)

Sessions == {"wait", "start", "orders", "finish", "release"}

BaselineTypes ==
  /\ finish_bit \in [Slots -> SUBSET Worker]
  /\ flag \in [Slots -> {"FILE_HEAD", "IN_PROCESS", "FILE_END"}]
  /\ order_count \in [Slots -> {0, 1}]
  /\ ioIndex \in Slots /\ offset \in Nat /\ published \in Nat
  /\ pc \in [Worker -> Sessions \cup {"none", "ended"}]
  /\ index \in [Worker -> Slots]

\* The buffers of the day that are published.
Loaded == published - Base(day)

Running == ioPc \in {"create", "join"}

MainAt ==
  /\ ioPc \in {"list", "head", "header", "read", "publish", "next", "end", "create", "join", "done"}
  /\ day \in 1..N + 1 /\ Loaded \in Nat
  /\ ioPc = "list" => day = 1
  /\ ioPc # "list" => path_list = Listed
  /\ ioPc \notin {"list", "done"} => day \in 1..N
  /\ ioPc \in {"list", "head", "header", "done"} => Loaded = 0
  /\ ioPc = "header" => offset = 0
  /\ ioPc \in {"read", "next", "end"} => Loaded = offset /\ offset <= Seg(day)
  /\ ioPc = "publish" => Loaded = offset - 1 /\ offset <= Seg(day)
  /\ ioPc = "next" => offset > 0
  /\ ioPc = "end" => offset = Seg(day)
  /\ Running => Loaded = Seg(day) + 1

\* With a worker to wait for, a day does not go round the ring.
SlotAt ==
  /\ Loaded <= BUFFER_NUM
  /\ Writing => Loaded < BUFFER_NUM /\ ioIndex = Loaded
  /\ ioPc = "next" => ioIndex = IF Loaded = BUFFER_NUM THEN 0 ELSE Loaded
  /\ ioPc \in {"list", "head", "create", "join"} => ioIndex = 0
  /\ \A s \in 1..Loaded : Holds(day, s, s - 1)

\* The buffers of the day that worker w has released, and that it has processed.
Released(w) == IF pc[w] = "none" THEN 0 ELSE IF pc[w] = "ended" THEN Seg(day) + 1 ELSE index[w]
Has(w)      == IF pc[w] \in {"finish", "release"} THEN Released(w) + 1 ELSE Released(w)

PlaceAt(w) ==
  /\ Running \/ pc[w] = "none"
  /\ ioPc = "join" => pc[w] # "none"
  /\ pc[w] \in Sessions => index[w] <= Seg(day)
  /\ Len(seen[w]) = Base(day) + Has(w)
  /\ seen[w] = SubSeq(Stream, 1, Len(seen[w]))

BitsAt(w) ==
  \A slot \in Slots : w \in finish_bit[slot] <=> ~(Released(w) <= slot /\ slot < Loaded)

MadeAt(w) ==
  /\ pc[w] \in {"wait", "start"} => engine[w] = IF index[w] = 0 THEN None ELSE Made(day)
  /\ pc[w] = "orders" => engine[w] = IF Seg(day) = 0 THEN None ELSE Made(day)
  /\ pc[w] = "finish" => Seg(day) > 0 /\ engine[w] = Made(day)
  /\ pc[w] = "release" =>
       Seg(day) > 0 /\ engine[w] = IF index[w] = Seg(day) THEN None ELSE Made(day)

Session(w) == SlotAt /\ PlaceAt(w) /\ BitsAt(w) /\ MadeAt(w)

BaselineInv == /\ BaselineTypes /\ Kinds /\ MainAt /\ LoaderHas
               /\ \A w \in Worker : Session(w)

LEMMA IncrIs ==
  ASSUME NEW i \in Slots
  PROVE  INCR(i) = IF i + 1 = BUFFER_NUM THEN 0 ELSE i + 1
BY RingAssumption DEF INCR, Slots

LEMMA BaselineFacts ==
  ASSUME BaselineInv
  PROVE  /\ StartOK /\ N \in Nat /\ published \in Nat /\ BUFFER_NUM \in Nat \ {0}
         /\ day \in 1..N + 1 /\ Base(day) \in Nat /\ Loaded \in Nat
         /\ published = Base(day) + Loaded
         /\ day \in 1..N => /\ Seg(day) \in Nat /\ Base(day + 1) = Base(day) + Seg(day) + 1
                            /\ Listed[day] \in Nat /\ Base(day + 1) <= Len(Stream)
                            /\ Stream \in Seq(Item) /\ Len(Stream) \in Nat
<1>1. StartOK /\ published \in Nat /\ BUFFER_NUM \in Nat \ {0} /\ day \in 1..N + 1 /\ Loaded \in Nat
  BY RingAssumption DEF BaselineInv, BaselineTypes, Kinds, StartOK, MainAt
<1>2. N \in Nat /\ Base(day) \in Nat
  BY <1>1, ListedType, Layout
<1>3. published = Base(day) + Loaded
  BY <1>1, <1>2 DEF Loaded
<1>4. ASSUME day \in 1..N
      PROVE  /\ Seg(day) \in Nat /\ Base(day + 1) = Base(day) + Seg(day) + 1
             /\ Listed[day] \in Nat /\ Base(day + 1) <= Len(Stream)
             /\ Stream \in Seq(Item) /\ Len(Stream) \in Nat
  <2>1. day + 1 \in 1..N + 1 /\ N + 1 \in 1..N + 1
    BY <1>2, <1>4
  <2>2. QED BY <1>1, <1>4, <2>1, PlaceFacts, Layout
<1>5. QED BY <1>1, <1>2, <1>3, <1>4

LEMMA BaselineStart == BaselineInit => BaselineInv
<1> SUFFICES ASSUME BaselineInit PROVE BaselineInv
  OBVIOUS
<1>1. StartOK /\ 0 \in Slots /\ N \in Nat /\ Base(1) = 0
  BY RingAssumption, ListedType, Layout DEF BaselineInit, StartOK, Slots
<1>2. BaselineTypes
  BY <1>1 DEF BaselineInit, BaselineTypes, NoWorker
<1>3. Kinds
  BY <1>1, EmptySeq DEF BaselineInit, Kinds, StartOK
<1>4. MainAt /\ Loaded = 0
  BY <1>1 DEF BaselineInit, MainAt, Loaded, Running
<1>5. LoaderHas
  BY DEF BaselineInit, LoaderHas
<1>6. ASSUME NEW w \in Worker PROVE Session(w)
  <2>1. pc[w] = "none" /\ seen[w] = <<>>
    BY DEF BaselineInit, NoWorker
  <2>2. Has(w) = 0
    BY <2>1 DEF Released, Has
  <2>3. SubSeq(Stream, 1, 0) = <<>>
    BY <1>1, Layout
  <2>4. PlaceAt(w)
    BY <1>1, <2>1, <2>2, <2>3 DEF PlaceAt, Sessions, BaselineInit
  <2>5. SlotAt
    BY <1>4, RingAssumption DEF SlotAt, BaselineInit, Writing
  <2>6. BitsAt(w)
    BY <1>4 DEF BitsAt, BaselineInit, Slots
  <2>7. MadeAt(w)
    BY <2>1 DEF MadeAt
  <2>8. QED BY <2>4, <2>5, <2>6, <2>7 DEF Session
<1>7. QED BY <1>2, <1>3, <1>4, <1>5, <1>6 DEF BaselineInv

\* A step that leaves the day and worker w alone.
LEMMA SameSession ==
  ASSUME BaselineInv, NEW w \in Worker, start_date' = start_date, day' = day,
         pc'[w] = pc[w], index'[w] = index[w], engine'[w] = engine[w], seen'[w] = seen[w]
  PROVE  /\ Released(w)' = Released(w) /\ Has(w)' = Has(w) /\ Base(day)' = Base(day)
         /\ Seg(day)' = Seg(day) /\ MadeAt(w)'
         /\ (Running' \/ pc[w] = "none") /\ (ioPc' = "join" => pc[w] # "none") => PlaceAt(w)'
<1>1. Base(day)' = Base(day) /\ Seg(day)' = Seg(day) /\ Stream' = Stream /\ Made(day)' = Made(day)
  BY SameStream DEF Made
<1>2. Released(w)' = Released(w) /\ Has(w)' = Has(w)
  BY <1>1 DEF Released, Has
<1>3. MadeAt(w)'
  BY <1>1 DEF BaselineInv, Session, MadeAt
<1>4. ASSUME Running' \/ pc[w] = "none", ioPc' = "join" => pc[w] # "none"
      PROVE  PlaceAt(w)'
  BY <1>1, <1>2, <1>4 DEF BaselineInv, Session, PlaceAt
<1>5. QED BY <1>1, <1>2, <1>3, <1>4

\* While main loads there are no workers.
LEMMA MainInside ==
  ASSUME BaselineInv, NEW w \in Worker, ~Running, Loaded < BUFFER_NUM, ioIndex = Loaded,
         UNCHANGED <<finish_bit, work, seen, published, start_date, day, ioIndex>>,
         \A slot \in Slots \ {ioIndex} : SameSlot(slot), Writing'
  PROVE  Session(w)'
<1>1. pc[w] = "none" /\ pc'[w] = pc[w] /\ index'[w] = index[w] /\ engine'[w] = engine[w]
  BY DEF BaselineInv, Session, PlaceAt, work
<1>2. Loaded' = Loaded /\ Base(day)' = Base(day)
  BY SameStream DEF Loaded
<1>3. PlaceAt(w)' /\ MadeAt(w)' /\ Released(w)' = Released(w)
  BY <1>1, SameSession DEF Writing, Running
<1>4. BitsAt(w)'
  BY <1>2, <1>3 DEF BaselineInv, Session, BitsAt
<1>5. SlotAt'
  <2>1. ASSUME NEW s \in 1..Loaded PROVE Holds(day, s, s - 1)'
    <3>1. Holds(day, s, s - 1) /\ s - 1 \in Slots \ {ioIndex}
      BY BaselineFacts DEF BaselineInv, Session, SlotAt, Slots
    <3>2. SameSlot(s - 1)
      BY <3>1
    <3>3. QED BY <3>1, <3>2, SameStream DEF Holds, SameSlot
  <2>2. QED BY <1>2, <2>1, BaselineFacts DEF SlotAt, Writing
<1>6. QED BY <1>3, <1>4, <1>5 DEF Session

\* Main publishes the next buffer of the day.
LEMMA MainPublishes ==
  ASSUME BaselineInv, NEW w \in Worker, Writing, Publish, Holds(day, Loaded + 1, ioIndex),
         UNCHANGED <<flag, path, header, order_data, order_count, work, seen, start_date, day>>,
         \/ ioPc' = "next" /\ ioIndex' = INCR(ioIndex)
         \/ ioPc' = "create" /\ ioIndex' = 0
  PROVE  Session(w)'
<1>1. pc[w] = "none" /\ pc'[w] = pc[w] /\ index'[w] = index[w] /\ engine'[w] = engine[w]
  BY DEF BaselineInv, Session, PlaceAt, Writing, Running, work
<1>2. Loaded' = Loaded + 1 /\ Loaded \in Nat
  BY SameStream, BaselineFacts DEF Loaded, Publish
<1>3. PlaceAt(w)' /\ MadeAt(w)' /\ Released(w)' = 0
  BY <1>1, SameSession DEF Released
<1>4. ioIndex = Loaded /\ Loaded < BUFFER_NUM /\ ioIndex \in Slots
  BY DEF BaselineInv, Session, SlotAt, BaselineTypes
<1>5. BitsAt(w)'
  <2>1. ASSUME NEW slot \in Slots PROVE w \in finish_bit'[slot] <=> ~(0 <= slot /\ slot < Loaded + 1)
    <3>1. w \in finish_bit[slot] <=> ~(0 <= slot /\ slot < Loaded)
      BY <1>1 DEF BaselineInv, Session, BitsAt, Released
    <3>2. finish_bit'[slot] = IF slot = ioIndex THEN {} ELSE finish_bit[slot]
      BY <1>4 DEF Publish, BaselineInv, BaselineTypes
    <3>3. QED BY <1>2, <1>4, <3>1, <3>2 DEF Slots
  <2>2. QED BY <1>2, <1>3, <2>1 DEF BitsAt
<1>6. SlotAt'
  <2>1. ASSUME NEW s \in 1..Loaded + 1 PROVE Holds(day, s, s - 1)'
    <3>1. Holds(day, s, s - 1)
      BY <1>2, <1>4 DEF BaselineInv, Session, SlotAt
    <3>2. SameSlot(s - 1)
      BY DEF SameSlot
    <3>3. QED BY <3>1, <3>2, SameStream DEF Holds, SameSlot
  <2>2. ioPc' = "next" => ioIndex' = IF Loaded' = BUFFER_NUM THEN 0 ELSE Loaded'
    BY <1>2, <1>4, IncrIs
  <2>3. Loaded' <= BUFFER_NUM /\ Loaded' \in Nat
    BY <1>2, <1>4, BaselineFacts
  <2>4. QED BY <1>2, <2>1, <2>2, <2>3 DEF SlotAt, Writing
<1>7. QED BY <1>3, <1>5, <1>6 DEF Session

LEMMA BaselineMain ==
  ASSUME BaselineInv, Main
  PROVE  BaselineInv'
<1>1. /\ StartOK /\ N \in Nat /\ BUFFER_NUM \in Nat \ {0} /\ day \in 1..N + 1
      /\ Base(day) \in Nat /\ Loaded \in Nat /\ offset \in Nat /\ ioIndex \in Slots
      /\ \A w \in Worker : Session(w)
      /\ (day \in 1..N => Seg(day) \in Nat /\ Listed[day] \in Nat /\ Base(day + 1) = Base(day) + Seg(day) + 1)
      /\ (ioPc # "list" => path_list = Listed) /\ (ioPc \notin {"list", "done"} => day \in 1..N)
      /\ Kinds /\ BaselineTypes /\ MainAt /\ LoaderHas
  <2>1. offset \in Nat /\ ioIndex \in Slots
    BY DEF BaselineInv, BaselineTypes
  <2>2. (ioPc # "list" => path_list = Listed) /\ (ioPc \notin {"list", "done"} => day \in 1..N)
    BY DEF BaselineInv, MainAt
  <2>3. QED BY <2>1, <2>2, BaselineFacts DEF BaselineInv
<1>2. ASSUME NEW w \in Worker
      PROVE  /\ Writing => Loaded < BUFFER_NUM /\ ioIndex = Loaded
             /\ ioPc = "head" => Loaded < BUFFER_NUM /\ ioIndex = Loaded
             /\ ioPc = "next" /\ Free => Loaded < BUFFER_NUM /\ ioIndex = Loaded
  <2>1. Writing => Loaded < BUFFER_NUM /\ ioIndex = Loaded
    BY <1>1 DEF Session, SlotAt
  <2>2. ioPc = "head" => Loaded < BUFFER_NUM /\ ioIndex = Loaded
    BY <1>1 DEF Session, SlotAt, MainAt
  <2>3. ASSUME ioPc = "next", Free PROVE Loaded < BUFFER_NUM /\ ioIndex = Loaded
    <3>1. ioIndex = (IF Loaded = BUFFER_NUM THEN 0 ELSE Loaded) /\ Loaded <= BUFFER_NUM
      BY <1>1, <2>3 DEF Session, SlotAt
    <3>2. pc[w] = "none"
      BY <1>1, <2>3 DEF Session, PlaceAt, Running
    <3>3. w \in finish_bit[ioIndex] /\ (w \in finish_bit[ioIndex] <=> ~(0 <= ioIndex /\ ioIndex < Loaded))
      BY <1>1, <2>3, <3>2 DEF Free, Session, BitsAt, Released
    <3>4. QED BY <1>1, <3>1, <3>3 DEF Slots
  <2>4. QED BY <2>1, <2>2, <2>3
<1>3. CASE StartDay
  <2>1. ioPc = "head" /\ UNCHANGED <<finish_bit, work, seen, published, start_date, path_list, day, ioIndex>>
        /\ (\A slot \in Slots \ {ioIndex} : SameSlot(slot)) /\ ioPc' = "header" /\ offset' = 0
    BY <1>1, <1>3 DEF StartDay, SameSlot, Kinds, BaselineTypes, args
  <2>2. BaselineTypes'
    BY <1>1, <1>3 DEF StartDay, BaselineTypes, work
  <2>3. Kinds'
    BY <1>1, <1>3 DEF StartDay, Kinds, work, args
  <2>4. MainAt'
    BY <1>1, <2>1, SameStream DEF MainAt, Loaded, Running
  <2>5. LoaderHas'
    BY <1>1, <1>3, SameStream DEF StartDay, LoaderHas, Kinds, BaselineTypes, args
  <2>6. ASSUME NEW w \in Worker PROVE Session(w)'
    BY <1>2, <2>1, MainInside DEF Running, Writing
  <2>7. QED BY <2>2, <2>3, <2>4, <2>5, <2>6 DEF BaselineInv
<1>4. CASE ReadHeader
  <2>1. ioPc = "header" /\ UNCHANGED <<finish_bit, work, seen, published, start_date, path_list, day, ioIndex>>
        /\ (\A slot \in Slots \ {ioIndex} : SameSlot(slot)) /\ ioPc' = "read" /\ offset' = offset
    BY <1>1, <1>4 DEF ReadHeader, SameSlot, Kinds, BaselineTypes, args
  <2>2. BaselineTypes'
    BY <1>1, <1>4 DEF ReadHeader, BaselineTypes, work
  <2>3. Kinds'
    BY <1>1, <1>4 DEF ReadHeader, Kinds, work, args
  <2>4. MainAt'
    BY <1>1, <2>1, SameStream DEF MainAt, Loaded, Running
  <2>5. LoaderHas'
    BY <1>1, <1>4, SameStream DEF ReadHeader, LoaderHas, MainAt, Kinds, args
  <2>6. ASSUME NEW w \in Worker PROVE Session(w)'
    BY <1>2, <2>1, MainInside DEF Running, Writing
  <2>7. QED BY <2>2, <2>3, <2>4, <2>5, <2>6 DEF BaselineInv
<1>5. CASE ReadSegment
  <2>1. ioPc = "read" /\ UNCHANGED <<finish_bit, work, seen, published, start_date, path_list, day, ioIndex>>
        /\ (\A slot \in Slots \ {ioIndex} : SameSlot(slot)) /\ ioPc' = "publish" /\ offset' = offset + 1
        /\ offset < Seg(day)
    BY <1>1, <1>5 DEF ReadSegment, Seg, SameSlot, Kinds, BaselineTypes, args
  <2>2. BaselineTypes'
    BY <1>1, <1>5 DEF ReadSegment, BaselineTypes, work
  <2>3. Kinds'
    BY <1>1, <1>5 DEF ReadSegment, Kinds, work, args
  <2>4. MainAt'
    BY <1>1, <2>1, SameStream DEF MainAt, Loaded, Running
  <2>5. LoaderHas'
    BY <1>1, <1>5, <2>1, SameStream DEF ReadSegment, LoaderHas, Holds, Kinds, BaselineTypes, args
  <2>6. ASSUME NEW w \in Worker PROVE Session(w)'
    BY <1>2, <2>1, MainInside DEF Running, Writing
  <2>7. QED BY <2>2, <2>3, <2>4, <2>5, <2>6 DEF BaselineInv
<1>6. CASE NextBuffer
  <2>1. ioPc = "next" /\ UNCHANGED <<finish_bit, work, seen, published, start_date, path_list, day, ioIndex>>
        /\ (\A slot \in Slots \ {ioIndex} : SameSlot(slot)) /\ ioPc' = "read" /\ offset' = offset /\ Free
    BY <1>1, <1>6 DEF NextBuffer, SameSlot, Kinds, BaselineTypes, args
  <2>2. BaselineTypes'
    BY <1>1, <1>6 DEF NextBuffer, BaselineTypes, work
  <2>3. Kinds'
    BY <1>1, <1>6 DEF NextBuffer, Kinds, work, args
  <2>4. MainAt'
    BY <1>1, <2>1, SameStream DEF MainAt, Loaded, Running
  <2>5. LoaderHas'
    BY <1>1, <1>6, SameStream DEF NextBuffer, LoaderHas, MainAt, BaselineTypes, args
  <2>6. ASSUME NEW w \in Worker PROVE Session(w)'
    BY <1>2, <2>1, MainInside DEF Running, Writing
  <2>7. QED BY <2>2, <2>3, <2>4, <2>5, <2>6 DEF BaselineInv
<1>7. CASE EndOfLog
  <2>1. ioPc = "read" /\ UNCHANGED <<finish_bit, work, seen, published, start_date, path_list, day, ioIndex>>
        /\ (\A slot \in Slots \ {ioIndex} : SameSlot(slot)) /\ ioPc' = "end" /\ offset' = offset
        /\ offset = Seg(day)
    BY <1>1, <1>7 DEF EndOfLog, Seg, MainAt, SameSlot, Kinds, BaselineTypes, args
  <2>2. BaselineTypes'
    BY <1>1, <1>7 DEF EndOfLog, BaselineTypes, work
  <2>3. Kinds'
    BY <1>1, <1>7 DEF EndOfLog, Kinds, work, args
  <2>4. MainAt'
    BY <1>1, <2>1, SameStream DEF MainAt, Loaded, Running
  <2>5. LoaderHas'
    BY <1>1, <1>7, <2>1, SameStream DEF EndOfLog, LoaderHas, Holds, BaselineTypes, args
  <2>6. ASSUME NEW w \in Worker PROVE Session(w)'
    BY <1>2, <2>1, MainInside DEF Running, Writing
  <2>7. QED BY <2>2, <2>3, <2>4, <2>5, <2>6 DEF BaselineInv
<1>8. CASE PublishSegment
  <2>1. /\ ioPc = "publish" /\ Publish /\ ioIndex' = INCR(ioIndex) /\ ioPc' = "next" /\ offset' = offset
        /\ UNCHANGED <<flag, path, header, order_data, order_count, work, seen, start_date, path_list, day>>
    BY <1>8 DEF PublishSegment, args
  <2>2. BaselineTypes'
    BY <1>1, <2>1, IncrInSlots DEF Publish, BaselineTypes, work
  <2>3. Kinds'
    BY <1>1, <2>1 DEF Kinds, work
  <2>4. Loaded' = Loaded + 1 /\ Holds(day, Loaded + 1, ioIndex)
    <3>1. Loaded' = Loaded + 1
      BY <2>1, SameStream, BaselineFacts DEF Loaded, Publish
    <3>2. Loaded + 1 = offset
      BY <1>1, <2>1 DEF MainAt
    <3>3. QED BY <1>1, <2>1, <3>1, <3>2 DEF LoaderHas
  <2>5. MainAt'
    BY <1>1, <2>1, <2>4, SameStream DEF MainAt, Running
  <2>6. LoaderHas'
    BY <2>1 DEF LoaderHas
  <2>7. ASSUME NEW w \in Worker PROVE Session(w)'
    BY <2>1, <2>4, MainPublishes DEF Writing
  <2>8. QED BY <2>2, <2>3, <2>5, <2>6, <2>7 DEF BaselineInv
<1>9. CASE LoadReturns
  <2>1. /\ ioPc = "end" /\ Publish /\ ioIndex' = 0 /\ ioPc' = "create" /\ offset' = offset
        /\ UNCHANGED <<flag, path, header, order_data, order_count, work, seen, start_date, path_list, day>>
    BY <1>9 DEF LoadReturns, args
  <2>2. BaselineTypes'
    BY <1>1, <2>1, RingAssumption DEF Publish, BaselineTypes, work, Slots
  <2>3. Kinds'
    BY <1>1, <2>1 DEF Kinds, work
  <2>4. Loaded' = Loaded + 1 /\ Loaded = Seg(day) /\ Holds(day, Loaded + 1, ioIndex)
    <3>1. Loaded' = Loaded + 1
      BY <2>1, SameStream, BaselineFacts DEF Loaded, Publish
    <3>2. Loaded = offset /\ offset = Seg(day)
      BY <1>1, <2>1 DEF MainAt
    <3>3. QED BY <1>1, <2>1, <3>1, <3>2 DEF LoaderHas
  <2>5. MainAt'
    BY <1>1, <2>1, <2>4, SameStream DEF MainAt, Running
  <2>6. LoaderHas'
    BY <2>1 DEF LoaderHas
  <2>7. ASSUME NEW w \in Worker PROVE Session(w)'
    BY <2>1, <2>4, MainPublishes DEF Writing
  <2>8. QED BY <2>2, <2>3, <2>5, <2>6, <2>7 DEF BaselineInv
<1>10. CASE List
  <2>1. /\ UNCHANGED <<buffers, work, seen, published, start_date, day, offset, ioIndex>> /\ ioPc = "list"
        /\ path_list' = Listed /\ ioPc' = IF Listed = <<>> THEN "done" ELSE "head"
    BY <1>10 DEF List
  <2>2. BaselineTypes' /\ Kinds'
    BY <1>1, <2>1 DEF BaselineTypes, Kinds, buffers, work
  <2>3. Listed # <<>> => 1 \in 1..N
    BY <1>1, ListedType DEF N
  <2>4. MainAt' /\ Loaded' = Loaded
    BY <1>1, <2>1, <2>3, SameStream DEF MainAt, Loaded, Running
  <2>5. LoaderHas'
    BY <2>1 DEF LoaderHas
  <2>6. ASSUME NEW w \in Worker PROVE Session(w)'
    <3>1. pc[w] = "none" /\ pc' = pc /\ index' = index /\ engine' = engine /\ Loaded = 0
      BY <1>1, <2>1 DEF Session, PlaceAt, Running, work, MainAt
    <3>2. PlaceAt(w)' /\ MadeAt(w)' /\ Released(w)' = Released(w)
      BY <2>1, <3>1, SameSession DEF Running
    <3>3. BitsAt(w)'
      BY <1>1, <2>1, <2>4, <3>2 DEF Session, BitsAt, buffers
    <3>4. SlotAt'
      BY <1>1, <2>1, <2>4, <3>1 DEF Session, SlotAt, Writing
    <3>5. QED BY <3>2, <3>3, <3>4 DEF Session
  <2>7. QED BY <2>2, <2>4, <2>5, <2>6 DEF BaselineInv
<1>11. ASSUME NEW v \in Worker, CreateWorker(v) PROVE BaselineInv'
  <2>1. /\ UNCHANGED <<buffers, day, offset, ioIndex, start_date, path_list, crashed, published, seen>>
        /\ ioPc = "create" /\ ioPc' \in {"create", "join"} /\ pc[v] = "none"
        /\ pc'[v] = "wait" /\ index'[v] = 0 /\ engine'[v] = None
        /\ \A w \in Worker \ {v} : pc'[w] = pc[w] /\ index'[w] = index[w] /\ engine'[w] = engine[w]
        /\ (ioPc' = "join" => \A w \in Worker \ {v} : pc[w] # "none")
    BY <1>1, <1>11 DEF CreateWorker, BaselineTypes, Kinds, args
  <2>2. BaselineTypes'
    BY <1>1, <1>11, RingAssumption DEF CreateWorker, BaselineTypes, Sessions, Slots, buffers
  <2>3. Kinds'
    BY <1>1, <1>11 DEF CreateWorker, Kinds, buffers, args
  <2>4. MainAt' /\ Loaded' = Loaded
    BY <1>1, <2>1, SameStream DEF MainAt, Loaded, Running
  <2>5. LoaderHas'
    BY <2>1 DEF LoaderHas
  <2>6. SlotAt' /\ SlotAt
    <3>1. SlotAt
      BY <1>1 DEF Session
    <3>2. \A slot : SameSlot(slot)
      BY <2>1 DEF SameSlot, buffers
    <3>3. QED BY <2>1, <2>4, <3>1, <3>2, SameStream, HoldsKept DEF SlotAt, Writing
  <2>7. ASSUME NEW w \in Worker PROVE Session(w)'
    <3>1. CASE w # v
      <4>1. PlaceAt(w)' /\ MadeAt(w)' /\ Released(w)' = Released(w)
        BY <2>1, <3>1, SameSession DEF Running
      <4>2. BitsAt(w)'
        BY <1>1, <2>1, <2>4, <4>1 DEF Session, BitsAt, buffers
      <4>3. QED BY <2>6, <4>1, <4>2 DEF Session
    <3>2. CASE w = v
      <4>1. Released(w)' = 0 /\ Has(w)' = 0 /\ Released(w) = 0 /\ Has(w) = 0
        BY <2>1, <3>2 DEF Released, Has
      <4>2. PlaceAt(w)'
        <5>1. Len(seen[w]) = Base(day) /\ seen[w] = SubSeq(Stream, 1, Len(seen[w]))
          BY <1>1, <4>1 DEF Session, PlaceAt
        <5>2. 0 <= Seg(day)' /\ Base(day)' = Base(day) /\ Stream' = Stream
          BY <1>1, <2>1, SameStream
        <5>3. QED BY <1>1, <2>1, <3>2, <4>1, <5>1, <5>2 DEF PlaceAt, Running
      <4>3. BitsAt(w)'
        BY <1>1, <2>1, <2>4, <4>1 DEF Session, BitsAt, buffers
      <4>4. MadeAt(w)'
        BY <2>1, <3>2 DEF MadeAt
      <4>5. QED BY <2>6, <4>2, <4>3, <4>4 DEF Session
    <3>3. QED BY <3>1, <3>2
  <2>8. QED BY <2>2, <2>3, <2>4, <2>5, <2>7 DEF BaselineInv
<1>12. CASE Join
  <2>1. /\ UNCHANGED <<buffers, offset, ioIndex, start_date, path_list, index, engine, crashed, published, seen>>
        /\ ioPc = "join" /\ day' = day + 1 /\ ioPc' = IF day < Len(path_list) THEN "head" ELSE "done"
        /\ \A w \in Worker : pc[w] = "ended" /\ pc'[w] = "none"
    BY <1>12 DEF Join, NextDay, NoWorker, args
  <2>2. BaselineTypes' /\ Kinds'
    BY <1>1, <1>12, <2>1 DEF Join, NoWorker, BaselineTypes, Kinds, buffers
  <2>3. Loaded = Seg(day) + 1 /\ Loaded' = 0 /\ Base(day)' = Base(day + 1) /\ Stream' = Stream
        /\ day \in 1..N /\ N' = N /\ Len(path_list) = N /\ Base(day + 1) = Base(day) + Loaded
    <3>1. day \in 1..N /\ Loaded = Seg(day) + 1
      BY <1>1, <2>1 DEF MainAt, Running
    <3>2. Base(day)' = Base(day + 1) /\ N' = N /\ Len(path_list) = N /\ Stream' = Stream
      BY <1>1, <2>1, SameStream DEF N
    <3>3. published = Base(day + 1)
      BY <1>1, <3>1, BaselineFacts
    <3>4. Loaded' = published' - Base(day)'
      BY DEF Loaded
    <3>5. Base(day + 1) \in Nat
      BY <1>1, <3>1
    <3>6. QED BY <1>1, <2>1, <3>1, <3>2, <3>3, <3>4, <3>5
  <2>4. MainAt'
    BY <1>1, <2>1, <2>3, SameStream DEF MainAt, Running
  <2>5. LoaderHas'
    BY <2>1 DEF LoaderHas
  <2>6. ASSUME NEW w \in Worker PROVE Session(w)'
    <3>1. Released(w) = Loaded /\ Has(w) = Loaded /\ Released(w)' = 0 /\ Has(w)' = 0
      BY <2>1, <2>3 DEF Released, Has
    <3>2. PlaceAt(w)'
      BY <1>1, <2>1, <2>3, <3>1 DEF Session, PlaceAt, Sessions
    <3>3. BitsAt(w)'
      <4>1. ASSUME NEW slot \in Slots PROVE w \in finish_bit'[slot] /\ ~(0 <= slot /\ slot < 0)
        BY <1>1, <2>1, <3>1 DEF Session, BitsAt, buffers, Slots
      <4>2. QED BY <2>3, <3>1, <4>1 DEF BitsAt
    <3>4. MadeAt(w)'
      BY <2>1 DEF MadeAt
    <3>5. SlotAt'
      BY <1>1, <2>1, <2>3 DEF Session, SlotAt, Writing
    <3>6. QED BY <3>2, <3>3, <3>4, <3>5 DEF Session
  <2>7. QED BY <2>2, <2>4, <2>5, <2>6 DEF BaselineInv
<1>13. QED BY <1>3, <1>4, <1>5, <1>6, <1>7, <1>8, <1>9, <1>10, <1>11, <1>12 DEF Main

\* A worker finds the whole day loaded.
LEMMA DayLoaded ==
  ASSUME BaselineInv, NEW w \in Worker, pc[w] \in Sessions
  PROVE  /\ Running /\ day \in 1..N /\ Loaded = Seg(day) + 1 /\ Loaded <= BUFFER_NUM
         /\ index[w] \in 0..Seg(day) /\ index[w] \in Slots /\ Holds(day, index[w] + 1, index[w])
         /\ Released(w) = index[w]
         /\ Len(seen[w]) = Base(day) + Has(w) /\ seen[w] = SubSeq(Stream, 1, Len(seen[w]))
<1>1. Running /\ day \in 1..N /\ Loaded = Seg(day) + 1 /\ Loaded <= BUFFER_NUM
  BY DEF BaselineInv, Session, PlaceAt, SlotAt, MainAt, Running, Sessions
<1>2. index[w] \in 0..Seg(day) /\ index[w] \in Slots
  BY <1>1, BaselineFacts DEF BaselineInv, BaselineTypes, Session, PlaceAt, Slots
<1>3. Released(w) = index[w]
  BY DEF Released, Sessions
<1>4. Holds(day, index[w] + 1, index[w])
  <2> DEFINE k == index[w]
             m == Seg(day)
  <2>0. k \in 0..m /\ m \in Nat /\ Loaded = m + 1
    BY <1>1, <1>2, BaselineFacts
  <2> HIDE DEF k, m
  <2>1. k + 1 \in 1..Loaded /\ (k + 1) - 1 = k
    BY <2>0
  <2>2. QED BY <2>1 DEF BaselineInv, Session, SlotAt, k
<1>5. QED BY <1>1, <1>2, <1>3, <1>4 DEF BaselineInv, Session, PlaceAt

\* A step of a worker is none of main's business, nor of the others'.
LEMMA OneSession ==
  ASSUME BaselineInv, NEW w \in Worker, pc[w] \in Sessions, pc'[w] # "none",
         UNCHANGED <<flag, path, header, order_data, order_count, io, published>>,
         \A v \in Worker \ {w} :
           /\ pc'[v] = pc[v] /\ index'[v] = index[v] /\ engine'[v] = engine[v] /\ seen'[v] = seen[v]
           /\ \A slot \in Slots : v \in finish_bit'[slot] <=> v \in finish_bit[slot],
         BaselineTypes', Kinds', PlaceAt(w)', BitsAt(w)', MadeAt(w)'
  PROVE  BaselineInv'
<1>1. /\ start_date' = start_date /\ day' = day /\ ioPc' = ioPc /\ ioIndex' = ioIndex
      /\ offset' = offset /\ path_list' = path_list
  BY DEF io
<1>2. MainAt' /\ Loaded' = Loaded
  BY <1>1, SameStream DEF BaselineInv, MainAt, Loaded, Running
<1>3. LoaderHas'
  BY <1>1, SameStream DEF BaselineInv, LoaderHas, Holds
<1>4. SlotAt'
  <2>1. \A slot : SameSlot(slot)
    BY DEF SameSlot
  <2>2. SlotAt
    BY DEF BaselineInv, Session
  <2>3. QED BY <1>1, <1>2, <2>1, <2>2, SameStream, HoldsKept DEF SlotAt, Writing
<1>5. ASSUME NEW v \in Worker \ {w} PROVE Session(v)'
  <2>1. PlaceAt(v)' /\ MadeAt(v)' /\ Released(v)' = Released(v)
    BY <1>1, SameSession DEF BaselineInv, Session, PlaceAt, Running
  <2>2. BitsAt(v)'
    BY <1>2, <2>1 DEF BaselineInv, Session, BitsAt
  <2>3. QED BY <1>4, <2>1, <2>2 DEF Session
<1>6. QED BY <1>2, <1>3, <1>4, <1>5 DEF BaselineInv, Session

\* With an engine, what a worker does with the buffer at hand is what comes next
\* in the stream.
LEMMA SessionProcesses ==
  ASSUME BaselineInv, NEW w \in Worker, pc[w] = "orders", ~NoEngine(w)
  PROVE  /\ Seg(day) > 0 /\ Processed(w) \in Item
         /\ Len(seen[w]) + 1 \in 1..Len(Stream) /\ Processed(w) = Stream[Len(seen[w]) + 1]
         /\ Len(seen[w]) = Base(day) + index[w]
<1>1. /\ day \in 1..N /\ index[w] \in 0..Seg(day) /\ Holds(day, index[w] + 1, index[w])
      /\ Len(seen[w]) = Base(day) + index[w]
  BY DayLoaded DEF Sessions, Has
<1>2. /\ Seg(day) \in Nat /\ Base(day) \in Nat /\ Base(day + 1) = Base(day) + Seg(day) + 1
      /\ Base(day + 1) <= Len(Stream) /\ Len(Stream) \in Nat /\ Stream \in Seq(Item) /\ StartOK
  BY <1>1, BaselineFacts
<1> DEFINE s == index[w] + 1
<1>3. s \in 1..Seg(day) + 1 /\ Len(seen[w]) + 1 = Base(day) + s /\ Base(day) + s \in 1..Len(Stream)
      /\ s \in Nat /\ Len(seen[w]) + 1 \in 1..Len(Stream)
  <2> DEFINE k == index[w]
             m == Seg(day)
             b == Base(day)
             n == Len(Stream)
  <2>1. k \in 0..m /\ m \in Nat /\ b \in Nat /\ n \in Nat /\ b + m + 1 <= n /\ Len(seen[w]) = b + k
    BY <1>1, <1>2
  <2> HIDE DEF k, m, b, n
  <2>2. k + 1 \in 1..m + 1 /\ (b + k) + 1 = b + (k + 1) /\ b + (k + 1) \in 1..n /\ k + 1 \in Nat
        /\ (b + k) + 1 \in 1..n
    BY <2>1
  <2>3. QED BY <2>1, <2>2 DEF k, m, b, n
<1>4. Seg(day) > 0 /\ engine[w] = Made(day)
  <2>1. engine[w] = IF Seg(day) = 0 THEN None ELSE Made(day)
    BY DEF BaselineInv, Session, MadeAt
  <2>2. QED BY <1>1, <1>2, <1>3, <2>1 DEF NoEngine, Holds
<1>5. Stream[Base(day) + s] = Day(Listed[day])[s]
  BY <1>1, <1>2, <1>3, Layout
<1>6. Processed(w) = Day(Listed[day])[s]
  <2>1. Day(Listed[day])[s] =
          [engine |-> <<Listed[day], Listed[day]>>,
           orders |-> IF s <= Seg(day) THEN <<Listed[day], s>> ELSE <<>>,
           flag   |-> IF s > Seg(day) THEN "FILE_END"
                      ELSE IF s = 1 THEN "FILE_HEAD" ELSE "IN_PROCESS"]
    BY <1>3 DEF Day, Seg
  <2>2. Holds(day, s, index[w]) /\ s \in Nat /\ Seg(day) \in Nat /\ s >= 1
        /\ engine[w] = <<Listed[day], Listed[day]>> /\ Seg(day) > 0
    BY <1>1, <1>2, <1>3, <1>4 DEF Made
  <2> HIDE DEF s
  <2>3. s <= Seg(day) => Processed(w) = Day(Listed[day])[s]
    BY <2>1, <2>2 DEF Processed, Holds
  <2>4. s > Seg(day) => Processed(w) = Day(Listed[day])[s]
    BY <2>1, <2>2 DEF Processed, Holds
  <2>5. QED BY <2>2, <2>3, <2>4
<1>7. Processed(w) \in Item
  BY <1>2, <1>3, <1>5, <1>6
<1> HIDE DEF s
<1>8. QED BY <1>1, <1>3, <1>4, <1>5, <1>6, <1>7

LEMMA BaselineWorker ==
  ASSUME BaselineInv, NEW w \in Worker, BaselineWork(w)
  PROVE  BaselineInv'
<1> USE DEF Sessions
<1>1. Kinds /\ BaselineTypes
  BY DEF BaselineInv
<1>2. ASSUME pc[w] \in Sessions
      PROVE  /\ Running /\ day \in 1..N /\ Loaded = Seg(day) + 1 /\ Loaded <= BUFFER_NUM
             /\ index[w] \in 0..Seg(day) /\ index[w] \in Slots /\ Holds(day, index[w] + 1, index[w])
             /\ Released(w) = index[w] /\ Seg(day) \in Nat /\ Base(day) \in Nat /\ Listed[day] \in Nat
             /\ Len(seen[w]) = Base(day) + Has(w) /\ seen[w] = SubSeq(Stream, 1, Len(seen[w]))
             /\ MadeAt(w) /\ BitsAt(w)
  <2>1. MadeAt(w) /\ BitsAt(w)
    BY DEF BaselineInv, Session
  <2>2. QED BY <1>2, <2>1, DayLoaded, BaselineFacts
<1>3. ASSUME UNCHANGED <<io, published>>
      PROVE  /\ start_date' = start_date /\ day' = day /\ ioPc' = ioPc
             /\ Seg(day)' = Seg(day) /\ Base(day)' = Base(day) /\ Stream' = Stream
             /\ Made(day)' = Made(day) /\ Loaded' = Loaded
  <2>1. start_date' = start_date /\ day' = day /\ ioPc' = ioPc
    BY <1>3 DEF io
  <2>2. QED BY <1>3, <2>1, SameStream DEF Made, Loaded
\* A step inside a buffer: the bits and the place are what they were.
<1>4. ASSUME pc[w] \in Sessions, pc'[w] \in Sessions, UNCHANGED <<finish_bit, index, io, published>>
      PROVE  /\ BitsAt(w)' /\ Released(w)' = index[w]
             /\ seen'[w] = seen[w] /\ Has(w)' = Has(w) => PlaceAt(w)'
  <2>1. Released(w)' = index[w]
    BY <1>4 DEF Released
  <2>2. BitsAt(w)'
    BY <1>2, <1>3, <1>4, <2>1 DEF BitsAt
  <2>3. ASSUME seen'[w] = seen[w], Has(w)' = Has(w) PROVE PlaceAt(w)'
    BY <1>2, <1>3, <1>4, <2>1, <2>3 DEF PlaceAt, Running
  <2>4. QED BY <2>1, <2>2, <2>3
<1>5. CASE Acquire(w)
  <2>1. UNCHANGED <<buffers, io, index, published, engine, seen, crashed>> /\ pc'[w] = "start" /\ pc[w] = "wait"
        /\ \A v \in Worker \ {w} : pc'[v] = pc[v]
    BY <1>1, <1>5 DEF Acquire, BaselineTypes
  <2>2. BaselineTypes' /\ Kinds'
    BY <1>1, <1>5 DEF Acquire, BaselineTypes, Kinds, buffers, io
  <2>3. PlaceAt(w)' /\ BitsAt(w)'
    BY <1>4, <2>1 DEF Has, Released, buffers
  <2>4. MadeAt(w)'
    BY <1>2, <1>3, <2>1 DEF MadeAt
  <2>5. QED BY <2>1, <2>2, <2>3, <2>4, OneSession DEF buffers
<1>6. CASE StartEngine(w)
  <2>1. UNCHANGED <<buffers, io, index, published, seen, crashed>> /\ pc'[w] = "orders" /\ pc[w] = "start"
        /\ \A v \in Worker \ {w} : pc'[v] = pc[v] /\ engine'[v] = engine[v]
    BY <1>1, <1>6 DEF StartEngine, BaselineTypes, Kinds
  <2>2. BaselineTypes' /\ Kinds'
    <3>1. path[index[w]] \in Nat \cup {None} /\ header[index[w]] \in Nat \cup {None}
      BY <1>1, <1>2, <2>1 DEF Kinds
    <3>2. <<path[index[w]], header[index[w]]>> \in (Nat \cup {None}) \X (Nat \cup {None})
      BY <3>1
    <3>3. engine' \in [Worker -> {None} \cup ((Nat \cup {None}) \X (Nat \cup {None}))]
      BY <1>1, <1>6, <3>2 DEF StartEngine, Kinds
    <3>4. QED BY <1>1, <1>6, <2>1, <3>3 DEF StartEngine, BaselineTypes, Kinds, buffers, io
  <2>3. PlaceAt(w)' /\ BitsAt(w)'
    BY <1>4, <2>1 DEF Has, Released, buffers
  <2>4. engine'[w] = IF Seg(day) = 0 THEN None ELSE Made(day)
    <3>1. engine[w] = IF index[w] = 0 THEN None ELSE Made(day)
      BY <1>2, <2>1 DEF MadeAt
    <3>2. Holds(day, index[w] + 1, index[w]) /\ Seg(day) \in Nat /\ index[w] \in 0..Seg(day)
      BY <1>2, <2>1
    <3>3. CASE flag[index[w]] = "FILE_HEAD"
      <4>1. index[w] + 1 = 1 /\ Seg(day) # 0
        BY <3>2, <3>3 DEF Holds
      <4>2. engine'[w] = <<path[index[w]], header[index[w]]>>
        BY <1>1, <1>6, <3>3 DEF StartEngine, Kinds
      <4>3. QED BY <3>2, <4>1, <4>2 DEF Holds, Made
    <3>4. CASE flag[index[w]] # "FILE_HEAD"
      <4>1. engine'[w] = engine[w]
        BY <1>6, <3>4 DEF StartEngine
      <4>2. index[w] + 1 = 1 <=> Seg(day) = 0
        BY <3>2, <3>4 DEF Holds
      <4>3. QED BY <3>1, <3>2, <4>1, <4>2
    <3>5. QED BY <3>3, <3>4
  <2>5. MadeAt(w)'
    BY <1>3, <2>1, <2>4 DEF MadeAt
  <2>6. QED BY <2>1, <2>2, <2>3, <2>5, OneSession DEF buffers
<1>7. CASE InsertOrders(w)
  <2>1. UNCHANGED <<buffers, io, index, published, engine, crashed>> /\ pc'[w] = "finish" /\ pc[w] = "orders"
        /\ seen'[w] = Append(seen[w], Processed(w)) /\ ~NoEngine(w)
        /\ \A v \in Worker \ {w} : pc'[v] = pc[v] /\ seen'[v] = seen[v]
    BY <1>1, <1>7 DEF InsertOrders, BaselineTypes, Kinds
  <2>2. /\ Seg(day) > 0 /\ Processed(w) \in Item /\ Len(seen[w]) = Base(day) + index[w]
        /\ Len(seen[w]) + 1 \in 1..Len(Stream) /\ Processed(w) = Stream[Len(seen[w]) + 1]
    BY <2>1, SessionProcesses
  <2>3. BaselineTypes' /\ Kinds'
    BY <1>1, <1>7, <2>2 DEF InsertOrders, BaselineTypes, Kinds, buffers, io
  <2>4. PlaceAt(w)'
    <3> DEFINE n == Len(seen[w])
               x == Stream
    <3>1. x \in Seq(Item) /\ n \in Nat /\ n + 1 \in 1..Len(x) /\ seen[w] \in Seq(Item)
          /\ seen[w] = SubSeq(x, 1, n) /\ seen'[w] = Append(seen[w], x[n + 1])
      BY <1>1, <1>2, <2>1, <2>2, BaselineFacts DEF Kinds
    <3> HIDE DEF n, x
    <3>2. Append(SubSeq(x, 1, n), x[n + 1]) = SubSeq(x, 1, n + 1)
      BY <3>1
    <3>3. seen'[w] = SubSeq(x, 1, n + 1)
      BY <3>1, <3>2
    <3>4. Len(seen'[w]) = n + 1
      BY <3>1 DEF n
    <3>5. Has(w)' = index[w] + 1
      BY <1>4, <2>1 DEF Has, buffers
    <3>6. Len(seen'[w]) = Base(day) + (index[w] + 1) /\ index[w] <= Seg(day) /\ Running
      <4>1. n = Base(day) + index[w]
        BY <2>2 DEF n
      <4>2. QED BY <1>2, <2>1, <3>4, <4>1
    <3>7. seen'[w] = SubSeq(Stream, 1, Len(seen'[w]))
      BY <3>3, <3>4 DEF x
    <3>8. index' = index /\ pc'[w] = "finish"
      BY <2>1
    <3>9. UNCHANGED <<io, published>>
      BY <2>1
    <3>10. Running'
      BY <1>3, <3>6, <3>9 DEF Running
    <3>11. QED BY <1>3, <3>5, <3>6, <3>7, <3>8, <3>9, <3>10 DEF PlaceAt
  <2>5. MadeAt(w)'
    BY <1>2, <1>3, <2>1, <2>2 DEF MadeAt
  <2>6. BitsAt(w)'
    BY <1>4, <2>1 DEF buffers
  <2>7. QED BY <2>1, <2>3, <2>4, <2>5, <2>6, OneSession DEF buffers
<1>8. CASE UseNoEngine(w)
  <2>1. UNCHANGED <<buffers, io, pc, index, engine, published, seen>> /\ pc[w] = "orders"
    BY <1>8 DEF UseNoEngine
  <2>2. BaselineTypes' /\ Kinds'
    BY <1>1, <2>1 DEF BaselineTypes, Kinds, buffers, io
  <2>3. PlaceAt(w)' /\ BitsAt(w)'
    BY <1>4, <2>1 DEF Has, Released, buffers
  <2>4. MadeAt(w)'
    BY <1>2, <1>3, <2>1 DEF MadeAt
  <2>5. QED BY <2>1, <2>2, <2>3, <2>4, OneSession DEF buffers
<1>9. CASE Complete(w)
  <2>1. UNCHANGED <<buffers, io, index, published, seen, crashed>> /\ pc'[w] = "release" /\ pc[w] = "finish"
        /\ \A v \in Worker \ {w} : pc'[v] = pc[v] /\ engine'[v] = engine[v]
    BY <1>1, <1>9 DEF Complete, BaselineTypes, Kinds
  <2>2. BaselineTypes' /\ Kinds'
    <3>1. engine' \in [Worker -> {None} \cup ((Nat \cup {None}) \X (Nat \cup {None}))]
      BY <1>1, <1>9 DEF Complete, Kinds
    <3>2. QED BY <1>1, <1>9, <2>1, <3>1 DEF Complete, BaselineTypes, Kinds, buffers, io
  <2>3. PlaceAt(w)' /\ BitsAt(w)'
    BY <1>4, <2>1 DEF Has, Released, buffers
  <2>4. Seg(day) > 0 /\ engine[w] = Made(day) /\ (flag[index[w]] = "FILE_END" <=> index[w] = Seg(day))
    <3>1. Seg(day) > 0 /\ engine[w] = Made(day)
      BY <1>2, <2>1 DEF MadeAt
    <3>2. flag[index[w]] = "FILE_END" <=> index[w] = Seg(day)
      BY <1>2, <2>1 DEF Holds
    <3>3. QED BY <3>1, <3>2
  <2>5. engine'[w] = IF index[w] = Seg(day) THEN None ELSE Made(day)
    BY <1>1, <1>9, <2>4 DEF Complete, Kinds
  <2>6. MadeAt(w)'
    BY <1>3, <2>1, <2>4, <2>5 DEF MadeAt
  <2>7. QED BY <2>1, <2>2, <2>3, <2>6, OneSession DEF buffers
<1>10. CASE ReleaseOrEnd(w)
  <2>1. /\ UNCHANGED <<flag, path, header, order_data, order_count, io, published, engine, seen, crashed>>
        /\ pc[w] = "release"
        /\ IF flag[index[w]] = "FILE_END" THEN pc'[w] = "ended" /\ index'[w] = index[w]
           ELSE pc'[w] = "wait" /\ index'[w] = INCR(index[w])
        /\ \A v \in Worker \ {w} : pc'[v] = pc[v] /\ index'[v] = index[v]
        /\ \A slot \in Slots :
             finish_bit'[slot] = IF slot = index[w] THEN finish_bit[slot] \cup {w} ELSE finish_bit[slot]
    BY <1>1, <1>10 DEF ReleaseOrEnd, BaselineTypes
  <2>2. Holds(day, index[w] + 1, index[w]) /\ Seg(day) \in Nat /\ index[w] \in 0..Seg(day)
        /\ Loaded = Seg(day) + 1 /\ Loaded <= BUFFER_NUM /\ index[w] \in Slots
        /\ Seg(day) > 0 /\ engine[w] = IF index[w] = Seg(day) THEN None ELSE Made(day)
    BY <1>2, <2>1 DEF MadeAt
  <2>3. flag[index[w]] = "FILE_END" <=> index[w] = Seg(day)
    BY <2>2 DEF Holds
  <2>4. index[w] # Seg(day) => INCR(index[w]) = index[w] + 1 /\ index[w] + 1 \in Slots
    <3> DEFINE k == index[w]
               m == Seg(day)
    <3>1. k \in Slots /\ k \in 0..m /\ m \in Nat /\ m + 1 <= BUFFER_NUM
      BY <2>2
    <3>2. INCR(k) = IF k + 1 = BUFFER_NUM THEN 0 ELSE k + 1
      BY <3>1, IncrIs
    <3> HIDE DEF k, m
    <3>3. k # m => INCR(k) = k + 1 /\ k + 1 \in Slots
      BY <3>1, <3>2, RingAssumption DEF Slots
    <3>4. QED BY <3>3 DEF k, m
  <2>5. Released(w)' = index[w] + 1 /\ Has(w)' = index[w] + 1
    BY <1>3, <2>1, <2>2, <2>3, <2>4 DEF Released, Has
  <2>6. BaselineTypes' /\ Kinds'
    <3>1. INCR(index[w]) \in Slots
      BY <2>2, IncrInSlots
    <3>2. finish_bit' \in [Slots -> SUBSET Worker]
      BY <1>1, <1>10, <2>2 DEF ReleaseOrEnd, BaselineTypes
    <3>3. pc' \in [Worker -> Sessions \cup {"none", "ended"}] /\ index' \in [Worker -> Slots]
      BY <1>1, <1>10, <3>1 DEF ReleaseOrEnd, BaselineTypes
    <3>4. QED BY <1>1, <2>1, <3>2, <3>3 DEF BaselineTypes, Kinds, io
  <2>7. PlaceAt(w)'
    <3>1. Len(seen[w]) = Base(day) + (index[w] + 1)
      BY <1>2, <2>1 DEF Has
    <3>2. pc'[w] \in Sessions => index'[w] <= Seg(day)
      BY <2>1, <2>2, <2>3, <2>4
    <3>3. QED BY <1>2, <1>3, <2>1, <2>5, <3>1, <3>2 DEF PlaceAt, Running
  <2>8. BitsAt(w)'
    <3>1. ASSUME NEW slot \in Slots
          PROVE  w \in finish_bit'[slot] <=> ~(index[w] + 1 <= slot /\ slot < Loaded)
      <4>1. w \in finish_bit[slot] <=> ~(index[w] <= slot /\ slot < Loaded)
        BY <1>2, <2>1 DEF BitsAt
      <4>2. index[w] \in Int /\ slot \in Int /\ index[w] < Loaded
        BY <2>2 DEF Slots
      <4>3. finish_bit'[slot] = IF slot = index[w] THEN finish_bit[slot] \cup {w} ELSE finish_bit[slot]
        BY <2>1
      <4>4. CASE slot = index[w]
        <5>1. w \in finish_bit'[slot] /\ ~(index[w] + 1 <= slot)
          BY <4>2, <4>3, <4>4
        <5>2. QED BY <5>1
      <4>5. CASE slot # index[w]
        <5>1. index[w] <= slot <=> index[w] + 1 <= slot
          BY <4>2, <4>5
        <5>2. finish_bit'[slot] = finish_bit[slot]
          BY <4>3, <4>5
        <5>3. QED BY <4>1, <5>1, <5>2
      <4>6. QED BY <4>4, <4>5
    <3>2. QED BY <1>3, <2>1, <2>5, <3>1 DEF BitsAt
  <2>9. MadeAt(w)'
    BY <1>3, <2>1, <2>2, <2>3, <2>4 DEF MadeAt
  <2>10. \A v \in Worker \ {w} : \A slot \in Slots : v \in finish_bit'[slot] <=> v \in finish_bit[slot]
    BY <2>1
  <2>11. pc[w] \in Sessions /\ pc'[w] # "none"
    BY <2>1
  <2>12. QED BY <2>1, <2>6, <2>7, <2>8, <2>9, <2>10, <2>11, OneSession
<1>11. QED BY <1>5, <1>6, <1>7, <1>8, <1>9, <1>10 DEF BaselineWork

LEMMA BaselineStep == BaselineInv /\ [BaselineNext]_vars => BaselineInv'
<1> SUFFICES ASSUME BaselineInv, [BaselineNext]_vars PROVE BaselineInv'
  OBVIOUS
<1>1. CASE Main
  BY <1>1, BaselineMain
<1>2. CASE \E w \in Worker : BaselineWork(w)
  BY <1>2, BaselineWorker
<1>3. CASE UNCHANGED vars
  <2>1. UNCHANGED <<buffers, io, work, published, seen>>
    BY <1>3 DEF vars
  <2>2. start_date' = start_date /\ day' = day /\ \A slot : SameSlot(slot)
    BY <2>1 DEF io, buffers, SameSlot
  <2>3. BaselineTypes' /\ Kinds'
    BY <2>1 DEF BaselineInv, BaselineTypes, Kinds, buffers, io, work
  <2>4. MainAt' /\ Loaded' = Loaded
    BY <2>1, SameStream DEF BaselineInv, MainAt, Loaded, Running, io
  <2>5. LoaderHas'
    BY <2>1, <2>2, SameStream, HoldsKept DEF BaselineInv, LoaderHas, io, buffers
  <2>6. ASSUME NEW w \in Worker PROVE Session(w)'
    <3>1. SlotAt /\ BitsAt(w) /\ PlaceAt(w)
      BY DEF BaselineInv, Session
    <3>2. PlaceAt(w)' /\ MadeAt(w)' /\ Released(w)' = Released(w)
      BY <2>1, <2>2, <3>1, SameSession DEF PlaceAt, Running, work, io
    <3>3. SlotAt'
      BY <2>1, <2>2, <2>4, <3>1, SameStream, HoldsKept DEF SlotAt, Writing, io
    <3>4. BitsAt(w)'
      BY <2>1, <2>4, <3>1, <3>2 DEF BitsAt, buffers
    <3>5. QED BY <3>2, <3>3, <3>4 DEF Session
  <2>7. QED BY <2>3, <2>4, <2>5, <2>6 DEF BaselineInv
<1>4. QED BY <1>1, <1>2, <1>3 DEF BaselineNext, BaselineStops

LEMMA BaselineStreamStep ==
  BaselineInv /\ [BaselineNext]_vars => [Abstract!Next]_(<<Stream, published, seen>>)
<1> SUFFICES ASSUME BaselineInv, [BaselineNext]_vars
             PROVE  [Abstract!Next]_(<<Stream, published, seen>>)
  OBVIOUS
<1>1. ASSUME PublishSegment \/ LoadReturns
      PROVE  Abstract!Send
  <2>1. start_date' = start_date /\ published' = published + 1 /\ seen' = seen
        /\ ioPc \in {"publish", "end"}
    BY <1>1 DEF PublishSegment, LoadReturns, Publish, args
  <2>2. published < Len(Stream)
    <3>1. day \in 1..N /\ Loaded <= Seg(day)
      BY <2>1, BaselineFacts DEF BaselineInv, BaselineTypes, MainAt
    <3>2. QED BY <3>1, BaselineFacts
  <2>3. ASSUME NEW w \in Worker PROVE published - Len(seen[w]) < BUFFER_NUM
    <3>1. pc[w] = "none" /\ Loaded < BUFFER_NUM /\ Len(seen[w]) = Base(day) + Has(w)
      BY <2>1 DEF BaselineInv, Session, PlaceAt, SlotAt, Running, Writing
    <3>2. Has(w) = 0
      BY <3>1 DEF Has, Released
    <3>3. QED BY <3>1, <3>2, BaselineFacts
  <2>4. Stream' = Stream
    BY <2>1, SameStream
  <2>5. QED BY <2>1, <2>2, <2>3, <2>4 DEF Abstract!Send
<1>2. ASSUME NEW w \in Worker, InsertOrders(w)
      PROVE  Abstract!Receive(w)
  <2>1. /\ start_date' = start_date /\ published' = published /\ pc[w] = "orders" /\ ~NoEngine(w)
        /\ seen' = [seen EXCEPT ![w] = Append(@, Processed(w))]
    BY <1>2 DEF InsertOrders, io
  <2>2. Processed(w) = Stream[Len(seen[w]) + 1] /\ Len(seen[w]) = Base(day) + index[w]
    BY <2>1, SessionProcesses
  <2>3. Len(seen[w]) < published
    <3>1. day \in 1..N /\ Loaded = Seg(day) + 1 /\ index[w] \in 0..Seg(day)
      BY <2>1, DayLoaded DEF Sessions
    <3>2. QED BY <2>2, <3>1, BaselineFacts
  <2>4. Stream' = Stream
    BY <2>1, SameStream
  <2>5. seen' = [seen EXCEPT ![w] = Append(@, Stream[Len(@) + 1])]
    BY <2>1, <2>2
  <2>6. QED BY <2>1, <2>3, <2>4, <2>5 DEF Abstract!Receive
<1>3. CASE UNCHANGED <<start_date, published, seen>>
  BY <1>3, SameStream
<1>4. CASE Main
  <2>1. PublishSegment \/ LoadReturns \/ UNCHANGED <<start_date, published, seen>>
    BY <1>4 DEF Main, List, StartDay, ReadHeader, ReadSegment, NextBuffer, EndOfLog, CreateWorker, Join, args
  <2>2. QED BY <1>1, <1>3, <2>1 DEF Abstract!Next
<1>5. CASE \E w \in Worker : BaselineWork(w)
  <2>1. PICK w \in Worker : BaselineWork(w)
    BY <1>5
  <2>2. InsertOrders(w) \/ UNCHANGED <<start_date, published, seen>>
    BY <2>1 DEF BaselineWork, Acquire, StartEngine, UseNoEngine, Complete, ReleaseOrEnd, io
  <2>3. QED BY <1>2, <1>3, <2>2 DEF Abstract!Next
<1>6. CASE UNCHANGED vars
  BY <1>3, <1>6 DEF vars, io
<1>7. QED BY <1>4, <1>5, <1>6 DEF BaselineNext, BaselineStops

\* The baseline program implements the stream too: every session gets every segment
\* of every day once, in order and with the engine of its day, though each day
\* starts at buffer 0 (baseline_entrance.cpp:13-68, 86-103).
THEOREM BaselineDelivers == BaselineSpec => Implements
<1>1. BaselineInit => Abstract!Init
  BY DEF BaselineInit, Abstract!Init
<1>2. QED BY <1>1, BaselineStart, BaselineStep, BaselineStreamStep, PTL
          DEF BaselineSpec, Implements, Abstract!Spec

-----------------------------------------------------------------------------
(* Where the baseline program stops.                                       *)

\* The days behind main were completed; the one at hand has orders if a session
\* of it has ended, and none if the process crashed.
StopsAt ==
  /\ ioPc = "done" => day = N + 1
  /\ \A j \in 1..day - 1 : Seg(j) \in 1..BUFFER_NUM - 1
  /\ \A w \in Worker : pc[w] = "ended" => Seg(day) > 0
  /\ crashed => Running /\ Seg(day) = 0

LEMMA StopsStart == BaselineInit => StopsAt
<1> SUFFICES ASSUME BaselineInit PROVE StopsAt
  OBVIOUS
<1>1. \A w \in Worker : pc[w] = "none"
  BY DEF BaselineInit, NoWorker
<1>2. QED BY <1>1 DEF BaselineInit, StopsAt

\* A step that stays in the day.
LEMMA StopsSameDay ==
  ASSUME StopsAt, UNCHANGED <<start_date, day>>,
         ioPc' = "done" => ioPc = "done",
         \A w \in Worker : pc'[w] = "ended" => pc[w] = "ended" \/ Seg(day) > 0,
         crashed' => Running' /\ Seg(day) = 0
  PROVE  StopsAt'
BY SameStream DEF StopsAt

LEMMA StopsMain ==
  ASSUME BaselineInv, StopsAt, Main, Worker # {}
  PROVE  StopsAt'
<1>1. ~crashed
  BY DEF Main
<1>2. CASE List
  <2>1. Listed = <<>> => N = 0
    BY DEF N
  <2>2. UNCHANGED <<pc, crashed, start_date, day>> /\ day = 1
        /\ (ioPc' = "done" => Listed = <<>>)
    BY <1>2 DEF List, work, BaselineInv, MainAt
  <2>3. QED BY <1>1, <2>1, <2>2, SameStream DEF StopsAt
<1>3. CASE StartDay \/ ReadHeader \/ ReadSegment \/ PublishSegment \/ NextBuffer \/ EndOfLog \/ LoadReturns
  <2>1. UNCHANGED <<work, start_date, day>> /\ ioPc' # "done"
    BY <1>3 DEF StartDay, ReadHeader, ReadSegment, PublishSegment, NextBuffer, EndOfLog, LoadReturns, args
  <2>2. QED BY <1>1, <2>1, StopsSameDay DEF work
<1>4. ASSUME NEW v \in Worker, CreateWorker(v) PROVE StopsAt'
  <2>1. UNCHANGED <<start_date, day, crashed>> /\ ioPc' # "done"
        /\ \A w \in Worker : pc'[w] = "ended" => pc[w] = "ended"
    BY <1>4 DEF CreateWorker, args, BaselineInv, BaselineTypes
  <2>2. QED BY <1>1, <2>1, StopsSameDay
<1>5. CASE Join
  <2>1. /\ day' = day + 1 /\ (ioPc' = "done" => ~(day < Len(path_list)))
        /\ UNCHANGED <<start_date, crashed>> /\ \A w \in Worker : pc'[w] = "none"
    BY <1>5 DEF Join, NextDay, NoWorker, args
  <2>2. path_list = Listed /\ day \in 1..N /\ Loaded = Seg(day) + 1
    BY <1>5 DEF Join, BaselineInv, MainAt, Running
  <2>3. N \in Nat /\ Seg(day) \in Nat /\ N = Len(Listed)
    BY <2>2, BaselineFacts DEF N
  <2>4. Seg(day) \in 1..BUFFER_NUM - 1
    <3>1. PICK w \in Worker : TRUE
      OBVIOUS
    <3>2. pc[w] = "ended" /\ Loaded <= BUFFER_NUM
      BY <1>5 DEF Join, BaselineInv, Session, SlotAt
    <3>3. Seg(day) > 0
      BY <3>2 DEF StopsAt
    <3>4. QED BY <2>2, <2>3, <3>2, <3>3, RingAssumption
  <2>5. \A j \in 1..day : Seg(j) \in 1..BUFFER_NUM - 1
    <3> TAKE j \in 1..day
    <3>1. CASE j = day
      BY <2>4, <3>1
    <3>2. CASE j # day
      <4>1. j \in 1..day - 1
        BY <2>2, <3>2
      <4>2. QED BY <4>1 DEF StopsAt
    <3>3. QED BY <3>1, <3>2
  <2>6. (ioPc' = "done" => day' = N + 1) /\ 1..day' - 1 = 1..day
    BY <2>1, <2>2, <2>3
  <2>7. QED BY <1>1, <2>1, <2>5, <2>6, SameStream DEF StopsAt
<1>6. QED BY <1>2, <1>3, <1>4, <1>5 DEF Main

LEMMA StopsWorker ==
  ASSUME BaselineInv, StopsAt, NEW w \in Worker, BaselineWork(w)
  PROVE  StopsAt'
<1>1. ~crashed /\ pc \in [Worker -> Sessions \cup {"none", "ended"}]
  BY DEF BaselineWork, BaselineInv, BaselineTypes
<1>2. CASE Acquire(w) \/ StartEngine(w) \/ InsertOrders(w) \/ Complete(w)
  <2>1. UNCHANGED <<start_date, day, ioPc, crashed>>
        /\ \A v \in Worker : pc'[v] = "ended" => pc[v] = "ended"
    BY <1>1, <1>2 DEF Acquire, StartEngine, InsertOrders, Complete, io
  <2>2. QED BY <1>1, <2>1, StopsSameDay
<1>3. CASE ReleaseOrEnd(w)
  <2>1. Seg(day) > 0
    BY <1>3 DEF ReleaseOrEnd, BaselineInv, Session, MadeAt
  <2>2. UNCHANGED <<start_date, day, ioPc, crashed>>
    BY <1>3 DEF ReleaseOrEnd, io
  <2>3. QED BY <1>1, <2>1, <2>2, StopsSameDay
<1>4. CASE UseNoEngine(w)
  <2>1. pc[w] = "orders" /\ engine[w] = None /\ UNCHANGED <<pc, start_date, day, ioPc>>
    BY <1>4 DEF UseNoEngine, NoEngine, io
  <2>2. Running /\ day \in 1..N
    BY <2>1, DayLoaded DEF Sessions
  <2>3. Made(day) # None
    BY <2>2, BaselineFacts, StartAssumption DEF Made
  <2>4. Seg(day) = 0
    BY <2>1, <2>3 DEF BaselineInv, Session, MadeAt
  <2>5. QED BY <2>1, <2>2, <2>4, StopsSameDay DEF Running
<1>5. QED BY <1>2, <1>3, <1>4 DEF BaselineWork

LEMMA StopsStep ==
  ASSUME BaselineInv, StopsAt, [BaselineNext]_vars, Worker # {}
  PROVE  StopsAt'
<1>1. CASE UNCHANGED vars
  BY <1>1, StopsSameDay DEF vars, io, work, StopsAt, Running
<1>2. QED BY <1>1, StopsMain, StopsWorker DEF BaselineNext, BaselineStops

\* Where no session is at work in the day, the workers have the days before it.
LEMMA DaysBefore ==
  ASSUME BaselineInv, NEW w \in Worker, Has(w) = 0
  PROVE  seen[w] = StreamOf(SubSeq(Listed, 1, day - 1))
<1>1. Len(seen[w]) = Base(day)
  BY BaselineFacts DEF BaselineInv, Session, PlaceAt
<1>2. seen[w] = SubSeq(Stream, 1, Base(day))
  BY <1>1 DEF BaselineInv, Session, PlaceAt
<1>3. StartOK /\ N \in Nat /\ day \in 1..N + 1
  BY BaselineFacts
<1>4. CASE day \in 1..N
  BY <1>2, <1>3, <1>4, Layout
<1>5. CASE day = N + 1
  <2>1. SubSeq(Stream, 1, Len(Stream)) = Stream /\ Len(Stream) = Base(N + 1)
    BY <1>3, Layout
  <2>2. SubSeq(Listed, 1, (N + 1) - 1) = Listed
    BY <1>3, ListedType DEF N
  <2>3. QED BY <1>2, <1>5, <2>1, <2>2 DEF Stream
<1>6. QED BY <1>3, <1>4, <1>5

LEMMA StopsThere ==
  ASSUME BaselineInv, StopsAt, Worker # {}
  PROVE  StopsRightly
<1>1. StartOK /\ N \in Nat /\ day \in 1..N + 1 /\ DOMAIN Listed = 1..N
  BY BaselineFacts, ListedType
<1>2. \A j \in 1..day - 1 : Completes(Listed[j])
  BY DEF StopsAt, Completes, Seg
<1>3. ASSUME ioPc = "done"
      PROVE  FirstStop = {} /\ \A w \in Worker : seen[w] = Stream
  <2>1. day - 1 = N
    BY <1>1, <1>3 DEF StopsAt
  <2>2. FirstStop = {}
    BY <1>1, <1>2, <2>1 DEF FirstStop, ToSet
  <2>3. ASSUME NEW w \in Worker PROVE seen[w] = Stream
    <3>1. Has(w) = 0
      BY <1>3 DEF BaselineInv, Session, PlaceAt, Running, Has, Released
    <3>2. SubSeq(Listed, 1, N) = Listed
      BY <1>1, ListedType DEF N
    <3>3. QED BY <2>1, <3>1, <3>2, DaysBefore DEF Stream
  <2>4. QED BY <2>2, <2>3
<1>4. ASSUME crashed \/ LoadsForEver
      PROVE  /\ day \in 1..N
             /\ IF crashed THEN Seg(day) = 0 ELSE Seg(day) >= BUFFER_NUM
             /\ \A w \in Worker : Has(w) = 0
  <2>1. day \in 1..N
    BY <1>4 DEF StopsAt, LoadsForEver, Running, BaselineInv, MainAt
  <2>2. Seg(day) \in Nat
    BY <2>1, BaselineFacts
  <2>3. CASE crashed
    <3>1. Running /\ Seg(day) = 0
      BY <2>3 DEF StopsAt
    <3>2. ASSUME NEW w \in Worker PROVE Has(w) = 0
      <4>1. pc[w] \in {"none", "wait", "start", "orders"}
        BY <3>1 DEF BaselineInv, BaselineTypes, Session, MadeAt, StopsAt, Sessions
      <4>2. CASE pc[w] = "none"
        BY <4>2 DEF Has, Released
      <4>3. CASE pc[w] # "none"
        <5>1. index[w] \in 0..Seg(day)
          BY <4>1, <4>3, DayLoaded DEF Sessions
        <5>2. QED BY <3>1, <4>1, <4>3, <5>1 DEF Has, Released
      <4>4. QED BY <4>2, <4>3
    <3>3. QED BY <2>1, <2>3, <3>1, <3>2
  <2>4. CASE ~crashed
    <3>1. ioPc = "next" /\ ~Free /\ \A w \in Worker : pc[w] = "none"
      BY <1>4, <2>4 DEF LoadsForEver, NoWorker
    <3>2. \A w \in Worker : Released(w) = 0 /\ Has(w) = 0
      BY <3>1 DEF Has, Released
    <3>3. Loaded = offset /\ offset <= Seg(day)
      BY <3>1 DEF BaselineInv, MainAt
    <3>4. ioIndex \in Slots /\ finish_bit \in [Slots -> SUBSET Worker]
      BY DEF BaselineInv, BaselineTypes
    <3>5. PICK w \in Worker : w \notin finish_bit[ioIndex]
      BY <3>1, <3>4 DEF Free
    <3>6. 0 <= ioIndex /\ ioIndex < Loaded
      BY <3>2, <3>4, <3>5 DEF BaselineInv, Session, BitsAt
    <3>7. ioIndex = IF Loaded = BUFFER_NUM THEN 0 ELSE Loaded
      BY <3>1 DEF BaselineInv, Session, SlotAt
    <3>8. Loaded = BUFFER_NUM
      BY <3>6, <3>7, BaselineFacts
    <3>9. QED BY <2>1, <2>4, <3>2, <3>3, <3>8
  <2>5. QED BY <2>3, <2>4
<1>5. QED BY <1>1, <1>2, <1>3, <1>4, DaysBefore DEF StopsRightly, Seg

\* With at least one worker, the baseline program stops only where it may: at the end
\* with all days, or at the first day without orders or too long for the ring with
\* all the days before it (baseline_entrance.cpp:86-93, io.h:169).
THEOREM BaselineStopsRightly ==
  ASSUME Worker # {}
  PROVE  BaselineSpec => []StopsRightly
<1>1. BaselineInit => BaselineInv /\ StopsAt
  BY BaselineStart, StopsStart
<1>2. BaselineInv /\ StopsAt /\ [BaselineNext]_vars => (BaselineInv /\ StopsAt)'
  BY BaselineStep, StopsStep
<1>3. BaselineInv /\ StopsAt => StopsRightly
  BY StopsThere
<1>4. QED BY <1>1, <1>2, <1>3, PTL DEF BaselineSpec

=============================================================================
