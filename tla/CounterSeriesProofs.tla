------------------------- MODULE CounterSeriesProofs -------------------------
(***************************************************************************)
(* Proofs about CounterSeries: every property the run checks, for any      *)
(* history, windows, buckets, limits and counter values.                   *)
(*                                                                         *)
(* The rows of a window are read in order, so that a point has the         *)
(* baselines of all earlier polls that were read (PointsIn).  For the      *)
(* native series these are all earlier polls of the table, whatever the    *)
(* window.  A poll read between the ends of its bucket and run splits one  *)
(* delta of its bucket in two (DeltaSplits), so that leaving it out keeps  *)
(* the total; the ends are enough by induction over the polls left out.    *)
(***************************************************************************)
EXTENDS CounterSeriesProperties, SumTheorems, TLAPS

-----------------------------------------------------------------------------
(* The inductive invariant.                                                *)

\* What is stored is well formed.
PollsOK ==
  /\ DOMAIN polls \subseteq Nat \ {0}
  /\ IsFiniteSet(DOMAIN polls)
  /\ \A p \in DOMAIN polls :
       /\ polls[p].at \in Nat /\ 1 <= polls[p].at /\ polls[p].at <= now
       /\ polls[p].run \in Nat /\ polls[p].run <= run
       /\ polls[p].run = 0 <=> DOMAIN polls[p].samples = {}
       /\ \A k \in CountersOf(p) : polls[p].samples[k] \in Nat

\* The application runs of the polls with a sample follow each other.
RunsInOrder ==
  \A p, q \in DOMAIN polls :
    Earlier(p, q) /\ polls[p].run # 0 /\ polls[q].run # 0 => polls[p].run <= polls[q].run

\* From one row of counters to a later one nothing shrinks, and nothing grows
\* faster than the requests.
Outgrows(p, levels, counters) ==
  \A k \in counters :
    /\ polls[p].samples[k] <= levels[k]
    /\ "requests" \in counters =>
         levels[k] - polls[p].samples[k] <= levels["requests"] - polls[p].samples["requests"]

\* The polls of one application run, unless a restart went unnoticed.
RunsGrow ==
  ~masked => \A p, q \in DOMAIN polls :
    Earlier(p, q) /\ polls[p].run = polls[q].run =>
      Outgrows(p, polls[q].samples, CountersOf(p) \cap CountersOf(q))

\* The application's counters have outgrown its polls.
LevelAbove ==
  ~masked => \A p \in DOMAIN polls : polls[p].run = run => Outgrows(p, level, CountersOf(p))

VariablesOK ==
  /\ now \in Nat /\ Retention < now /\ cutoff \in Nat
  /\ run \in Nat \ {0} /\ level \in [Counters -> Nat] /\ masked \in BOOLEAN
  /\ polls = [p \in DOMAIN polls |-> polls[p]]

IInv == VariablesOK /\ PollsOK /\ RunsInOrder /\ RunsGrow /\ LevelAbove

-----------------------------------------------------------------------------
(* The order of the polls.                                                 *)

\* A strict total order.
LEMMA EarlierOrder ==
  ASSUME PollsOK
  PROVE  /\ \A p \in DOMAIN polls : ~Earlier(p, p)
         /\ \A p, q \in DOMAIN polls : Earlier(p, q) => ~Earlier(q, p)
         /\ \A p, q, r \in DOMAIN polls : Earlier(p, q) /\ Earlier(q, r) => Earlier(p, r)
         /\ \A p, q \in DOMAIN polls : p # q => Earlier(p, q) \/ Earlier(q, p)
BY DEF PollsOK, Earlier

\* Newest and First of a set that is not empty.
LEMMA NewestIn ==
  ASSUME PollsOK, NEW S, S \subseteq DOMAIN polls, S # {}
  PROVE  /\ Newest(S) \in S
         /\ \A q \in S : q # Newest(S) => Earlier(q, Newest(S))
<1> DEFINE Has(s) == s # {} => \E p \in s : \A q \in s \ {p} : Earlier(q, p)
           T == {s \in SUBSET S : Has(s)}
<1>1. IsFiniteSet(S)
  BY FS_Subset DEF PollsOK
<1>2. {} \in T
  OBVIOUS
<1>3. ASSUME NEW s \in SUBSET S, s \in T, NEW x \in S \ s PROVE s \cup {x} \in T
  <2>1. CASE s = {}
    BY <2>1
  <2>2. CASE s # {}
    <3>1. PICK p \in s : \A q \in s \ {p} : Earlier(q, p)
      BY <1>3, <2>2
    <3>2. CASE Earlier(p, x)
      <4>1. \A q \in s : Earlier(q, x)
        BY <3>1, <3>2, EarlierOrder
      <4> QED
        BY <4>1
    <3>3. CASE Earlier(x, p)
      BY <3>1, <3>3
    <3> QED
      BY <3>2, <3>3, EarlierOrder
  <2> QED
    BY <2>1, <2>2
<1>4. S \in T
  <2> HIDE DEF T
  <2> QED
    BY <1>1, <1>2, <1>3, SubsetInduction
<1>5. \E p \in S : \A q \in S \ {p} : Earlier(q, p)
  BY <1>4
<1> QED
  BY <1>5 DEF Newest

\* And what is known of a poll later than all others.
LEMMA NewestIs ==
  ASSUME PollsOK, NEW S, S \subseteq DOMAIN polls,
         NEW p \in S, \A q \in S : q # p => Earlier(q, p)
  PROVE  Newest(S) = p
BY NewestIn, EarlierOrder

\* The same of the first.
LEMMA FirstIn ==
  ASSUME PollsOK, NEW S, S \subseteq DOMAIN polls, S # {}
  PROVE  /\ First(S) \in S
         /\ \A q \in S : q # First(S) => Earlier(First(S), q)
<1> DEFINE Has(s) == s # {} => \E p \in s : \A q \in s \ {p} : Earlier(p, q)
           T == {s \in SUBSET S : Has(s)}
<1>1. IsFiniteSet(S)
  BY FS_Subset DEF PollsOK
<1>2. {} \in T
  OBVIOUS
<1>3. ASSUME NEW s \in SUBSET S, s \in T, NEW x \in S \ s PROVE s \cup {x} \in T
  <2>1. CASE s = {}
    BY <2>1
  <2>2. CASE s # {}
    <3>1. PICK p \in s : \A q \in s \ {p} : Earlier(p, q)
      BY <1>3, <2>2
    <3>2. CASE Earlier(x, p)
      <4>1. \A q \in s : Earlier(x, q)
        BY <3>1, <3>2, EarlierOrder
      <4> QED
        BY <4>1
    <3>3. CASE Earlier(p, x)
      BY <3>1, <3>3
    <3> QED
      BY <3>2, <3>3, EarlierOrder
  <2> QED
    BY <2>1, <2>2
<1>4. S \in T
  <2> HIDE DEF T
  <2> QED
    BY <1>1, <1>2, <1>3, SubsetInduction
<1>5. \E p \in S : \A q \in S \ {p} : Earlier(p, q)
  BY <1>4
<1> QED
  BY <1>5 DEF First

\* And of a poll earlier than all others.
LEMMA FirstIs ==
  ASSUME PollsOK, NEW S, S \subseteq DOMAIN polls,
         NEW p \in S, \A q \in S : q # p => Earlier(p, q)
  PROVE  First(S) = p
BY FirstIn, EarlierOrder

-----------------------------------------------------------------------------
(* The rows of a query, in order.                                          *)

Before(S, p) == {q \in S : Earlier(q, p)}

\* Later polls have more polls before them.
LEMMA BeforeGrows ==
  ASSUME PollsOK, NEW S, S \subseteq DOMAIN polls, NEW p \in S, NEW q \in S, Earlier(p, q)
  PROVE  Cardinality(Before(S, p)) < Cardinality(Before(S, q))
<1>1. IsFiniteSet(S) /\ IsFiniteSet(Before(S, p)) /\ IsFiniteSet(Before(S, q))
  BY FS_Subset DEF PollsOK, Before
<1>2. p \notin Before(S, p) /\ Before(S, p) \cup {p} \subseteq Before(S, q)
  BY EarlierOrder DEF Before
<1>3. Cardinality(Before(S, p) \cup {p}) = Cardinality(Before(S, p)) + 1
  BY <1>1, <1>2, FS_AddElement
<1>4. Cardinality(Before(S, p) \cup {p}) <= Cardinality(Before(S, q))
  BY <1>1, <1>2, FS_Subset
<1>5. Cardinality(Before(S, p)) \in Nat /\ Cardinality(Before(S, q)) \in Nat
  BY <1>1, FS_CardinalityType
<1> QED
  BY <1>3, <1>4, <1>5

\* Of n polls, the numbers of polls before each are those from 0 to n - 1.
LEMMA Ranks ==
  ASSUME PollsOK, NEW S, S \subseteq DOMAIN polls
  PROVE  /\ Cardinality(S) \in Nat
         /\ \A p \in S : Cardinality(Before(S, p)) \in Nat
         /\ \A p \in S : Cardinality(Before(S, p)) + 1 \in 1..Cardinality(S)
         /\ \A i \in 1..Cardinality(S) : \E p \in S : Cardinality(Before(S, p)) = i - 1
<1> DEFINE n == Cardinality(S)
           rank == [p \in S |-> Cardinality(Before(S, p)) + 1]
<1>1. IsFiniteSet(S) /\ n \in Nat
  BY FS_Subset, FS_CardinalityType DEF PollsOK
<1>2. ASSUME NEW p \in S
      PROVE  Cardinality(Before(S, p)) \in Nat /\ Cardinality(Before(S, p)) + 1 \in 1..n
  <2>1. Before(S, p) \subseteq S \ {p}
    BY EarlierOrder DEF Before
  <2>2. IsFiniteSet(S \ {p}) /\ Cardinality(S \ {p}) = n - 1
    BY <1>1, FS_RemoveElement
  <2>3. IsFiniteSet(Before(S, p)) /\ Cardinality(Before(S, p)) <= n - 1
    BY <2>1, <2>2, FS_Subset
  <2>4. Cardinality(Before(S, p)) \in Nat
    BY <2>3, FS_CardinalityType
  <2> QED
    BY <1>1, <2>3, <2>4
<1>3. rank \in Injection(S, 1..n)
  <2>1. rank \in [S -> 1..n]
    BY <1>2
  <2>2. ASSUME NEW p \in S, NEW q \in S, rank[p] = rank[q] PROVE p = q
    <3>1. Cardinality(Before(S, p)) = Cardinality(Before(S, q))
      BY <1>2, <2>2
    <3>2. ~Earlier(p, q) /\ ~Earlier(q, p)
      BY <1>2, <3>1, BeforeGrows
    <3> QED
      BY <3>2, EarlierOrder
  <2> QED
    BY <2>1, <2>2 DEF Injection, IsInjective
<1>4. IsFiniteSet(1..n) /\ Cardinality(1..n) = n
  BY <1>1, FS_Interval
<1>5. rank \in Surjection(S, 1..n)
  <2> HIDE DEF rank
  <2> QED
    BY <1>3, <1>4, FS_Injection
<1>6. \A i \in 1..n : \E p \in S : rank[p] = i
  <2> HIDE DEF rank
  <2> QED
    BY <1>5 DEF Surjection
<1> QED
  BY <1>1, <1>2, <1>6

\* "Ordered" lists every poll of a set once, in order.
LEMMA OrderedIs ==
  ASSUME PollsOK, NEW S, S \subseteq DOMAIN polls
  PROVE  /\ Cardinality(S) \in Nat
         /\ DOMAIN Ordered(S) = 1..Cardinality(S)
         /\ \A i \in 1..Cardinality(S) : Ordered(S)[i] \in S
         /\ \A i, j \in 1..Cardinality(S) : i < j <=> Earlier(Ordered(S)[i], Ordered(S)[j])
         /\ \A p \in S : \E i \in 1..Cardinality(S) : Ordered(S)[i] = p
<1> DEFINE n == Cardinality(S)
           row(i) == CHOOSE p \in S : Cardinality(Before(S, p)) = i - 1
<1>1. Ordered(S) = [i \in 1..n |-> row(i)]
  BY DEF Ordered, Before
<1>2. n \in Nat
  BY Ranks
<1>3. ASSUME NEW i \in 1..n
      PROVE  row(i) \in S /\ Cardinality(Before(S, row(i))) = i - 1
  BY Ranks
<1> HIDE DEF row
<1>4. ASSUME NEW i \in 1..n, NEW j \in 1..n
      PROVE  i < j <=> Earlier(row(i), row(j))
  <2>1. row(i) \in S /\ row(j) \in S /\ row(i) \in DOMAIN polls /\ row(j) \in DOMAIN polls
    BY <1>3
  <2>2. /\ Cardinality(Before(S, row(i))) = i - 1
        /\ Cardinality(Before(S, row(j))) = j - 1
    BY <1>3
  <2>3. ASSUME Earlier(row(i), row(j)) PROVE i < j
    BY <2>1, <2>2, <2>3, BeforeGrows
  <2>4. ASSUME i < j PROVE Earlier(row(i), row(j))
    <3>1. ~Earlier(row(j), row(i))
      BY <2>1, <2>2, <2>4, BeforeGrows
    <3>2. row(i) # row(j)
      BY <2>2, <2>4
    <3> QED
      BY <2>1, <3>1, <3>2, EarlierOrder
  <2> QED
    BY <2>3, <2>4
<1>5. ASSUME NEW p \in S PROVE \E i \in 1..n : row(i) = p
  <2> DEFINE i == Cardinality(Before(S, p)) + 1
  <2>1. i \in 1..n /\ i - 1 = Cardinality(Before(S, p))
    BY Ranks
  <2>2. row(i) \in S /\ Cardinality(Before(S, row(i))) = Cardinality(Before(S, p))
    BY <1>3, <2>1
  <2>3. ~Earlier(row(i), p) /\ ~Earlier(p, row(i))
    BY <2>1, <2>2, BeforeGrows
  <2>4. row(i) = p
    BY <2>2, <2>3, EarlierOrder
  <2> QED
    BY <2>1, <2>4
<1> QED
  BY <1>1, <1>2, <1>3, <1>4, <1>5

\* The ends of the rows.
LEMMA OrderedEnds ==
  ASSUME PollsOK, NEW S, S \subseteq DOMAIN polls, S # {}
  PROVE  /\ 1 \in 1..Cardinality(S) /\ Cardinality(S) \in 1..Cardinality(S)
         /\ Ordered(S)[1] = First(S)
         /\ Ordered(S)[Cardinality(S)] = Newest(S)
<1> DEFINE n == Cardinality(S)
<1>1. IsFiniteSet(S)
  BY FS_Subset DEF PollsOK
<1>2. n \in Nat /\ n # 0
  BY <1>1, FS_CardinalityType, FS_EmptySet
<1>3. 1 \in 1..n /\ n \in 1..n
  BY <1>2
<1>4. Ordered(S)[1] = First(S)
  <2>1. ASSUME NEW q \in S, q # Ordered(S)[1] PROVE Earlier(Ordered(S)[1], q)
    <3>1. PICK i \in 1..n : Ordered(S)[i] = q
      BY OrderedIs
    <3>2. 1 < i
      BY <2>1, <3>1
    <3> QED
      BY <1>3, <3>1, <3>2, OrderedIs
  <2>2. Ordered(S)[1] \in S
    BY <1>3, OrderedIs
  <2> QED
    BY <2>1, <2>2, FirstIs
<1>5. Ordered(S)[n] = Newest(S)
  <2>1. ASSUME NEW q \in S, q # Ordered(S)[n] PROVE Earlier(q, Ordered(S)[n])
    <3>1. PICK i \in 1..n : Ordered(S)[i] = q
      BY OrderedIs
    <3>2. i # n
      BY <2>1, <3>1
    <3>3. i < n
      BY <1>2, <3>1, <3>2
    <3> QED
      BY <1>3, <3>1, <3>3, OrderedIs
  <2>2. Ordered(S)[n] \in S
    BY <1>3, OrderedIs
  <2> QED
    BY <2>1, <2>2, NewestIs
<1> QED
  BY <1>3, <1>4, <1>5

-----------------------------------------------------------------------------
(* What is known of the counters when a row is read.                       *)

Rows(S) == Ordered(Sampled(S))
Count(S) == Cardinality(Sampled(S))

\* The polls of a set before a poll that have a counter, and the baselines they
\* give it.
Known(H, p, k) == {q \in H : Earlier(q, p) /\ k \in CountersOf(q)}

Baselines(H, p) ==
  [k \in {c \in Counters : Known(H, p, c) # {}} |-> Baseline(Newest(Known(H, p, k)), k)]

\* After i rows.
ReadRows(S, i, k) == {q \in S : k \in CountersOf(q) /\ \E j \in 1..i : Rows(S)[j] = q}

Reads(S, previous, i) ==
  [k \in DOMAIN previous \cup {c \in Counters : ReadRows(S, i, c) # {}} |->
     IF ReadRows(S, i, k) # {} THEN Baseline(Newest(ReadRows(S, i, k)), k) ELSE previous[k]]

\* The rows a series reads.
LEMMA RowsAre ==
  ASSUME PollsOK, NEW S, S \subseteq DOMAIN polls
  PROVE  /\ Count(S) \in Nat
         /\ DOMAIN Rows(S) = 1..Count(S)
         /\ \A i \in 1..Count(S) : Rows(S)[i] \in Sampled(S) /\ Rows(S)[i] \in S
         /\ \A i, j \in 1..Count(S) : i < j <=> Earlier(Rows(S)[i], Rows(S)[j])
         /\ \A p \in Sampled(S) : \E i \in 1..Count(S) : Rows(S)[i] = p
<1>1. Sampled(S) \subseteq S
  BY DEF Sampled
<1> QED
  BY <1>1, OrderedIs DEF Rows, Count

\* A poll with a counter is among them.
LEMMA CountersOfSampled ==
  ASSUME NEW S, NEW p \in S, NEW k \in CountersOf(p)
  PROVE  p \in Sampled(S)
BY DEF CountersOf, Sampled

\* One row more is one poll more.
LEMMA ReadsStep ==
  ASSUME PollsOK, NEW S, S \subseteq DOMAIN polls, NEW previous, NEW i \in 1..Count(S),
         DOMAIN previous \subseteq Counters
  PROVE  UpdatePrevious(Rows(S)[i], Reads(S, previous, i - 1)) = Reads(S, previous, i)
<1> DEFINE p == Rows(S)[i]
           old(k) == ReadRows(S, i - 1, k)
           new(k) == ReadRows(S, i, k)
<1>0. p \in S /\ p \in DOMAIN polls /\ Count(S) \in Nat
  BY RowsAre
<1>1. \A k \in Counters : new(k) = IF k \in CountersOf(p) THEN old(k) \cup {p} ELSE old(k)
  <2>1. 1..i = (1..(i - 1)) \cup {i}
    BY <1>0
  <2> QED
    BY <1>0, <2>1 DEF ReadRows
<1>2. \A k \in Counters : k \in CountersOf(p) => Newest(new(k)) = p
  <2> SUFFICES ASSUME NEW k \in Counters, k \in CountersOf(p) PROVE Newest(new(k)) = p
    OBVIOUS
  <2>1. p \in new(k) /\ new(k) \subseteq DOMAIN polls
    BY <1>0 DEF ReadRows
  <2>2. ASSUME NEW q \in new(k), q # p PROVE Earlier(q, p)
    <3>1. PICK j \in 1..i : Rows(S)[j] = q
      BY DEF ReadRows
    <3>2. j \in 1..Count(S) /\ j < i
      BY <1>0, <2>2, <3>1
    <3> QED
      BY <3>1, <3>2, RowsAre
  <2> HIDE DEF new, p
  <2> QED
    BY <2>1, <2>2, NewestIs
<1>3. CountersOf(p) \subseteq Counters
  BY DEF CountersOf
<1>4. DOMAIN Reads(S, previous, i - 1) \cup CountersOf(p)
        = DOMAIN previous \cup {c \in Counters : new(c) # {}}
  <2> HIDE DEF new, old, p
  <2>1. DOMAIN Reads(S, previous, i - 1) = DOMAIN previous \cup {c \in Counters : old(c) # {}}
    BY DEF Reads, old
  <2> QED
    BY <1>1, <1>3, <2>1
<1>5. ASSUME NEW k \in DOMAIN previous \cup {c \in Counters : new(c) # {}}
      PROVE  (IF k \in CountersOf(p) THEN Baseline(p, k) ELSE Reads(S, previous, i - 1)[k])
               = (IF new(k) # {} THEN Baseline(Newest(new(k)), k) ELSE previous[k])
  <2>0. k \in Counters
    OBVIOUS
  <2>1. CASE k \in CountersOf(p)
    <3>1. new(k) # {} /\ Newest(new(k)) = p
      BY <1>1, <1>2, <2>0, <2>1
    <3> HIDE DEF new, p
    <3> QED
      BY <2>1, <3>1
  <2>2. CASE k \notin CountersOf(p)
    <3>1. new(k) = old(k)
      BY <1>1, <2>0, <2>2
    <3>2. k \in DOMAIN previous \cup {c \in Counters : old(c) # {}}
      BY <3>1
    <3>3. Reads(S, previous, i - 1)[k]
            = IF old(k) # {} THEN Baseline(Newest(old(k)), k) ELSE previous[k]
      BY <3>2 DEF Reads
    <3> HIDE DEF new, old, p
    <3> QED
      BY <2>2, <3>1, <3>3
  <2> QED
    BY <2>1, <2>2
<1> HIDE DEF new, p
<1>6. UpdatePrevious(p, Reads(S, previous, i - 1))
        = [k \in DOMAIN previous \cup {c \in Counters : new(c) # {}} |->
             IF new(k) # {} THEN Baseline(Newest(new(k)), k) ELSE previous[k]]
  BY <1>4, <1>5 DEF UpdatePrevious
<1> USE DEF new, p
<1> QED
  BY <1>6 DEF Reads

\* The baselines each row is read with.
LEMMA PointsAre ==
  ASSUME PollsOK, NEW S, S \subseteq DOMAIN polls, NEW previous,
         DOMAIN previous \subseteq Counters, previous = [k \in DOMAIN previous |-> previous[k]]
  PROVE  Points(S, previous)
           = [i \in 1..Count(S) |-> SeriesPoint(Rows(S)[i], Reads(S, previous, i - 1))]
<1> DEFINE n == Count(S)
           step(f, i) == IF i = 0 THEN previous ELSE UpdatePrevious(Rows(S)[i], f[i - 1])
           reads(f) == f = [i \in 0..n |-> step(f, i)]
           read == CHOOSE f : reads(f)
           w == [i \in 0..n |-> Reads(S, previous, i)]
<1>1. Points(S, previous) = [i \in 1..n |-> SeriesPoint(Rows(S)[i], read[i - 1])]
  BY Zenon DEF Points, Rows, Count
<1>2. n \in Nat
  BY RowsAre
<1>3. Reads(S, previous, 0) = previous
  <2>1. \A k : ReadRows(S, 0, k) = {}
    BY DEF ReadRows
  <2>2. DOMAIN previous \cup {c \in Counters : ReadRows(S, 0, c) # {}} = DOMAIN previous
    BY <2>1
  <2>3. Reads(S, previous, 0) = [k \in DOMAIN previous |-> previous[k]]
    BY <2>1, <2>2 DEF Reads
  <2> QED
    BY <2>3
<1>4. reads(w)
  <2>1. ASSUME NEW i \in 0..n PROVE w[i] = step(w, i)
    <3>1. CASE i = 0
      BY <1>3, <2>1, <3>1
    <3>2. CASE i # 0
      <4>1. i \in 1..n /\ i - 1 \in 0..n
        BY <1>2, <3>2
      <4>2. w[i] = UpdatePrevious(Rows(S)[i], Reads(S, previous, i - 1))
        BY <4>1, ReadsStep
      <4>3. w[i - 1] = Reads(S, previous, i - 1)
        BY <4>1
      <4> QED
        BY <3>2, <4>2, <4>3
    <3> QED
      BY <3>1, <3>2
  <2> HIDE DEF step
  <2> QED
    BY <2>1
<1>5. reads(read)
  <2> HIDE DEF reads, w
  <2> QED
    BY <1>4
<1>6. \A i \in 0..n : read[i] = step(read, i)
  <2> HIDE DEF step, read
  <2>1. read = [i \in 0..n |-> step(read, i)]
    BY <1>5
  <2> QED
    BY <2>1
<1>7. \A i \in Nat : i \in 0..n => read[i] = Reads(S, previous, i)
  <2> DEFINE T == {i \in Nat : i \in 0..n => read[i] = Reads(S, previous, i)}
  <2> HIDE DEF read
  <2>1. 0 \in T
    BY <1>3, <1>6
  <2>2. ASSUME NEW i \in Nat, i \in T PROVE i + 1 \in T
    <3> SUFFICES ASSUME i + 1 \in 0..n PROVE read[i + 1] = Reads(S, previous, i + 1)
      OBVIOUS
    <3>1. i \in 0..n /\ i + 1 \in 1..n /\ i + 1 # 0 /\ (i + 1) - 1 = i
      BY <1>2
    <3>2. read[i] = Reads(S, previous, i)
      BY <2>2, <3>1
    <3>3. read[i + 1] = UpdatePrevious(Rows(S)[i + 1], Reads(S, previous, i))
      BY <1>6, <3>1, <3>2
    <3>4. UpdatePrevious(Rows(S)[i + 1], Reads(S, previous, (i + 1) - 1)) = Reads(S, previous, i + 1)
      BY <3>1, ReadsStep
    <3> QED
      BY <3>1, <3>3, <3>4
  <2>3. Nat \subseteq T
    <3> HIDE DEF T
    <3> QED
      BY <2>1, <2>2, NumberInduction
  <2> QED
    BY <2>3
<1>8. \A i \in 1..n : read[i - 1] = Reads(S, previous, i - 1)
  <2> SUFFICES ASSUME NEW i \in 1..n PROVE read[i - 1] = Reads(S, previous, i - 1)
    OBVIOUS
  <2>1. i - 1 \in Nat /\ i - 1 \in 0..n
    BY <1>2
  <2> HIDE DEF read
  <2> QED
    BY <1>7, <2>1
<1> HIDE DEF read
<1> QED
  BY <1>1, <1>8

\* The polls between the oldest eligible one and a window.
Old(start, oldest) == {p \in DOMAIN polls : oldest <= polls[p].at /\ polls[p].at < start}

OldOf(start, oldest, k) == {p \in Old(start, oldest) : k \in CountersOf(p)}

\* What is known before the window.
LEMMA PreviousIs ==
  ASSUME NEW start, NEW oldest
  PROVE  PreviousCounterValues(start, oldest)
           = [k \in {c \in Counters : OldOf(start, oldest, c) # {}} |->
                Baseline(Newest(OldOf(start, oldest, k)), k)]
<1> DEFINE before(k) == {p \in DOMAIN polls :
                           oldest <= polls[p].at /\ polls[p].at < start /\ k \in CountersOf(p)}
<1>1. \A k : before(k) = OldOf(start, oldest, k)
  BY DEF Old, OldOf
<1>2. PreviousCounterValues(start, oldest)
        = [k \in {c \in Counters : before(c) # {}} |-> Baseline(Newest(before(k)), k)]
  BY DEF PreviousCounterValues
<1> HIDE DEF before
<1> QED
  BY <1>1, <1>2

\* A row is read with the newest samples before it, of the rows and of the polls
\* before the window.
LEMMA ReadsAreBaselines ==
  ASSUME PollsOK, NEW start \in Nat, NEW end \in Nat, NEW oldest \in Nat,
         NEW S \in SUBSET Window(start, end)
  PROVE  \A i \in 1..Count(S) : Reads(S, PreviousCounterValues(start, oldest), i - 1)
                                   = Baselines(S \cup Old(start, oldest), Rows(S)[i])
<1> SUFFICES ASSUME NEW i \in 1..Count(S)
             PROVE  Reads(S, PreviousCounterValues(start, oldest), i - 1)
                      = Baselines(S \cup Old(start, oldest), Rows(S)[i])
  OBVIOUS
<1> DEFINE p == Rows(S)[i]
           H == S \cup Old(start, oldest)
           old(k) == OldOf(start, oldest, k)
           read(k) == ReadRows(S, i - 1, k)
           previous == PreviousCounterValues(start, oldest)
<1>1. S \subseteq DOMAIN polls /\ Old(start, oldest) \subseteq DOMAIN polls
  BY DEF Window, Old
<1>2. p \in S /\ p \in DOMAIN polls /\ Count(S) \in Nat
  BY <1>1, RowsAre
<1>3. ASSUME NEW q \in Old(start, oldest), NEW r \in S PROVE Earlier(q, r)
  BY <1>1 DEF PollsOK, Old, Window, Earlier
<1>4. ASSUME NEW k, NEW q \in read(k) PROVE q \in S /\ k \in CountersOf(q) /\ Earlier(q, p)
  <2>1. PICK j \in 1..(i - 1) : Rows(S)[j] = q
    BY DEF ReadRows
  <2>2. j \in 1..Count(S) /\ j < i
    BY <1>2
  <2>3. Earlier(q, p)
    BY <1>1, <2>1, <2>2, RowsAre
  <2> QED
    BY <2>3 DEF ReadRows
<1>5. ASSUME NEW k, NEW q \in S, k \in CountersOf(q), Earlier(q, p) PROVE q \in read(k)
  <2>1. q \in Sampled(S)
    BY <1>5, CountersOfSampled
  <2>2. PICK j \in 1..Count(S) : Rows(S)[j] = q
    BY <1>1, <2>1, RowsAre
  <2>3. j < i
    BY <1>1, <1>5, <2>2, RowsAre
  <2>4. j \in 1..(i - 1)
    BY <1>2, <2>3
  <2> QED
    BY <1>5, <2>2, <2>4 DEF ReadRows
<1>6. \A k : Known(H, p, k) = read(k) \cup old(k)
  <2> SUFFICES ASSUME NEW k PROVE Known(H, p, k) = read(k) \cup old(k)
    OBVIOUS
  <2>1. ASSUME NEW q \in Known(H, p, k) PROVE q \in read(k) \cup old(k)
    BY <1>5 DEF Known, OldOf
  <2>2. ASSUME NEW q \in read(k) PROVE q \in Known(H, p, k)
    BY <1>4 DEF Known
  <2>3. ASSUME NEW q \in old(k) PROVE q \in Known(H, p, k)
    BY <1>2, <1>3 DEF Known, OldOf
  <2> QED
    BY <2>1, <2>2, <2>3
<1>7. ASSUME NEW k \in Counters, read(k) # {} PROVE Newest(Known(H, p, k)) = Newest(read(k))
  <2>1. read(k) \subseteq DOMAIN polls /\ Known(H, p, k) \subseteq DOMAIN polls
    BY <1>1 DEF ReadRows, Known
  <2> DEFINE m == Newest(read(k))
  <2>2. m \in read(k) /\ \A q \in read(k) : q # m => Earlier(q, m)
    BY <1>7, <2>1, NewestIn
  <2>3. \A q \in old(k) : Earlier(q, m)
    BY <1>3, <1>4, <2>2 DEF OldOf
  <2> HIDE DEF m
  <2>4. m \in Known(H, p, k) /\ \A q \in Known(H, p, k) : q # m => Earlier(q, m)
    BY <1>6, <2>2, <2>3
  <2>5. Newest(Known(H, p, k)) = m
    BY <2>1, <2>4, NewestIs
  <2> QED
    BY <2>5 DEF m
<1>8. ASSUME NEW k \in Counters, read(k) = {} PROVE Known(H, p, k) = old(k)
  BY <1>6, <1>8
<1>9. /\ DOMAIN previous = {c \in Counters : old(c) # {}}
      /\ \A k \in DOMAIN previous : previous[k] = Baseline(Newest(old(k)), k)
  BY PreviousIs
<1>10. DOMAIN previous \cup {c \in Counters : read(c) # {}}
         = {c \in Counters : Known(H, p, c) # {}}
  <2> HIDE DEF old, read, H, p, previous
  <2> QED
    BY <1>6, <1>9
<1>11. ASSUME NEW k \in {c \in Counters : Known(H, p, c) # {}}
       PROVE  (IF read(k) # {} THEN Baseline(Newest(read(k)), k) ELSE previous[k])
                = Baseline(Newest(Known(H, p, k)), k)
  <2> HIDE DEF old, read, H, p, previous
  <2>1. CASE read(k) # {}
    BY <1>7, <2>1
  <2>2. CASE read(k) = {}
    BY <1>6, <1>8, <1>9, <2>2
  <2> QED
    BY <2>1, <2>2
<1>12. Reads(S, previous, i - 1)
         = [k \in DOMAIN previous \cup {c \in Counters : read(c) # {}} |->
              IF read(k) # {} THEN Baseline(Newest(read(k)), k) ELSE previous[k]]
  BY DEF Reads
<1> HIDE DEF old, read, H, p, previous
<1>13. Reads(S, previous, i - 1) = Baselines(H, p)
  BY <1>10, <1>11, <1>12 DEF Baselines
<1> QED
  BY <1>13 DEF H, p, previous

\* The points with the baselines of the polls before them that were read.
PointsOf(S, start, oldest) ==
  [i \in 1..Count(S) |->
     SeriesPoint(Rows(S)[i], Baselines(S \cup Old(start, oldest), Rows(S)[i]))]

\* Reading in order yields them.
LEMMA PointsIn ==
  ASSUME PollsOK, NEW start \in Nat, NEW end \in Nat, NEW oldest \in Nat,
         NEW S \in SUBSET Window(start, end)
  PROVE  Points(S, PreviousCounterValues(start, oldest)) = PointsOf(S, start, oldest)
<1> DEFINE previous == PreviousCounterValues(start, oldest)
<1>1. DOMAIN previous \subseteq Counters /\ previous = [k \in DOMAIN previous |-> previous[k]]
  BY PreviousIs
<1>2. S \subseteq DOMAIN polls
  BY DEF Window
<1>3. Points(S, previous)
        = [i \in 1..Count(S) |-> SeriesPoint(Rows(S)[i], Reads(S, previous, i - 1))]
  BY <1>1, <1>2, PointsAre
<1>4. \A i \in 1..Count(S) : Reads(S, PreviousCounterValues(start, oldest), i - 1)
                               = Baselines(S \cup Old(start, oldest), Rows(S)[i])
  BY ReadsAreBaselines, Zenon
<1> QED
  BY <1>3, <1>4 DEF PointsOf

\* The points of any set of polls of the window.
LEMMA PointsOfSet ==
  ASSUME PollsOK, NEW start \in Nat, NEW end \in Nat, NEW S \in SUBSET Window(start, end)
  PROVE  \A oldest \in Nat : Points(S, PreviousCounterValues(start, oldest)) = PointsOf(S, start, oldest)
BY PointsIn, Zenon

\* The length of a function on an interval.
LEMMA Lengths ==
  ASSUME NEW n \in Nat, NEW f, f = [i \in 1..n |-> f[i]]
  PROVE  Len(f) = n /\ (f = <<>> <=> n = 0)
<1>1. f \in Seq({f[i] : i \in 1..n})
  OBVIOUS
<1>2. Len(f) = n
  OBVIOUS
<1>3. f = <<>> <=> n = 0
  BY <1>1, <1>2
<1> QED
  BY <1>2, <1>3

\* What a series of points is.
LEMMA SeriesOfIs ==
  ASSUME NEW n \in Nat, NEW f, f = [i \in 1..n |-> f[i]]
  PROVE  /\ SeriesOf(f).points = f
         /\ n = 0 => SeriesOf(f) = NoSeries
         /\ n # 0 => SeriesOf(f) = [points |-> f, first |-> f[1].poll, latest |-> f[n]]
BY Lengths DEF SeriesOf, NoSeries

\* The fields of a point.
LEMMA PointIs ==
  ASSUME NEW p, NEW previous
  PROVE  /\ SeriesPoint(p, previous).poll = p
         /\ SeriesPoint(p, previous).at = polls[p].at
         /\ SeriesPoint(p, previous).run = polls[p].run
         /\ SeriesPoint(p, previous).delta = CounterDeltas(p, previous)
         /\ SeriesPoint(p, previous).from
              = [k \in DOMAIN CounterDeltas(p, previous) |-> previous[k].poll]
BY DEF SeriesPoint

-----------------------------------------------------------------------------
(* The native series.                                                      *)

NativePoint(p) == SeriesPoint(p, Baselines(DOMAIN polls, p))

\* Baselines depend on the polls known.
LEMMA BaselinesOf ==
  ASSUME NEW H, NEW I, NEW p, \A k \in Counters : Known(H, p, k) = Known(I, p, k)
  PROVE  Baselines(H, p) = Baselines(I, p)
BY DEF Baselines

\* The window and the past before it hold every earlier poll.
LEMMA NativeBaselines ==
  ASSUME PollsOK, NEW start \in Nat, NEW end \in Nat, NEW p \in Window(start, end)
  PROVE  Baselines(Window(start, end) \cup Old(start, 0), p) = Baselines(DOMAIN polls, p)
<1> DEFINE H == Window(start, end) \cup Old(start, 0)
<1>1. \A q \in DOMAIN polls : Earlier(q, p) => q \in H
  BY DEF PollsOK, Window, Old, Earlier
<1>2. H \subseteq DOMAIN polls
  BY DEF Window, Old
<1> HIDE DEF H
<1>3. \A k \in Counters : Known(H, p, k) = Known(DOMAIN polls, p, k)
  BY <1>1, <1>2 DEF Known
<1> QED
  BY <1>3, BaselinesOf DEF H

\* The points of the native series do not depend on the window.
LEMMA NativePoints ==
  ASSUME PollsOK, NEW start \in Nat, NEW end \in Nat
  PROVE  Points(Window(start, end), PreviousCounterValues(start, 0))
           = [i \in 1..Count(Window(start, end)) |-> NativePoint(Rows(Window(start, end))[i])]
<1> DEFINE W == Window(start, end)
<1>1. W \in SUBSET Window(start, end) /\ W \subseteq DOMAIN polls
  BY DEF Window
<1>2. Points(W, PreviousCounterValues(start, 0))
        = [i \in 1..Count(W) |-> SeriesPoint(Rows(W)[i], Baselines(W \cup Old(start, 0), Rows(W)[i]))]
  <2>1. \A oldest \in Nat : Points(W, PreviousCounterValues(start, oldest)) = PointsOf(W, start, oldest)
    BY <1>1, PointsOfSet, Zenon
  <2>2. 0 \in Nat
    OBVIOUS
  <2>3. Points(W, PreviousCounterValues(start, 0)) = PointsOf(W, start, 0)
    BY <2>1, <2>2, Zenon
  <2> QED
    BY <2>3 DEF PointsOf
<1>3. \A i \in 1..Count(W) : Baselines(W \cup Old(start, 0), Rows(W)[i])
                               = Baselines(DOMAIN polls, Rows(W)[i])
  BY <1>1, RowsAre, NativeBaselines
<1> QED
  BY <1>2, <1>3 DEF NativePoint

\* Their deltas are the reference.
LEMMA DeltasAreNative ==
  ASSUME NEW p
  PROVE  NativePoint(p).delta = NativeDelta(p)
<1> DEFINE known(k) == Known(DOMAIN polls, p, k)
           previous == Baselines(DOMAIN polls, p)
           counted == {k \in CountersOf(p) :
                         /\ known(k) # {}
                         /\ polls[Newest(known(k))].run = polls[p].run
                         /\ polls[Newest(known(k))].samples[k] <= polls[p].samples[k]}
           usable == {k \in CountersOf(p) \cap DOMAIN previous :
                        /\ previous[k].run = polls[p].run
                        /\ previous[k].value <= polls[p].samples[k]}
<1>1. \A k : Predecessors(p, k) = known(k)
  BY DEF Predecessors, Known
<1>2. CountersOf(p) \subseteq Counters
  BY DEF CountersOf
<1>3. /\ DOMAIN previous = {c \in Counters : known(c) # {}}
      /\ \A k \in DOMAIN previous :
           /\ previous[k].run = polls[Newest(known(k))].run
           /\ previous[k].value = polls[Newest(known(k))].samples[k]
  BY DEF Baselines, Baseline
<1>4. NativeDelta(p)
        = [k \in counted |-> polls[p].samples[k] - polls[Newest(known(k))].samples[k]]
  BY <1>1 DEF NativeDelta
<1>5. CounterDeltas(p, previous) = [k \in usable |-> polls[p].samples[k] - previous[k].value]
  BY DEF CounterDeltas
<1>6. usable = counted
  <2> HIDE DEF known, previous
  <2> QED
    BY <1>2, <1>3
<1>7. \A k \in counted : previous[k].value = polls[Newest(known(k))].samples[k]
  <2> HIDE DEF known, previous
  <2> QED
    BY <1>2, <1>3
<1> HIDE DEF known, counted, usable, previous
<1>8. CounterDeltas(p, previous) = NativeDelta(p)
  BY <1>4, <1>5, <1>6, <1>7
<1>9. NativePoint(p) = SeriesPoint(p, previous)
  BY DEF NativePoint, previous
<1>10. SeriesPoint(p, previous).delta = CounterDeltas(p, previous)
  BY PointIs
<1> QED
  BY <1>8, <1>9, <1>10

\* What windows are.
LEMMA WindowIn ==
  ASSUME PollsOK, now \in Nat, MaxTime \in Nat, NEW w \in Windows
  PROVE  w[1] \in Nat /\ w[2] \in Nat /\ 1 <= w[1] /\ w[1] < w[2]
BY DEF Windows

\* The native series.
LEMMA SeriesPoints ==
  ASSUME PollsOK, NEW start \in Nat, NEW end \in Nat
  PROVE  LET W == Window(start, end)
             points == [i \in 1..Count(W) |-> NativePoint(Rows(W)[i])]
         IN  /\ Series(start, end).points = points
             /\ Count(W) = 0 => Series(start, end) = NoSeries
             /\ Count(W) # 0 => Series(start, end)
                                  = [points |-> points,
                                     first  |-> First(Sampled(W)),
                                     latest |-> NativePoint(Newest(Sampled(W)))]
<1> DEFINE W == Window(start, end)
           n == Count(W)
           points == [i \in 1..n |-> NativePoint(Rows(W)[i])]
<1>1. W \subseteq DOMAIN polls /\ Sampled(W) \subseteq DOMAIN polls
  BY DEF Window, Sampled
<1>2. n \in Nat
  BY <1>1, RowsAre
<1>3. Series(start, end) = SeriesOf(points)
  BY NativePoints DEF Series
<1>4. points = [i \in 1..n |-> points[i]]
  OBVIOUS
<1>5. /\ SeriesOf(points).points = points
      /\ n = 0 => SeriesOf(points) = NoSeries
      /\ n # 0 => SeriesOf(points) = [points |-> points, first |-> points[1].poll, latest |-> points[n]]
  <2> HIDE DEF points, n
  <2> QED
    BY <1>2, <1>4, SeriesOfIs
<1>6. ASSUME n # 0
      PROVE  points[1].poll = First(Sampled(W)) /\ points[n] = NativePoint(Newest(Sampled(W)))
  <2>1. Sampled(W) # {}
    BY <1>6, FS_EmptySet DEF Count
  <2>2. 1 \in 1..n /\ n \in 1..n /\ Rows(W)[1] = First(Sampled(W)) /\ Rows(W)[n] = Newest(Sampled(W))
    BY <1>1, <2>1, OrderedEnds DEF Rows, Count
  <2>3. points[1] = NativePoint(First(Sampled(W)))
    BY <2>2
  <2> QED
    BY <2>2, <2>3, PointIs DEF NativePoint
<1> HIDE DEF points, n
<1>7. n # 0 => Series(start, end) = [points |-> points, first |-> First(Sampled(W)),
                                     latest |-> NativePoint(Newest(Sampled(W)))]
  BY <1>3, <1>5, <1>6
<1> QED
  BY <1>3, <1>5, <1>7 DEF points, n

\* Every window shows the reference deltas.
LEMMA WindowsAgreeHolds ==
  ASSUME PollsOK, now \in Nat, MaxTime \in Nat
  PROVE  WindowsAgree
<1> DEFINE native == [p \in Sampled(DOMAIN polls) |-> NativeDelta(p)]
<1> SUFFICES ASSUME NEW w \in Windows
             PROVE  LET points == Series(w[1], w[2]).points
                    IN  /\ \A i \in DOMAIN points : points[i].delta = native[points[i].poll]
                        /\ {points[i].poll : i \in DOMAIN points} = Sampled(Window(w[1], w[2]))
                        /\ \A i, j \in DOMAIN points :
                             i < j => Earlier(points[i].poll, points[j].poll)
  BY DEF WindowsAgree
<1> DEFINE W == Window(w[1], w[2])
           n == Count(W)
           points == [i \in 1..n |-> NativePoint(Rows(W)[i])]
<1>1. w[1] \in Nat /\ w[2] \in Nat
  BY WindowIn
<1>2. Series(w[1], w[2]).points = points
  BY <1>1, SeriesPoints
<1>3. W \subseteq DOMAIN polls
  BY DEF Window
<1>4. \A i \in 1..n : points[i].poll = Rows(W)[i]
  BY PointIs DEF NativePoint
<1>5. ASSUME NEW i \in 1..n PROVE points[i].delta = native[points[i].poll]
  <2>1. Rows(W)[i] \in Sampled(DOMAIN polls)
    BY <1>3, RowsAre DEF Sampled
  <2>2. points[i].delta = NativeDelta(Rows(W)[i])
    BY DeltasAreNative
  <2> QED
    BY <1>4, <2>1, <2>2
<1>6. {points[i].poll : i \in 1..n} = Sampled(W)
  <2> HIDE DEF points, n
  <2> QED
    BY <1>3, <1>4, RowsAre DEF n
<1>7. \A i, j \in 1..n : i < j => Earlier(points[i].poll, points[j].poll)
  <2> HIDE DEF points, n
  <2> QED
    BY <1>3, <1>4, RowsAre DEF n
<1>8. DOMAIN points = 1..n
  OBVIOUS
<1> HIDE DEF points, n, native
<1> QED
  BY <1>2, <1>5, <1>6, <1>7, <1>8

-----------------------------------------------------------------------------
(* The sampled series.                                                     *)

PreviousOfLatest(start, stamp) ==
  LET before == PreviousCounterValues(start, 0)
      within == IF stamp > start THEN PreviousCounterValues(stamp, start) ELSE <<>>
  IN  [k \in DOMAIN before \cup DOMAIN within |->
         IF k \in DOMAIN within THEN within[k] ELSE before[k]]

\* Searching the window first and what precedes it second finds the newest
\* samples before the latest point.
LEMMA WithinThenBefore ==
  ASSUME PollsOK, NEW start \in Nat, NEW stamp \in Nat, start <= stamp
  PROVE  PreviousOfLatest(start, stamp) = PreviousCounterValues(stamp, 0)
<1> DEFINE before == PreviousCounterValues(start, 0)
           within == IF stamp > start THEN PreviousCounterValues(stamp, start) ELSE <<>>
           old(k) == OldOf(start, 0, k)
           new(k) == IF stamp > start THEN OldOf(stamp, start, k) ELSE {}
           all(k) == OldOf(stamp, 0, k)
<1>1. /\ DOMAIN before = {c \in Counters : old(c) # {}}
      /\ \A k \in DOMAIN before : before[k] = Baseline(Newest(old(k)), k)
  BY PreviousIs
<1>2. /\ DOMAIN within = {c \in Counters : new(c) # {}}
      /\ \A k \in DOMAIN within : within[k] = Baseline(Newest(new(k)), k)
  <2>1. CASE stamp > start
    BY <2>1, PreviousIs
  <2>2. CASE ~(stamp > start)
    BY <2>2
  <2> QED
    BY <2>1, <2>2
<1>3. PreviousCounterValues(stamp, 0)
        = [k \in {c \in Counters : all(c) # {}} |-> Baseline(Newest(all(k)), k)]
  BY PreviousIs
<1>4. \A k : all(k) = old(k) \cup new(k)
  BY DEF PollsOK, Old, OldOf
<1>5. \A k : \A q \in old(k), r \in new(k) : Earlier(q, r)
  BY DEF PollsOK, Old, OldOf, Earlier
<1>6. \A k : old(k) \subseteq DOMAIN polls /\ new(k) \subseteq DOMAIN polls
  BY DEF Old, OldOf
<1> HIDE DEF before, within, old, new, all
<1>7. ASSUME NEW k, new(k) # {} PROVE Newest(all(k)) = Newest(new(k))
  <2> DEFINE m == Newest(new(k))
  <2>1. m \in new(k) /\ \A q \in new(k) : q # m => Earlier(q, m)
    BY <1>6, <1>7, NewestIn
  <2> HIDE DEF m
  <2>2. m \in all(k) /\ \A q \in all(k) : q # m => Earlier(q, m)
    BY <1>4, <1>5, <2>1
  <2>3. all(k) \subseteq DOMAIN polls
    BY <1>4, <1>6
  <2> QED
    BY <2>2, <2>3, NewestIs DEF m
<1>8. DOMAIN before \cup DOMAIN within = {c \in Counters : all(c) # {}}
  BY <1>1, <1>2, <1>4
<1>9. ASSUME NEW k \in {c \in Counters : all(c) # {}}
      PROVE  (IF k \in DOMAIN within THEN within[k] ELSE before[k]) = Baseline(Newest(all(k)), k)
  <2>1. CASE new(k) # {}
    BY <1>2, <1>7, <2>1
  <2>2. CASE new(k) = {}
    <3>1. all(k) = old(k)
      BY <1>4, <2>2
    <3> QED
      BY <1>1, <1>2, <2>2, <3>1
  <2> QED
    BY <2>1, <2>2
<1>10. [k \in DOMAIN before \cup DOMAIN within |->
          IF k \in DOMAIN within THEN within[k] ELSE before[k]]
         = PreviousCounterValues(stamp, 0)
  BY <1>3, <1>8, <1>9
<1> QED
  BY <1>10 DEF before, within, PreviousOfLatest

\* What NativeLatest searches for is the native latest point.
LEMMA NativeLatestIs ==
  ASSUME PollsOK, NEW start \in Nat, NEW end \in Nat, Sampled(Window(start, end)) # {}
  PROVE  NativeLatest(start, end) = NativePoint(Newest(Sampled(Window(start, end))))
<1>1. Sampled(Window(start, end)) \subseteq DOMAIN polls
  BY DEF Sampled, Window
<1>2. PICK m \in Sampled(Window(start, end)) :
        /\ m = Newest(Sampled(Window(start, end)))
        /\ m \in DOMAIN polls
        /\ \A q \in Sampled(Window(start, end)) : q # m => Earlier(q, m)
  BY <1>1, NewestIn
<1>3. PICK stamp \in Nat : stamp = polls[m].at /\ start <= stamp /\ stamp <= end
  BY <1>2 DEF PollsOK, Sampled, Window
<1> DEFINE V == Window(stamp, end)
           native == [i \in 1..Count(V) |-> NativePoint(Rows(V)[i])]
           previous == PreviousOfLatest(start, stamp)
           points == Points(Window(stamp, end), previous)
<1>4. previous = PreviousCounterValues(stamp, 0)
  BY <1>3, WithinThenBefore
<1>5. points = native
  <2>1. Points(V, PreviousCounterValues(stamp, 0)) = native
    BY NativePoints, Zenon
  <2> HIDE DEF previous, native
  <2> QED
    BY <1>4, <2>1
<1>6. V \subseteq DOMAIN polls /\ Sampled(V) \subseteq Sampled(Window(start, end)) /\ m \in Sampled(V)
  <2>1. \A p \in V : p \in Window(start, end)
    <3> SUFFICES ASSUME NEW p \in V PROVE p \in Window(start, end)
      OBVIOUS
    <3>1. p \in DOMAIN polls /\ stamp <= polls[p].at /\ polls[p].at <= end
      BY DEF Window
    <3>2. polls[p].at \in Nat
      BY <3>1 DEF PollsOK
    <3> QED
      BY <1>3, <3>1, <3>2 DEF Window
  <2>2. m \in V
    BY <1>2, <1>3 DEF Window
  <2> HIDE DEF V
  <2> QED
    BY <1>1, <1>2, <2>1, <2>2 DEF Sampled, Window
<1>7. Newest(Sampled(V)) = m
  <2>1. Sampled(V) \subseteq DOMAIN polls /\ \A q \in Sampled(V) : q # m => Earlier(q, m)
    BY <1>1, <1>2, <1>6
  <2> HIDE DEF V
  <2> QED
    BY <1>6, <2>1, NewestIs
<1>8. /\ Count(V) \in Nat /\ Count(V) \in 1..Count(V)
      /\ Rows(V)[Count(V)] = m
  BY <1>1, <1>6, <1>7, OrderedEnds DEF Rows, Count
<1>9. Len(native) = Count(V) /\ native[Count(V)] = NativePoint(m)
  <2>1. native = [i \in 1..Count(V) |-> native[i]]
    OBVIOUS
  <2>2. native[Count(V)] = NativePoint(m)
    BY <1>8
  <2> HIDE DEF native
  <2> QED
    BY <1>8, <2>1, <2>2, Lengths
<1>10. NativeLatest(start, end) = points[Len(points)]
  BY <1>2, <1>3 DEF NativeLatest, PreviousOfLatest
<1> HIDE DEF points, native
<1> QED
  BY <1>2, <1>5, <1>9, <1>10

\* The dashboard reads the native series or the endpoints of its buckets, and
\* then shows the native first poll and latest point.
LEMMA DashboardIs ==
  ASSUME PollsOK, NEW start \in Nat, NEW end \in Nat, NEW bucket
  PROVE  \/ DashboardSeries(start, end, bucket) = Series(start, end)
         \/ /\ bucket \in SampledBuckets
            /\ Sampled(Window(start, end)) # {}
            /\ DashboardSeries(start, end, bucket)
                 = [points |-> Points(DashboardPollIDs(start, end, bucket),
                                      PreviousCounterValues(start, 0)),
                    first  |-> First(Sampled(Window(start, end))),
                    latest |-> NativePoint(Newest(Sampled(Window(start, end))))]
<1> DEFINE W == Window(start, end)
           ids == DashboardPollIDs(start, end, bucket)
           points == Points(ids, PreviousCounterValues(start, 0))
<1>1. CASE bucket \notin SampledBuckets \/ ids = {} \/ Cardinality(ids) > PollLimit
  BY <1>1 DEF DashboardSeries
<1>2. CASE bucket \in SampledBuckets /\ ~(ids = {} \/ Cardinality(ids) > PollLimit) /\ Sampled(W) # {}
  <2>1. DashboardSeries(start, end, bucket)
          = [points |-> points, first |-> First(Sampled(W)), latest |-> NativeLatest(start, end)]
    BY <1>2 DEF DashboardSeries
  <2> QED
    BY <1>2, <2>1, NativeLatestIs
<1>3. CASE bucket \in SampledBuckets /\ ~(ids = {} \/ Cardinality(ids) > PollLimit) /\ Sampled(W) = {}
  <2>1. DashboardSeries(start, end, bucket) = SeriesOf(points)
    BY <1>3 DEF DashboardSeries
  <2>2. ids \in SUBSET W
    BY DEF DashboardPollIDs
  <2>3. Sampled(ids) = {} /\ Count(ids) = 0 /\ Count(W) = 0
    BY <1>3, <2>2, FS_EmptySet DEF Sampled, Count
  <2>4. \A oldest \in Nat : Points(ids, PreviousCounterValues(start, oldest)) = PointsOf(ids, start, oldest)
    BY <2>2, PointsOfSet, Zenon
  <2>5. points = [i \in 1..0 |-> points[i]]
    <3>1. 0 \in Nat
      OBVIOUS
    <3>2. points = PointsOf(ids, start, 0)
      BY <2>4, <3>1, Zenon
    <3>3. PointsOf(ids, start, 0) = [i \in 1..0 |-> PointsOf(ids, start, 0)[i]]
      BY <2>3 DEF PointsOf
    <3> QED
      BY <3>2, <3>3
  <2>6. SeriesOf(points) = NoSeries
    <3> HIDE DEF points
    <3> QED
      BY <2>5, SeriesOfIs
  <2>7. Series(start, end) = NoSeries
    BY <2>3, SeriesPoints
  <2> QED
    BY <2>1, <2>6, <2>7
<1> QED
  BY <1>1, <1>2, <1>3

\* The latest point and the first poll are native.
LEMMA LatestAgrees ==
  ASSUME PollsOK, NEW start \in Nat, NEW end \in Nat, NEW bucket
  PROVE  /\ DashboardSeries(start, end, bucket).latest = Series(start, end).latest
         /\ DashboardSeries(start, end, bucket).first = Series(start, end).first
<1> DEFINE W == Window(start, end)
<1>1. CASE DashboardSeries(start, end, bucket) = Series(start, end)
  BY <1>1
<1>2. CASE /\ Sampled(W) # {}
           /\ DashboardSeries(start, end, bucket).first = First(Sampled(W))
           /\ DashboardSeries(start, end, bucket).latest = NativePoint(Newest(Sampled(W)))
  <2>1. Count(W) # 0
    <3>1. IsFiniteSet(Sampled(W))
      BY FS_Subset DEF PollsOK, Sampled, Window
    <3> QED
      BY <1>2, <3>1, FS_EmptySet DEF Count
  <2>2. Series(start, end) = [points |-> [i \in 1..Count(W) |-> NativePoint(Rows(W)[i])],
                              first  |-> First(Sampled(W)),
                              latest |-> NativePoint(Newest(Sampled(W)))]
    BY <2>1, SeriesPoints
  <2> QED
    BY <1>2, <2>2
<1> QED
  BY <1>1, <1>2, DashboardIs

\* In every window.
LEMMA LatestIsNativeHolds ==
  ASSUME PollsOK, now \in Nat, MaxTime \in Nat
  PROVE  LatestIsNative
<1> SUFFICES ASSUME NEW w \in Windows, NEW b \in SampledBuckets
             PROVE  /\ DashboardSeries(w[1], w[2], b).latest = Series(w[1], w[2]).latest
                    /\ DashboardSeries(w[1], w[2], b).first = Series(w[1], w[2]).first
  BY DEF LatestIsNative
<1>1. w[1] \in Nat /\ w[2] \in Nat
  BY WindowIn
<1> QED
  BY <1>1, LatestAgrees

-----------------------------------------------------------------------------
(* What a point is counted from.                                           *)

\* A delta is counted from a poll of the history, of the same run.
LEMMA CountedFrom ==
  ASSUME PollsOK, NEW H \in SUBSET DOMAIN polls, NEW p \in DOMAIN polls,
         NEW k \in DOMAIN SeriesPoint(p, Baselines(H, p)).delta
  PROVE  LET point == SeriesPoint(p, Baselines(H, p))
             q == Newest(Known(H, p, k))
         IN  /\ k \in Counters /\ k \in CountersOf(p) /\ Known(H, p, k) # {}
             /\ point.from[k] = q /\ q \in Known(H, p, k)
             /\ polls[q].run = polls[p].run
             /\ polls[q].samples[k] <= polls[p].samples[k]
             /\ point.delta[k] = polls[p].samples[k] - polls[q].samples[k]
<1> DEFINE previous == Baselines(H, p)
           q == Newest(Known(H, p, k))
<1>1. k \in DOMAIN CounterDeltas(p, previous)
  BY PointIs
<1>2. /\ k \in CountersOf(p) /\ k \in DOMAIN previous
      /\ previous[k].run = polls[p].run /\ previous[k].value <= polls[p].samples[k]
      /\ CounterDeltas(p, previous)[k] = polls[p].samples[k] - previous[k].value
  <2> HIDE DEF previous
  <2> QED
    BY <1>1 DEF CounterDeltas
<1>3. k \in Counters /\ Known(H, p, k) # {} /\ previous[k] = Baseline(q, k)
  BY <1>2 DEF Baselines
<1>4. q \in Known(H, p, k)
  <2>1. Known(H, p, k) \subseteq DOMAIN polls
    BY DEF Known
  <2> QED
    BY <1>3, <2>1, NewestIn
<1>5. previous[k].poll = q /\ previous[k].run = polls[q].run /\ previous[k].value = polls[q].samples[k]
  BY <1>3 DEF Baseline
<1>6. /\ SeriesPoint(p, previous).from[k] = previous[k].poll
      /\ SeriesPoint(p, previous).delta[k] = CounterDeltas(p, previous)[k]
  <2> HIDE DEF previous
  <2>1. /\ SeriesPoint(p, previous).delta = CounterDeltas(p, previous)
        /\ SeriesPoint(p, previous).from = [l \in DOMAIN CounterDeltas(p, previous) |-> previous[l].poll]
    BY PointIs
  <2> QED
    BY <1>1, <2>1
<1> HIDE DEF q
<1>7. /\ SeriesPoint(p, previous).from[k] = q
      /\ SeriesPoint(p, previous).delta[k] = polls[p].samples[k] - polls[q].samples[k]
      /\ polls[q].run = polls[p].run /\ polls[q].samples[k] <= polls[p].samples[k]
  <2> HIDE DEF previous
  <2> QED
    BY <1>2, <1>5, <1>6
<1> QED
  BY <1>2, <1>3, <1>4, <1>7 DEF q

\* A cleared point counts nothing.
LEMMA ClearedIs ==
  ASSUME NEW p, NEW previous
  PROVE  LET point == SeriesPoint(p, previous)
         IN  Cleared(point).delta = <<>> /\ Cleared(point).latency = NoLatency
<1> DEFINE point == SeriesPoint(p, previous)
<1>1. "delta" \in DOMAIN point /\ "latency" \in DOMAIN point
  BY DEF SeriesPoint
<1> HIDE DEF point
<1>2. Cleared(point).delta = <<>> /\ Cleared(point).latency = NoLatency
  BY <1>1 DEF Cleared
<1> QED
  BY <1>2 DEF point

\* Clearing changes no point but the oldest, and the latest when it is alone.
ClearedPointsOf(points) ==
  LET oldest(i) == /\ points[i].at >= cutoff
                   /\ \A j \in DOMAIN points :
                        points[j].at >= cutoff =>
                          \/ points[i].at < points[j].at
                          \/ points[i].at = points[j].at /\ i <= j
  IN  [i \in DOMAIN points |-> IF oldest(i) THEN Cleared(points[i]) ELSE points[i]]

\* Clearing changes the first retained point, and the latest if it is that one.
LEMMA ClearIs ==
  ASSUME NEW points, NEW first, NEW latest
  PROVE  LET series == [points |-> points, first |-> first, latest |-> latest]
             alone == /\ first # 0 /\ latest # NoPoint
                      /\ latest.poll = first /\ latest.at >= cutoff
         IN  /\ ClearCutoffCounterBaseline(series).points = ClearedPointsOf(points)
             /\ ClearCutoffCounterBaseline(series).latest = IF alone THEN Cleared(latest) ELSE latest
<1> DEFINE series == [points |-> points, first |-> first, latest |-> latest]
           alone == /\ first # 0 /\ latest # NoPoint
                    /\ latest.poll = first /\ latest.at >= cutoff
           single(s) == /\ s.first # 0 /\ s.latest # NoPoint
                        /\ s.latest.poll = s.first /\ s.latest.at >= cutoff
<1>1. series.points = points /\ series.first = first /\ series.latest = latest
  OBVIOUS
<1>2. \A s : ClearCutoffCounterBaseline(s)
              = [s EXCEPT !.points = ClearedPointsOf(s.points),
                          !.latest = IF single(s) THEN Cleared(s.latest) ELSE s.latest]
  BY Zenon DEF ClearCutoffCounterBaseline, ClearedPointsOf
<1>3. single(series) <=> alone
  OBVIOUS
<1> HIDE DEF single, alone
<1>4. ClearCutoffCounterBaseline(series)
        = [points |-> ClearedPointsOf(points), first |-> first,
           latest |-> IF alone THEN Cleared(latest) ELSE latest]
  BY <1>1, <1>2, <1>3
<1> USE DEF alone
<1> QED
  BY <1>4

\* Every dashboard series is of points of its window.
LEMMA DashboardForm ==
  ASSUME PollsOK, NEW start \in Nat, NEW end \in Nat, NEW bucket
  PROVE  \E S \in SUBSET Window(start, end) :
           \/ DashboardSeries(start, end, bucket) = NoSeries
           \/ /\ Sampled(Window(start, end)) # {}
              /\ DashboardSeries(start, end, bucket)
                   = [points |-> PointsOf(S, start, 0),
                      first  |-> First(Sampled(Window(start, end))),
                      latest |-> NativePoint(Newest(Sampled(Window(start, end))))]
<1> DEFINE W == Window(start, end)
           ids == DashboardPollIDs(start, end, bucket)
<1>1. ASSUME NEW S \in SUBSET W
      PROVE  Points(S, PreviousCounterValues(start, 0)) = PointsOf(S, start, 0)
  <2>1. \A oldest \in Nat : Points(S, PreviousCounterValues(start, oldest)) = PointsOf(S, start, oldest)
    BY PointsOfSet
  <2>2. 0 \in Nat
    OBVIOUS
  <2> QED
    BY <2>1, <2>2, Zenon
<1>2. CASE DashboardSeries(start, end, bucket) = Series(start, end)
  <2>1. [i \in 1..Count(W) |-> NativePoint(Rows(W)[i])] = PointsOf(W, start, 0)
    BY <1>1, NativePoints
  <2>2. CASE Count(W) = 0
    BY <1>2, <2>2, SeriesPoints
  <2>3. CASE Count(W) # 0
    <3>1. Sampled(W) # {}
      BY <2>3, FS_EmptySet DEF Count
    <3>2. Series(start, end) = [points |-> PointsOf(W, start, 0), first  |-> First(Sampled(W)),
                                latest |-> NativePoint(Newest(Sampled(W)))]
      BY <2>1, <2>3, SeriesPoints
    <3> QED
      BY <1>2, <3>1, <3>2
  <2> QED
    BY <2>2, <2>3
<1>3. CASE /\ Sampled(W) # {}
           /\ DashboardSeries(start, end, bucket)
                = [points |-> Points(ids, PreviousCounterValues(start, 0)),
                   first  |-> First(Sampled(W)), latest |-> NativePoint(Newest(Sampled(W)))]
  <2>1. ids \in SUBSET W
    BY DEF DashboardPollIDs
  <2>2. Points(ids, PreviousCounterValues(start, 0)) = PointsOf(ids, start, 0)
    BY <1>1, <2>1
  <2> HIDE DEF W, ids
  <2>3. DashboardSeries(start, end, bucket)
          = [points |-> PointsOf(ids, start, 0),
             first  |-> First(Sampled(W)), latest |-> NativePoint(Newest(Sampled(W)))]
    BY <1>3, <2>2
  <2> QED
    BY <1>3, <2>1, <2>3 DEF W
<1> QED
  BY <1>2, <1>3, DashboardIs

-----------------------------------------------------------------------------
(* Retention.                                                              *)

\* The public series reads nothing older.
LEMMA PublicStartsAtCutoffHolds ==
  ASSUME PollsOK, now \in Nat, MaxTime \in Nat, cutoff \in Nat
  PROVE  PublicStartsAtCutoff
<1> SUFFICES ASSUME NEW w \in Windows
             PROVE  CountsFrom(PublicSeries(w[1], w[2]).points, cutoff)
  BY DEF PublicStartsAtCutoff
<1>1. PICK start \in Nat, end \in Nat : start = ClampToRetention(w[1]) /\ end = w[2] /\ cutoff <= start
  BY WindowIn DEF ClampToRetention
<1> DEFINE W == Window(start, end)
           points == PointsOf(W, start, cutoff)
<1>2. CountsFrom(<<>>, cutoff)
  BY DEF CountsFrom
<1>3. CountsFrom(points, cutoff)
  <2> SUFFICES ASSUME NEW i \in 1..Count(W), NEW k \in DOMAIN points[i].delta
               PROVE  polls[points[i].from[k]].at >= cutoff
    BY DEF CountsFrom, PointsOf
  <2> DEFINE H == W \cup Old(start, cutoff)
             p == Rows(W)[i]
  <2>1. H \in SUBSET DOMAIN polls
    BY DEF Window, Old
  <2>2. p \in DOMAIN polls
    BY RowsAre DEF Window
  <2>3. points[i] = SeriesPoint(p, Baselines(H, p))
    BY DEF PointsOf
  <2>4. points[i].from[k] \in Known(H, p, k)
    <3> HIDE DEF points, H, p
    <3> QED
      BY <2>1, <2>2, <2>3, CountedFrom
  <2>5. points[i].from[k] \in H
    BY <2>4 DEF Known
  <2>6. \A q \in H : polls[q].at >= cutoff
    BY <1>1 DEF PollsOK, Window, Old
  <2> QED
    BY <2>5, <2>6
<1> HIDE DEF points
<1>4. CASE start >= end
  BY <1>1, <1>2, <1>4 DEF PublicSeries, NoSeries
<1>5. CASE ~(start >= end)
  <2> DEFINE series == BoundedSeries(start, end, cutoff)
  <2>1. PublicSeries(w[1], w[2]) = Clamped(series, w[1])
    BY <1>1, <1>5 DEF PublicSeries
  <2>2. Points(W, PreviousCounterValues(start, cutoff)) = points
    <3>1. W \in SUBSET Window(start, end)
      OBVIOUS
    <3> QED
      BY <3>1, PointsOfSet DEF points
  <2>3. PICK f, l : series = [points |-> <<>>, first |-> f, latest |-> l]
                      \/ series = [points |-> points, first |-> f, latest |-> l]
    BY <2>2 DEF BoundedSeries, SeriesOf, NoSeries
  <2>4. CountsFrom(series.points, cutoff)
    BY <1>2, <1>3, <2>3
  <2>5. CountsFrom(ClearedPointsOf(points), cutoff)
    <3> SUFFICES ASSUME NEW i \in DOMAIN points, NEW k \in DOMAIN ClearedPointsOf(points)[i].delta
                 PROVE  ClearedPointsOf(points)[i].from[k] \notin DOMAIN polls
                          \/ polls[ClearedPointsOf(points)[i].from[k]].at >= cutoff
      BY DEF CountsFrom, ClearedPointsOf
    <3>1. Cleared(points[i]).delta = <<>>
      BY ClearedIs DEF points, PointsOf
    <3>2. ClearedPointsOf(points)[i] # Cleared(points[i])
      BY <3>1
    <3>3. ClearedPointsOf(points)[i] = points[i]
      BY <3>2 DEF ClearedPointsOf
    <3> QED
      BY <1>3, <3>3 DEF CountsFrom
  <2>6. ClearedPointsOf(<<>>) = <<>>
    BY DEF ClearedPointsOf
  <2>7. CountsFrom(ClearCutoffCounterBaseline(series).points, cutoff)
    BY <1>2, <2>3, <2>5, <2>6, ClearIs
  <2> QED
    BY <2>1, <2>4, <2>7 DEF Clamped
<1> QED
  BY <1>4, <1>5

\* With complete polls, a point counts from no earlier than any earlier poll.
LEMMA CountsFromLater ==
  ASSUME PollsOK, Complete, NEW H \in SUBSET DOMAIN polls, NEW p \in DOMAIN polls,
         NEW f \in H, Earlier(f, p), DOMAIN polls[f].samples # {},
         NEW k \in DOMAIN SeriesPoint(p, Baselines(H, p)).delta
  PROVE  polls[SeriesPoint(p, Baselines(H, p)).from[k]].at >= polls[f].at
<1> DEFINE q == Newest(Known(H, p, k))
<1>1. /\ k \in Counters /\ Known(H, p, k) # {} /\ q \in Known(H, p, k)
      /\ SeriesPoint(p, Baselines(H, p)).from[k] = q
  BY CountedFrom
<1>2. f \in Known(H, p, k)
  BY <1>1 DEF Known, Complete, CountersOf
<1>3. Known(H, p, k) \subseteq DOMAIN polls
  BY DEF Known
<1>4. f = q \/ Earlier(f, q)
  BY <1>2, <1>3, NewestIn
<1> HIDE DEF q
<1>5. f \in DOMAIN polls /\ q \in DOMAIN polls
  BY <1>1, <1>3
<1>6. polls[f].at <= polls[q].at
  BY <1>4, <1>5 DEF PollsOK, Earlier
<1> QED
  BY <1>1, <1>5, <1>6 DEF PollsOK

\* The first point of a window that starts at the cutoff is cleared, and the
\* others are counted from it or from later points.
LEMMA ClearedCountsFromCutoff ==
  ASSUME PollsOK, Complete, cutoff \in Nat, NEW end \in Nat, NEW S \in SUBSET Window(cutoff, end)
  PROVE  CountsFrom(ClearedPointsOf(PointsOf(S, cutoff, 0)), cutoff)
<1> DEFINE points == PointsOf(S, cutoff, 0)
           H == S \cup Old(cutoff, 0)
           n == Count(S)
<1>1. S \subseteq DOMAIN polls /\ H \in SUBSET DOMAIN polls
  BY DEF Window, Old
<1>2. /\ DOMAIN points = 1..n /\ n \in Nat
      /\ \A i \in 1..n : points[i] = SeriesPoint(Rows(S)[i], Baselines(H, Rows(S)[i]))
  BY <1>1, RowsAre DEF PointsOf
<1>3. \A i \in 1..n : Rows(S)[i] \in S /\ Rows(S)[i] \in Sampled(S) /\ Rows(S)[i] \in DOMAIN polls
  BY <1>1, RowsAre
<1>4. \A i \in 1..n : points[i].at = polls[Rows(S)[i]].at
  <2>1. \A i \in 1..n : SeriesPoint(Rows(S)[i], Baselines(H, Rows(S)[i])).at = polls[Rows(S)[i]].at
    BY PointIs
  <2> HIDE DEF points, n, H
  <2> QED
    BY <1>2, <2>1
<1>5. \A i \in 1..n : polls[Rows(S)[i]].at >= cutoff /\ polls[Rows(S)[i]].at \in Nat
  BY <1>3 DEF Window, PollsOK
<1> HIDE DEF points, H, n
<1> SUFFICES ASSUME NEW i \in 1..n, NEW k \in DOMAIN ClearedPointsOf(points)[i].delta
             PROVE  polls[ClearedPointsOf(points)[i].from[k]].at >= cutoff
  <2>1. DOMAIN ClearedPointsOf(points) = 1..n
    BY <1>2 DEF ClearedPointsOf
  <2> QED
    BY <2>1 DEF CountsFrom, points
<1>6. 1 \in 1..n
  BY <1>2
<1>7. Cleared(points[i]).delta = <<>>
  BY <1>2, ClearedIs
<1>8. ClearedPointsOf(points)[i] = points[i]
  <2>1. ClearedPointsOf(points)[i] # Cleared(points[i])
    BY <1>7
  <2> QED
    BY <1>2, <2>1 DEF ClearedPointsOf
<1>9. CASE i = 1
  <2>1. \A j \in 1..n : points[1].at < points[j].at \/ (points[1].at = points[j].at /\ 1 <= j)
    <3> SUFFICES ASSUME NEW j \in 1..n, j # 1
                 PROVE  points[1].at < points[j].at \/ (points[1].at = points[j].at /\ 1 <= j)
      BY <1>6
    <3>1. Earlier(Rows(S)[1], Rows(S)[j])
      BY <1>1, <1>2, <1>6, RowsAre DEF n
    <3>2. polls[Rows(S)[1]].at <= polls[Rows(S)[j]].at
      BY <1>5, <1>6, <3>1 DEF Earlier
    <3> QED
      BY <1>2, <1>4, <1>5, <1>6, <3>2
  <2>2. points[1].at >= cutoff
    BY <1>4, <1>5, <1>6
  <2>3. ClearedPointsOf(points)[1] = Cleared(points[1])
    BY <1>2, <1>6, <2>1, <2>2 DEF ClearedPointsOf
  <2> QED
    BY <1>7, <1>9, <2>3
<1>10. CASE i # 1
  <2> DEFINE f == Rows(S)[1]
             p == Rows(S)[i]
  <2>1. Earlier(f, p)
    <3>1. 1 < i
      BY <1>2, <1>10
    <3> QED
      BY <1>1, <1>6, <3>1, RowsAre DEF n
  <2>2. f \in H /\ p \in DOMAIN polls /\ DOMAIN polls[f].samples # {}
    BY <1>3, <1>6 DEF H, Sampled
  <2>3. points[i] = SeriesPoint(p, Baselines(H, p)) /\ k \in DOMAIN points[i].delta
    BY <1>2, <1>8
  <2> HIDE DEF f, p
  <2>4. polls[SeriesPoint(p, Baselines(H, p)).from[k]].at >= polls[f].at
    BY <1>1, <2>1, <2>2, <2>3, CountsFromLater
  <2>5. SeriesPoint(p, Baselines(H, p)).from[k] \in DOMAIN polls
    <3>1. SeriesPoint(p, Baselines(H, p)).from[k] \in Known(H, p, k)
      BY <1>1, <2>2, <2>3, CountedFrom
    <3> QED
      BY <1>1, <3>1 DEF Known
  <2>6. polls[f].at >= cutoff /\ polls[f].at \in Nat
    BY <1>5, <1>6 DEF f
  <2>7. polls[SeriesPoint(p, Baselines(H, p)).from[k]].at \in Nat
    BY <2>5 DEF PollsOK
  <2> QED
    BY <1>8, <2>3, <2>4, <2>6, <2>7
<1> QED
  BY <1>9, <1>10

\* The clamped series clears what would be.
LEMMA ClampedWindowStartsAfreshHolds ==
  ASSUME PollsOK, now \in Nat, MaxTime \in Nat, cutoff \in Nat
  PROVE  ClampedWindowStartsAfresh
<1> SUFFICES ASSUME Complete, NEW w \in Windows, NEW b \in AllBuckets, w[1] < cutoff
             PROVE  /\ CountsFrom(ClampedSeries(w[1], w[2], b).points, cutoff)
                    /\ ClampedSeries(w[1], w[2], b).latest # NoPoint
                         => CountsFrom(<<ClampedSeries(w[1], w[2], b).latest>>, cutoff)
  BY DEF ClampedWindowStartsAfresh
<1>1. PICK end \in Nat : end = w[2]
  BY WindowIn
<1>2. ClampToRetention(w[1]) = cutoff
  BY DEF ClampToRetention
<1>3. CountsFrom(<<>>, cutoff)
  BY DEF CountsFrom
<1>4. CASE cutoff >= end
  BY <1>1, <1>2, <1>3, <1>4 DEF ClampedSeries, NoSeries
<1>5. CASE ~(cutoff >= end)
  <2> DEFINE W == Window(cutoff, end)
             series == DashboardSeries(cutoff, end, b)
  <2>1. ClampedSeries(w[1], w[2], b) = ClearCutoffCounterBaseline(series)
    BY <1>1, <1>2, <1>5 DEF ClampedSeries, Clamped
  <2>2. PICK S \in SUBSET W :
          \/ series = NoSeries
          \/ /\ Sampled(W) # {}
             /\ series = [points |-> PointsOf(S, cutoff, 0), first |-> First(Sampled(W)),
                          latest |-> NativePoint(Newest(Sampled(W)))]
    BY DashboardForm
  <2>3. CASE series = NoSeries
    <3>1. series = [points |-> <<>>, first |-> 0, latest |-> NoPoint]
      BY <2>3 DEF NoSeries
    <3>2. ClearCutoffCounterBaseline(series).points = ClearedPointsOf(<<>>)
      BY <3>1, ClearIs
    <3>3. ClearCutoffCounterBaseline(series).latest = NoPoint
      BY <3>1, ClearIs
    <3>4. ClearedPointsOf(<<>>) = <<>>
      BY DEF ClearedPointsOf
    <3> QED
      BY <1>3, <2>1, <3>2, <3>3, <3>4
  <2>4. CASE /\ Sampled(W) # {}
             /\ series = [points |-> PointsOf(S, cutoff, 0), first |-> First(Sampled(W)),
                          latest |-> NativePoint(Newest(Sampled(W)))]
    <3>1. PICK f, l : f = First(Sampled(W)) /\ l = Newest(Sampled(W))
      OBVIOUS
    <3> DEFINE latest == NativePoint(l)
               alone == /\ f # 0 /\ latest # NoPoint
                        /\ latest.poll = f /\ latest.at >= cutoff
    <3>2. /\ ClearCutoffCounterBaseline(series).points = ClearedPointsOf(PointsOf(S, cutoff, 0))
          /\ ClearCutoffCounterBaseline(series).latest = IF alone THEN Cleared(latest) ELSE latest
      BY <2>4, <3>1, ClearIs
    <3>3. CountsFrom(ClearedPointsOf(PointsOf(S, cutoff, 0)), cutoff)
      BY ClearedCountsFromCutoff
    <3>4. W \subseteq DOMAIN polls /\ Sampled(W) \subseteq W
      BY DEF Window, Sampled
    <3>5. f \in Sampled(W) /\ l \in Sampled(W) /\ (f # l => Earlier(f, l))
      BY <2>4, <3>1, <3>4, FirstIn, NewestIn
    <3>6. f \in DOMAIN polls /\ l \in DOMAIN polls /\ DOMAIN polls[f].samples # {}
      BY <3>4, <3>5 DEF Sampled
    <3>7. polls[f].at \in Nat /\ polls[f].at >= cutoff
      BY <3>4, <3>5, <3>6 DEF PollsOK, Window
    <3>8. CASE f = l
      <4>1. latest.poll = l /\ latest.at = polls[l].at
        BY PointIs DEF NativePoint
      <4>2. l # 0
        BY <3>6 DEF PollsOK
      <4>3. alone
        BY <3>7, <3>8, <4>1, <4>2 DEF NoPoint
      <4>4. Cleared(latest).delta = <<>>
        BY ClearedIs DEF NativePoint
      <4> HIDE DEF latest, alone
      <4>5. CountsFrom(<<Cleared(latest)>>, cutoff)
        BY <4>4 DEF CountsFrom
      <4> QED
        BY <2>1, <3>2, <3>3, <4>3, <4>5
    <3>9. CASE f # l
      <4>1. latest.poll # f
        BY <3>9, PointIs DEF NativePoint
      <4>2. \A k \in DOMAIN latest.delta : polls[latest.from[k]].at >= cutoff
        <5> SUFFICES ASSUME NEW k \in DOMAIN latest.delta PROVE polls[latest.from[k]].at >= cutoff
          OBVIOUS
        <5>1. polls[latest.from[k]].at >= polls[f].at
          <6> DEFINE H == DOMAIN polls
          <6>1. H \in SUBSET DOMAIN polls /\ f \in H /\ l \in DOMAIN polls /\ Earlier(f, l)
            BY <3>5, <3>6, <3>9
          <6>2. k \in DOMAIN SeriesPoint(l, Baselines(H, l)).delta
            BY DEF NativePoint
          <6> HIDE DEF H
          <6>3. polls[SeriesPoint(l, Baselines(H, l)).from[k]].at >= polls[f].at
            BY <3>6, <6>1, <6>2, CountsFromLater
          <6> QED
            BY <6>3 DEF NativePoint, H
        <5>2. latest.from[k] \in DOMAIN polls
          <6>1. latest.from[k] \in Known(DOMAIN polls, l, k)
            BY <3>6, CountedFrom DEF NativePoint
          <6> QED
            BY <6>1 DEF Known
        <5>3. polls[latest.from[k]].at \in Nat
          BY <5>2 DEF PollsOK
        <5> QED
          BY <3>7, <5>1, <5>3
      <4> HIDE DEF latest
      <4>3. CountsFrom(<<latest>>, cutoff)
        BY <4>2 DEF CountsFrom
      <4>4. ~alone
        BY <4>1
      <4> HIDE DEF alone
      <4> QED
        BY <2>1, <3>2, <3>3, <4>3, <4>4
    <3> QED
      BY <3>8, <3>9
  <2> QED
    BY <2>2, <2>3, <2>4
<1> QED
  BY <1>1, <1>4, <1>5

-----------------------------------------------------------------------------
(* Ratios.                                                                 *)

\* The deltas are natural numbers, and those that are divided match.
Sound(point) ==
  /\ point.latency.time \in Nat /\ point.latency.requests \in Nat
  /\ point.latency.time <= point.latency.requests
  /\ DOMAIN point.delta \subseteq Counters
  /\ \A k \in DOMAIN point.delta : point.delta[k] \in Nat
  /\ point.paired /\ {"requests", "errors"} \subseteq DOMAIN point.delta =>
       point.delta["errors"] <= point.delta["requests"]

\* Two deltas with one baseline are of one pair of polls.
LEMMA MatchingDeltas ==
  ASSUME PollsOK, RunsGrow, ~masked, NEW H \in SUBSET DOMAIN polls, NEW p \in DOMAIN polls,
         NEW k, {"requests", k} \subseteq DOMAIN SeriesPoint(p, Baselines(H, p)).delta,
         SeriesPoint(p, Baselines(H, p)).from["requests"] = SeriesPoint(p, Baselines(H, p)).from[k]
  PROVE  SeriesPoint(p, Baselines(H, p)).delta[k] <= SeriesPoint(p, Baselines(H, p)).delta["requests"]
<1> DEFINE point == SeriesPoint(p, Baselines(H, p))
           q == Newest(Known(H, p, k))
           r == Newest(Known(H, p, "requests"))
<1>1. /\ k \in CountersOf(p) /\ point.from[k] = q /\ q \in Known(H, p, k)
      /\ polls[q].run = polls[p].run
      /\ point.delta[k] = polls[p].samples[k] - polls[q].samples[k]
  BY CountedFrom
<1>2. /\ "requests" \in CountersOf(p) /\ point.from["requests"] = r /\ r \in Known(H, p, "requests")
      /\ point.delta["requests"] = polls[p].samples["requests"] - polls[r].samples["requests"]
  BY CountedFrom
<1>3. q = r
  BY <1>1, <1>2
<1> HIDE DEF point, q, r
<1>4. /\ q \in DOMAIN polls /\ Earlier(q, p)
      /\ k \in CountersOf(q) /\ "requests" \in CountersOf(q)
  BY <1>1, <1>2, <1>3 DEF Known
<1>5. Outgrows(q, polls[p].samples, CountersOf(q) \cap CountersOf(p))
  BY <1>1, <1>4 DEF RunsGrow
<1>6. polls[p].samples[k] - polls[q].samples[k]
        <= polls[p].samples["requests"] - polls[q].samples["requests"]
  BY <1>1, <1>2, <1>4, <1>5 DEF Outgrows
<1> QED
  BY <1>1, <1>2, <1>3, <1>6 DEF point

\* Every point is sound.
LEMMA PointSound ==
  ASSUME PollsOK, RunsGrow, ~masked, NEW H \in SUBSET DOMAIN polls, NEW p \in DOMAIN polls
  PROVE  Sound(SeriesPoint(p, Baselines(H, p)))
<1> DEFINE previous == Baselines(H, p)
           point == SeriesPoint(p, previous)
           delta == CounterDeltas(p, previous)
           both(k) == {"requests", k} \subseteq DOMAIN delta /\ MatchingBaseline(previous, "requests", k)
<1>1. /\ point.delta = delta
      /\ point.from = [k \in DOMAIN delta |-> previous[k].poll]
  BY PointIs
<1>2. /\ point.latency = IF both("time") THEN [time |-> delta["time"], requests |-> delta["requests"]]
                         ELSE NoLatency
      /\ point.paired = both("errors")
  BY DEF SeriesPoint
<1>3. \A k \in DOMAIN point.delta : k \in Counters /\ point.delta[k] \in Nat
  <2> SUFFICES ASSUME NEW k \in DOMAIN point.delta PROVE k \in Counters /\ point.delta[k] \in Nat
    OBVIOUS
  <2> DEFINE q == Newest(Known(H, p, k))
  <2>1. /\ k \in Counters /\ k \in CountersOf(p) /\ q \in Known(H, p, k)
        /\ polls[q].samples[k] <= polls[p].samples[k]
        /\ point.delta[k] = polls[p].samples[k] - polls[q].samples[k]
    BY CountedFrom
  <2> HIDE DEF q, point
  <2>2. q \in DOMAIN polls /\ k \in CountersOf(q)
    BY <2>1 DEF Known
  <2>3. polls[p].samples[k] \in Nat /\ polls[q].samples[k] \in Nat
    BY <2>1, <2>2 DEF PollsOK
  <2> QED
    BY <2>1, <2>3
<1>4. ASSUME NEW k, both(k) PROVE point.delta[k] <= point.delta["requests"]
  <2>1. {"requests", k} \subseteq DOMAIN delta /\ previous["requests"].poll = previous[k].poll
    BY <1>4 DEF MatchingBaseline
  <2> HIDE DEF delta, previous
  <2>2. point.from["requests"] = point.from[k] /\ {"requests", k} \subseteq DOMAIN point.delta
    BY <1>1, <2>1
  <2> USE DEF previous
  <2> QED
    BY <2>2, MatchingDeltas
<1> HIDE DEF point, delta, previous
<1>5. both("time") => {"time", "requests"} \subseteq DOMAIN point.delta
  BY <1>1
<1>6. both("errors") => point.delta["errors"] <= point.delta["requests"]
  BY <1>4
<1>7. both("time") => point.delta["time"] <= point.delta["requests"]
  BY <1>4
<1> HIDE DEF both
<1>8. /\ point.latency.time \in Nat /\ point.latency.requests \in Nat
      /\ point.latency.time <= point.latency.requests
  <2>1. CASE both("time")
    BY <1>1, <1>2, <1>3, <1>5, <1>7, <2>1
  <2>2. CASE ~both("time")
    BY <1>2, <2>2 DEF NoLatency
  <2> QED
    BY <2>1, <2>2
<1>9. Sound(point)
  BY <1>2, <1>3, <1>6, <1>8 DEF Sound
<1> QED
  BY <1>9 DEF point, previous

\* A series of sound points.
AllSound(points) ==
  /\ \E n \in Nat : DOMAIN points = 1..n
  /\ \A i \in DOMAIN points : Sound(points[i])

\* So are the points of any series,
LEMMA PointsSound ==
  ASSUME PollsOK, RunsGrow, ~masked, NEW start \in Nat, NEW end \in Nat, NEW oldest \in Nat,
         NEW S \in SUBSET Window(start, end)
  PROVE  AllSound(PointsOf(S, start, oldest)) /\ AllSound(ClearedPointsOf(PointsOf(S, start, oldest)))
<1> DEFINE points == PointsOf(S, start, oldest)
           H == S \cup Old(start, oldest)
           n == Count(S)
<1>1. S \subseteq DOMAIN polls /\ H \in SUBSET DOMAIN polls
  BY DEF Window, Old
<1>2. n \in Nat /\ DOMAIN points = 1..n
  BY <1>1, RowsAre DEF PointsOf
<1>3. ASSUME NEW i \in 1..n PROVE Sound(points[i]) /\ Sound(Cleared(points[i]))
  <2>1. points[i] = SeriesPoint(Rows(S)[i], Baselines(H, Rows(S)[i]))
    BY DEF PointsOf
  <2>2. Rows(S)[i] \in DOMAIN polls
    BY <1>1, RowsAre
  <2>3. Cleared(points[i]).delta = <<>> /\ Cleared(points[i]).latency = NoLatency
    BY <2>1, ClearedIs
  <2> HIDE DEF points, H
  <2>4. Sound(points[i])
    BY <1>1, <2>1, <2>2, PointSound
  <2>5. Sound(Cleared(points[i]))
    BY <2>3 DEF Sound, NoLatency
  <2> QED
    BY <2>4, <2>5
<1> HIDE DEF points, H, n
<1>4. AllSound(points)
  BY <1>2, <1>3 DEF AllSound
<1>5. AllSound(ClearedPointsOf(points))
  <2>1. /\ DOMAIN ClearedPointsOf(points) = 1..n
        /\ \A i \in 1..n : \/ ClearedPointsOf(points)[i] = points[i]
                           \/ ClearedPointsOf(points)[i] = Cleared(points[i])
    BY <1>2 DEF ClearedPointsOf
  <2>2. \A i \in 1..n : Sound(ClearedPointsOf(points)[i])
    BY <1>3, <2>1
  <2> QED
    BY <1>2, <2>1, <2>2 DEF AllSound
<1> QED
  BY <1>4, <1>5 DEF points

\* of the one with no point,
LEMMA NothingSound ==
  AllSound(<<>>) /\ ClearedPointsOf(<<>>) = <<>> /\ AllSound(ClearedPointsOf(<<>>))
<1>1. DOMAIN <<>> = 1..0 /\ 0 \in Nat /\ DOMAIN <<>> = {}
  OBVIOUS
<1>2. AllSound(<<>>)
  BY <1>1 DEF AllSound
<1>3. ClearedPointsOf(<<>>) = <<>>
  BY DEF ClearedPointsOf
<1> QED
  BY <1>2, <1>3

\* of the public one
LEMMA PublicSound ==
  ASSUME PollsOK, RunsGrow, ~masked, now \in Nat, MaxTime \in Nat, cutoff \in Nat, NEW w \in Windows
  PROVE  AllSound(PublicSeries(w[1], w[2]).points)
<1>1. PICK start \in Nat, end \in Nat : start = ClampToRetention(w[1]) /\ end = w[2] /\ cutoff <= start
  BY WindowIn DEF ClampToRetention
<1> DEFINE W == Window(start, end)
           points == PointsOf(W, start, cutoff)
           series == BoundedSeries(start, end, cutoff)
<1>2. PublicSeries(w[1], w[2]) = IF start >= end THEN NoSeries ELSE Clamped(series, w[1])
  BY <1>1 DEF PublicSeries
<1>3. Points(W, PreviousCounterValues(start, cutoff)) = points
  <2>1. W \in SUBSET Window(start, end)
    OBVIOUS
  <2> QED
    BY <2>1, PointsOfSet
<1>4. AllSound(points) /\ AllSound(ClearedPointsOf(points))
  BY PointsSound
<1> HIDE DEF points
<1>5. PICK f, l : series = [points |-> <<>>, first |-> f, latest |-> l]
                    \/ series = [points |-> points, first |-> f, latest |-> l]
  BY <1>3 DEF BoundedSeries, SeriesOf, NoSeries
<1>6. AllSound(series.points) /\ AllSound(ClearCutoffCounterBaseline(series).points)
  <2>1. CASE series = [points |-> <<>>, first |-> f, latest |-> l]
    <3>1. series.points = <<>> /\ ClearCutoffCounterBaseline(series).points = ClearedPointsOf(<<>>)
      BY <2>1, ClearIs
    <3> QED
      BY <3>1, NothingSound
  <2>2. CASE series = [points |-> points, first |-> f, latest |-> l]
    <3>1. series.points = points /\ ClearCutoffCounterBaseline(series).points = ClearedPointsOf(points)
      BY <2>2, ClearIs
    <3> QED
      BY <1>4, <3>1
  <2> QED
    BY <1>5, <2>1, <2>2
<1>7. AllSound(NoSeries.points)
  BY NothingSound DEF NoSeries
<1> QED
  BY <1>2, <1>6, <1>7 DEF Clamped

\* and of the clamped one, cleared or not.
LEMMA ClampedSound ==
  ASSUME PollsOK, RunsGrow, ~masked, now \in Nat, MaxTime \in Nat, cutoff \in Nat, NEW w \in Windows,
         NEW b
  PROVE  AllSound(ClampedSeries(w[1], w[2], b).points)
<1>1. PICK start \in Nat, end \in Nat : start = ClampToRetention(w[1]) /\ end = w[2]
  BY WindowIn DEF ClampToRetention
<1> DEFINE W == Window(start, end)
           series == DashboardSeries(start, end, b)
<1>2. ClampedSeries(w[1], w[2], b) = IF start >= end THEN NoSeries ELSE Clamped(series, w[1])
  BY <1>1 DEF ClampedSeries
<1>3. PICK S \in SUBSET W :
        \/ series = NoSeries
        \/ series = [points |-> PointsOf(S, start, 0), first |-> First(Sampled(W)),
                     latest |-> NativePoint(Newest(Sampled(W)))]
  BY DashboardForm
<1> DEFINE points == PointsOf(S, start, 0)
<1>4. AllSound(points) /\ AllSound(ClearedPointsOf(points))
  <2>1. \A oldest \in Nat : AllSound(PointsOf(S, start, oldest))
                              /\ AllSound(ClearedPointsOf(PointsOf(S, start, oldest)))
    BY PointsSound
  <2>2. 0 \in Nat
    OBVIOUS
  <2> QED
    BY <2>1, <2>2, Zenon
<1> HIDE DEF points
<1>5. AllSound(series.points) /\ AllSound(ClearCutoffCounterBaseline(series).points)
  <2>1. CASE series = NoSeries
    <3>1. series.points = <<>> /\ ClearCutoffCounterBaseline(series).points = ClearedPointsOf(<<>>)
      BY <2>1, ClearIs DEF NoSeries
    <3> QED
      BY <3>1, NothingSound
  <2>2. CASE series # NoSeries
    <3>1. PICK f, l : series = [points |-> points, first |-> f, latest |-> l]
      BY <1>3, <2>2 DEF points
    <3>2. series.points = points /\ ClearCutoffCounterBaseline(series).points = ClearedPointsOf(points)
      BY <3>1, ClearIs
    <3> QED
      BY <1>4, <3>2
  <2> QED
    BY <2>1, <2>2
<1>6. AllSound(NoSeries.points)
  BY NothingSound DEF NoSeries
<1> QED
  BY <1>2, <1>5, <1>6 DEF Clamped

\* The indices of sound points are finite in number.
LEMMA SoundIndices ==
  ASSUME NEW points, AllSound(points), NEW I \in SUBSET DOMAIN points
  PROVE  IsFiniteSet(I)
<1>1. PICK n \in Nat : DOMAIN points = 1..n
  BY DEF AllSound
<1>2. IsFiniteSet(1..n)
  BY FS_Interval
<1> QED
  BY <1>1, <1>2, FS_Subset

\* Sums keep the bound on latencies.
LEMMA LatencyBound ==
  ASSUME NEW points, AllSound(points), NEW I \in SUBSET DOMAIN points
  PROVE  LatencyOf(points, I).time <= LatencyOf(points, I).requests
<1> DEFINE f == [i \in I |-> points[i].latency.time]
           g == [i \in I |-> points[i].latency.requests]
<1>1. IsFiniteSet(I)
  BY SoundIndices
<1>2. \A i \in I : f[i] \in Nat /\ g[i] \in Nat /\ f[i] <= g[i]
  BY DEF AllSound, Sound
<1>3. SumFunctionOnSet(f, I) <= SumFunctionOnSet(g, I)
  <2> HIDE DEF f, g
  <2> QED
    BY <1>1, <1>2, SumMonotone
<1> QED
  BY <1>3 DEF LatencyOf

\* Sums keep the bound on errors.
LEMMA ErrorsBound ==
  ASSUME NEW points, AllSound(points), NEW I \in SUBSET DOMAIN points, NEW e \in SlotErrors(points, I)
  PROVE  e <= SumOf(points, I)["requests"]
<1> DEFINE counted == {i \in I : "requests" \in DOMAIN points[i].delta}
           paired == {i \in counted : points[i].paired /\ "errors" \in DOMAIN points[i].delta}
           f == [i \in paired |-> points[i].delta["errors"]]
           g == [i \in counted |-> points[i].delta["requests"]]
           having(k) == {i \in I : k \in DOMAIN points[i].delta}
<1>1. counted # {} /\ paired = counted /\ e = SumFunctionOnSet(f, paired)
  <2> HIDE DEF f
  <2>1. SlotErrors(points, I) = IF counted = {} \/ paired # counted THEN {}
                                ELSE {SumFunctionOnSet(f, paired)}
    BY DEF SlotErrors, f
  <2> HIDE DEF counted, paired
  <2> QED
    BY <2>1
<1>2. \A i \in counted : f[i] \in Nat /\ g[i] \in Nat /\ f[i] <= g[i]
  <2> SUFFICES ASSUME NEW i \in counted PROVE f[i] \in Nat /\ g[i] \in Nat /\ f[i] <= g[i]
    OBVIOUS
  <2>1. i \in paired /\ Sound(points[i])
    BY <1>1 DEF AllSound
  <2>2. /\ points[i].delta["errors"] \in Nat /\ points[i].delta["requests"] \in Nat
        /\ points[i].delta["errors"] <= points[i].delta["requests"]
    BY <2>1 DEF Sound
  <2> QED
    BY <2>1, <2>2
<1>3. IsFiniteSet(counted)
  BY SoundIndices
<1>4. SumFunctionOnSet(f, counted) <= SumFunctionOnSet(g, counted)
  <2> HIDE DEF f, g, counted
  <2> QED
    BY <1>2, <1>3, SumMonotone
<1>5. "requests" \in Counters
  BY <1>1 DEF AllSound, Sound
<1>6. SumOf(points, I) = [k \in {c \in Counters : having(c) # {}} |->
                            SumFunctionOnSet([i \in having(k) |-> points[i].delta[k]], having(k))]
  BY DEF SumOf
<1>7. having("requests") = counted /\ having("requests") # {}
  BY <1>1
<1>8. SumOf(points, I)["requests"]
        = SumFunctionOnSet([i \in having("requests") |-> points[i].delta["requests"]], having("requests"))
  <2> HIDE DEF having
  <2> QED
    BY <1>5, <1>6, <1>7
<1> HIDE DEF having, counted, paired
<1>9. SumOf(points, I)["requests"] = SumFunctionOnSet(g, counted)
  BY <1>7, <1>8
<1> HIDE DEF f, g
<1> QED
  BY <1>1, <1>4, <1>9

\* Every slot of the public API keeps both.
LEMMA SlotsMatch ==
  ASSUME NEW series, AllSound(series.points)
  PROVE  /\ ErrorsWithinRequests(GroupPublicMetrics(series))
         /\ LatencyIsOfItsRequests(GroupPublicMetrics(series))
<1> DEFINE points == series.points
           usable == {i \in DOMAIN points :
                        \/ "requests" \in DOMAIN points[i].delta
                        \/ points[i].latency # NoLatency
                        \/ points[i].gauge}
           in(s) == {i \in usable : Truncate(points[i].at, Slot) = s}
           slots == GroupPublicMetrics(series)
<1>1. slots = [s \in {Truncate(points[i].at, Slot) : i \in usable} |->
                 [counts  |-> SumOf(points, in(s)),
                  latency |-> LatencyOf(points, in(s)),
                  errors  |-> SlotErrors(points, in(s))]]
  BY DEF GroupPublicMetrics
<1>2. \A s : in(s) \in SUBSET DOMAIN points
  OBVIOUS
<1> HIDE DEF in, usable, slots
<1>3. \A s \in DOMAIN slots : /\ slots[s].counts = SumOf(points, in(s))
                              /\ slots[s].latency = LatencyOf(points, in(s))
                              /\ slots[s].errors = SlotErrors(points, in(s))
  BY <1>1
<1> HIDE DEF points
<1>4. \A s \in DOMAIN slots : \A e \in slots[s].errors : e <= slots[s].counts["requests"]
  <2> SUFFICES ASSUME NEW s \in DOMAIN slots, NEW e \in SlotErrors(points, in(s))
               PROVE  e <= SumOf(points, in(s))["requests"]
    BY <1>3
  <2>1. AllSound(points)
    BY DEF points
  <2>2. in(s) \in SUBSET DOMAIN points
    BY <1>2
  <2> QED
    BY <2>1, <2>2, ErrorsBound
<1>5. \A s \in DOMAIN slots : slots[s].latency.time <= slots[s].latency.requests
  <2> SUFFICES ASSUME NEW s \in DOMAIN slots
               PROVE  LatencyOf(points, in(s)).time <= LatencyOf(points, in(s)).requests
    BY <1>3
  <2>1. AllSound(points)
    BY DEF points
  <2>2. in(s) \in SUBSET DOMAIN points
    BY <1>2
  <2> QED
    BY <2>1, <2>2, LatencyBound
<1> QED
  BY <1>4, <1>5 DEF ErrorsWithinRequests, LatencyIsOfItsRequests, slots

\* What an aggregated series is.
StartOf(points, start, bucket, i) == BucketStart(points[i], start, bucket)
StartsOf(points, start, bucket) == {StartOf(points, start, bucket, i) : i \in DOMAIN points}
InBucket(points, start, bucket, b) == {i \in DOMAIN points : StartOf(points, start, bucket, i) = b}
NthStart(starts, n) == CHOOSE b \in starts : Cardinality({c \in starts : c < b}) = n - 1

\* The two cases of AggregateSeries.
LEMMA AggregateIs ==
  ASSUME NEW series, NEW start, NEW bucket
  PROVE  LET points == series.points
             starts == StartsOf(points, start, bucket)
             in(b) == InBucket(points, start, bucket, b)
             chart == AggregateSeries(series, start, bucket)
         IN  /\ bucket = 0 \/ Cardinality(starts) = Len(points) => chart = points
             /\ ~(bucket = 0 \/ Cardinality(starts) = Len(points)) =>
                  /\ chart = [n \in 1..Cardinality(starts) |-> chart[n]]
                  /\ \A n \in 1..Cardinality(starts) :
                       /\ chart[n].at = NthStart(starts, n)
                       /\ chart[n].delta = SumOf(points, in(NthStart(starts, n)))
                       /\ chart[n].latency = LatencyOf(points, in(NthStart(starts, n)))
<1> DEFINE points == series.points
           starts == StartsOf(points, start, bucket)
           in(b) == InBucket(points, start, bucket, b)
           common(b) == {points[i].run : i \in in(b)}
           point(b) == [at      |-> b,
                        run     |-> IF Cardinality(common(b)) = 1
                                      THEN CHOOSE r \in common(b) : TRUE ELSE 0,
                        delta   |-> SumOf(points, in(b)),
                        latency |-> LatencyOf(points, in(b))]
           chart == AggregateSeries(series, start, bucket)
<1>1. chart = IF bucket = 0 \/ Cardinality(starts) = Len(points) THEN points
              ELSE [n \in 1..Cardinality(starts) |-> point(NthStart(starts, n))]
  BY Zenon DEF AggregateSeries, StartsOf, StartOf, InBucket, NthStart
<1>2. \A b : point(b).at = b /\ point(b).delta = SumOf(points, in(b))
               /\ point(b).latency = LatencyOf(points, in(b))
  OBVIOUS
<1> HIDE DEF points, starts, in, point, chart
<1>3. bucket = 0 \/ Cardinality(starts) = Len(points) => chart = points
  BY <1>1
<1>4. ASSUME ~(bucket = 0 \/ Cardinality(starts) = Len(points))
      PROVE  /\ chart = [n \in 1..Cardinality(starts) |-> chart[n]]
             /\ \A n \in 1..Cardinality(starts) :
                  /\ chart[n].at = NthStart(starts, n)
                  /\ chart[n].delta = SumOf(points, in(NthStart(starts, n)))
                  /\ chart[n].latency = LatencyOf(points, in(NthStart(starts, n)))
  <2>1. chart = [n \in 1..Cardinality(starts) |-> point(NthStart(starts, n))]
    BY <1>1, <1>4
  <2> QED
    BY <1>2, <2>1
<1> QED
  BY <1>3, <1>4 DEF points, starts, in, chart

\* Every bucket keeps the bound on latencies.
LEMMA ChartsMatch ==
  ASSUME NEW series, AllSound(series.points), NEW start, NEW bucket
  PROVE  LatencyIsOfItsRequests(AggregateSeries(series, start, bucket))
<1> DEFINE points == series.points
           starts == StartsOf(points, start, bucket)
           in(b) == InBucket(points, start, bucket, b)
           chart == AggregateSeries(series, start, bucket)
<1>1. CASE bucket = 0 \/ Cardinality(starts) = Len(points)
  <2>1. chart = points
    BY <1>1, AggregateIs
  <2>2. \A i \in DOMAIN points : points[i].latency.time <= points[i].latency.requests
    BY DEF AllSound, Sound
  <2> HIDE DEF chart, points
  <2> QED
    BY <2>1, <2>2 DEF LatencyIsOfItsRequests, chart
<1>2. CASE ~(bucket = 0 \/ Cardinality(starts) = Len(points))
  <2>1. /\ chart = [n \in 1..Cardinality(starts) |-> chart[n]]
        /\ \A n \in 1..Cardinality(starts) :
             chart[n].latency = LatencyOf(points, in(NthStart(starts, n)))
    BY <1>2, AggregateIs
  <2>2. \A b : in(b) \in SUBSET DOMAIN points
    BY DEF InBucket
  <2>3. \A b : LatencyOf(points, in(b)).time <= LatencyOf(points, in(b)).requests
    <3> SUFFICES ASSUME NEW b PROVE LatencyOf(points, in(b)).time <= LatencyOf(points, in(b)).requests
      OBVIOUS
    <3>1. in(b) \in SUBSET DOMAIN points /\ AllSound(points)
      BY <2>2
    <3> HIDE DEF in, points
    <3> QED
      BY <3>1, LatencyBound
  <2> HIDE DEF chart, points, in, starts
  <2>4. \A n \in DOMAIN chart : chart[n].latency.time <= chart[n].latency.requests
    BY <2>1, <2>3
  <2> QED
    BY <2>4 DEF LatencyIsOfItsRequests, chart
<1> QED
  BY <1>1, <1>2

\* Both in every window.
LEMMA RatiosMatchHolds ==
  ASSUME PollsOK, RunsGrow, now \in Nat, MaxTime \in Nat, cutoff \in Nat
  PROVE  RatiosMatch
<1> SUFFICES ASSUME ~masked, NEW w \in Windows
             PROVE  /\ ErrorsWithinRequests(GroupPublicMetrics(PublicSeries(w[1], w[2])))
                    /\ LatencyIsOfItsRequests(GroupPublicMetrics(PublicSeries(w[1], w[2])))
                    /\ \A b \in AllBuckets :
                         LatencyIsOfItsRequests(
                           AggregateSeries(ClampedSeries(w[1], w[2], b), ClampToRetention(w[1]), b))
  BY DEF RatiosMatch
<1>1. AllSound(PublicSeries(w[1], w[2]).points)
  BY PublicSound
<1>2. \A b \in AllBuckets : AllSound(ClampedSeries(w[1], w[2], b).points)
  BY ClampedSound
<1> QED
  BY <1>1, <1>2, SlotsMatch, ChartsMatch

-----------------------------------------------------------------------------
(* Sampling: adding a poll between two of a bucket changes no total.       *)

\* Later times are in later buckets.
LEMMA TruncateMonotone ==
  ASSUME NEW a \in Nat, NEW b \in Nat, NEW n \in Nat \ {0}, a <= b
  PROVE  Truncate(a, n) <= Truncate(b, n)
<1> DEFINE p == a \div n
           q == b \div n
<1>1. p \in Int /\ q \in Int
  OBVIOUS
<1>2. a % n \in 0..(n - 1) /\ b % n \in 0..(n - 1)
  OBVIOUS
<1>3. a = n * p + (a % n) /\ b = n * q + (b % n)
  OBVIOUS
<1> HIDE DEF p, q
<1>4. Truncate(a, n) = n * p /\ Truncate(b, n) = n * q
  <2> DEFINE r == a % n
             s == b % n
             c == n * p
             d == n * q
  <2>1. r \in Int /\ s \in Int /\ c \in Int /\ d \in Int
    BY <1>1, <1>2
  <2>2. a = c + r /\ b = d + s
    BY <1>3
  <2>3. Truncate(a, n) = a - r /\ Truncate(b, n) = b - s
    BY DEF Truncate
  <2> HIDE DEF r, s, c, d
  <2>4. Truncate(a, n) = c /\ Truncate(b, n) = d
    BY <2>1, <2>2, <2>3
  <2> QED
    BY <2>4 DEF c, d
<1>5. ASSUME q < p PROVE FALSE
  <2>1. q + 1 <= p
    BY <1>1, <1>5
  <2>2. n * (q + 1) <= n * p
    BY <1>1, <2>1
  <2>3. n * (q + 1) = n * q + n
    BY <1>1
  <2>4. n * p \in Int /\ n * q \in Int
    BY <1>1
  <2> QED
    BY <1>2, <1>3, <2>2, <2>3, <2>4
<1>6. n * p <= n * q
  BY <1>1, <1>5
<1> QED
  BY <1>4, <1>6

\* Of a set of polls, w is the last before x and y the first after it.
Adjacent(U, w, x, y) ==
  /\ w \in U /\ Earlier(w, x)
  /\ \A z \in U : Earlier(z, x) => z = w \/ Earlier(z, w)
  /\ y \in U /\ Earlier(x, y)
  /\ \A z \in U : Earlier(x, z) => z = y \/ Earlier(y, z)

\* What that makes of the newest polls before each other one.
Inserted(U, w, x, y) ==
  /\ Before(U, y) # {} /\ Newest(Before(U, y)) = w
  /\ Before(U \cup {x}, x) # {} /\ Newest(Before(U \cup {x}, x)) = w
  /\ Before(U \cup {x}, y) # {} /\ Newest(Before(U \cup {x}, y)) = x
  /\ \A z \in U \ {y} :
       /\ (Before(U \cup {x}, z) # {} <=> Before(U, z) # {})
       /\ (Before(U, z) # {} => Newest(Before(U \cup {x}, z)) = Newest(Before(U, z)))

\* A poll inserted between two neighbours.
LEMMA InsertBetween ==
  ASSUME PollsOK
  PROVE  \A U \in SUBSET DOMAIN polls : \A x \in DOMAIN polls : \A w, y \in U :
           x \notin U /\ Adjacent(U, w, x, y) => Inserted(U, w, x, y)
<1> SUFFICES ASSUME NEW U \in SUBSET DOMAIN polls, NEW x \in DOMAIN polls, NEW w \in U, NEW y \in U,
                    x \notin U, Adjacent(U, w, x, y)
             PROVE  Inserted(U, w, x, y)
  OBVIOUS
<1>0. /\ w \in U /\ Earlier(w, x) /\ y \in U /\ Earlier(x, y)
      /\ \A z \in U : Earlier(z, x) => z = w \/ Earlier(z, w)
      /\ \A z \in U : Earlier(x, z) => z = y \/ Earlier(y, z)
  BY DEF Adjacent
<1>1. \A z \in U : z # x
  OBVIOUS
<1>2. \A S, z : Before(S, z) \subseteq S
  BY DEF Before
<1>3. w \in Before(U, y) /\ \A z \in Before(U, y) : z # w => Earlier(z, w)
  <2>1. Earlier(w, y)
    BY <1>0, EarlierOrder
  <2>2. ASSUME NEW z \in Before(U, y), z # w PROVE Earlier(z, w)
    <3>1. z \in U /\ Earlier(z, y) /\ z # x
      BY <1>0 DEF Before
    <3>2. ~Earlier(x, z)
      BY <1>0, <3>1, EarlierOrder
    <3>3. Earlier(z, x)
      BY <1>0, <3>1, <3>2, EarlierOrder
    <3> QED
      BY <1>0, <2>2, <3>1, <3>3
  <2> QED
    BY <1>0, <2>1, <2>2 DEF Before
<1>4. Newest(Before(U, y)) = w
  <2>1. Before(U, y) \subseteq DOMAIN polls
    BY <1>2
  <2> QED
    BY <1>3, <2>1, NewestIs
<1>5. w \in Before(U \cup {x}, x) /\ \A z \in Before(U \cup {x}, x) : z # w => Earlier(z, w)
  BY <1>0, EarlierOrder DEF Before
<1>6. Newest(Before(U \cup {x}, x)) = w
  <2>1. Before(U \cup {x}, x) \subseteq DOMAIN polls
    BY <1>2
  <2> QED
    BY <1>5, <2>1, NewestIs
<1>7. x \in Before(U \cup {x}, y) /\ \A z \in Before(U \cup {x}, y) : z # x => Earlier(z, x)
  BY <1>0, EarlierOrder DEF Before
<1>8. Newest(Before(U \cup {x}, y)) = x
  <2>1. Before(U \cup {x}, y) \subseteq DOMAIN polls
    BY <1>2
  <2> QED
    BY <1>7, <2>1, NewestIs
<1>9. ASSUME NEW z \in U \ {y}
      PROVE  /\ (Before(U \cup {x}, z) # {} <=> Before(U, z) # {})
             /\ (Before(U, z) # {} => Newest(Before(U \cup {x}, z)) = Newest(Before(U, z)))
  <2>1. CASE Earlier(x, z)
    <3>1. y \in Before(U, z) /\ Before(U \cup {x}, z) = Before(U, z) \cup {x}
      BY <1>0, <2>1 DEF Before
    <3>2. PICK m : m = Newest(Before(U, z))
      OBVIOUS
    <3>3. Before(U, z) \subseteq DOMAIN polls /\ Before(U, z) # {}
      BY <1>2, <3>1
    <3>4. m \in Before(U, z) /\ \A q \in Before(U, z) : q # m => Earlier(q, m)
      BY <3>2, <3>3, NewestIn
    <3>5. Earlier(x, m)
      BY <1>0, <3>1, <3>3, <3>4, EarlierOrder
    <3>6. Newest(Before(U \cup {x}, z)) = m
      BY <3>1, <3>3, <3>4, <3>5, NewestIs
    <3> QED
      BY <3>1, <3>2, <3>6
  <2>2. CASE ~Earlier(x, z)
    <3>1. Before(U \cup {x}, z) = Before(U, z)
      BY <2>2 DEF Before
    <3> QED
      BY <3>1
  <2> QED
    BY <2>1, <2>2
<1> QED
  BY <1>3, <1>4, <1>5, <1>6, <1>7, <1>8, <1>9 DEF Inserted

\* What complete polls are counted from.
LEMMA KnownIsBefore ==
  ASSUME PollsOK, Complete, NEW H \in SUBSET DOMAIN polls, NEW p, NEW k \in Counters
  PROVE  Known(H, p, k) = Before(Sampled(H), p)
BY DEF Known, Before, Sampled, Complete, CountersOf

\* Their deltas: all counters, or none at the start of a run.
LEMMA DeltaOf ==
  ASSUME PollsOK, Complete, RunsGrow, ~masked, NEW H \in SUBSET DOMAIN polls,
         NEW p \in DOMAIN polls, DOMAIN polls[p].samples # {}
  PROVE  LET delta == SeriesPoint(p, Baselines(H, p)).delta
             q == Newest(Before(Sampled(H), p))
             counted == Before(Sampled(H), p) # {} /\ polls[q].run = polls[p].run
         IN  /\ DOMAIN delta = IF counted THEN Counters ELSE {}
             /\ counted => \A k \in Counters :
                  /\ delta[k] = polls[p].samples[k] - polls[q].samples[k]
                  /\ delta[k] \in Nat /\ polls[p].samples[k] \in Nat /\ polls[q].samples[k] \in Nat
<1> DEFINE B == Before(Sampled(H), p)
           q == Newest(B)
           counted == B # {} /\ polls[q].run = polls[p].run
           previous == Baselines(H, p)
           delta == CounterDeltas(p, previous)
<1>0. SeriesPoint(p, Baselines(H, p)).delta = delta
  BY PointIs
<1>1. \A k \in Counters : Known(H, p, k) = B
  BY KnownIsBefore
<1>2. CountersOf(p) = Counters
  BY DEF Complete, CountersOf
<1>3. /\ DOMAIN previous = IF B # {} THEN Counters ELSE {}
      /\ B # {} => \A k \in Counters : previous[k].run = polls[q].run
                                         /\ previous[k].value = polls[q].samples[k]
  <2> HIDE DEF B, q
  <2>1. DOMAIN previous = {c \in Counters : Known(H, p, c) # {}}
    BY DEF Baselines
  <2>2. \A k \in DOMAIN previous : previous[k] = Baseline(Newest(Known(H, p, k)), k)
    BY DEF Baselines
  <2> HIDE DEF previous
  <2>3. DOMAIN previous = IF B # {} THEN Counters ELSE {}
    BY <1>1, <2>1
  <2>4. ASSUME B # {}, NEW k \in Counters
        PROVE  previous[k].run = polls[q].run /\ previous[k].value = polls[q].samples[k]
    <3>1. previous[k] = Baseline(q, k)
      BY <1>1, <2>2, <2>3, <2>4 DEF q
    <3> QED
      BY <3>1 DEF Baseline
  <2> QED
    BY <2>3, <2>4
<1>4. ASSUME counted, NEW k \in Counters
      PROVE  /\ polls[q].samples[k] <= polls[p].samples[k]
             /\ polls[p].samples[k] \in Nat /\ polls[q].samples[k] \in Nat
  <2>1. B \subseteq DOMAIN polls
    BY DEF Before, Sampled
  <2>2. q \in B
    BY <1>4, <2>1, NewestIn
  <2>3. q \in DOMAIN polls /\ Earlier(q, p) /\ DOMAIN polls[q].samples # {}
    BY <2>2 DEF Before, Sampled
  <2> HIDE DEF q
  <2>4. CountersOf(q) = Counters
    BY <2>3 DEF Complete, CountersOf
  <2>5. Outgrows(q, polls[p].samples, CountersOf(q) \cap CountersOf(p))
    BY <1>4, <2>3 DEF RunsGrow
  <2>6. polls[q].samples[k] <= polls[p].samples[k]
    BY <1>2, <2>4, <2>5 DEF Outgrows
  <2> QED
    BY <1>2, <2>3, <2>4, <2>6 DEF PollsOK
<1> HIDE DEF q, B, previous
<1>5. DOMAIN delta = {k \in CountersOf(p) \cap DOMAIN previous :
                        previous[k].run = polls[p].run /\ previous[k].value <= polls[p].samples[k]}
  BY DEF CounterDeltas
<1>6. \A k \in DOMAIN delta : delta[k] = polls[p].samples[k] - previous[k].value
  BY DEF CounterDeltas
<1> HIDE DEF delta
<1>7. DOMAIN delta = IF counted THEN Counters ELSE {}
  <2>1. CASE counted
    BY <1>2, <1>3, <1>4, <1>5, <2>1
  <2>2. CASE ~counted
    BY <1>2, <1>3, <1>5, <2>2
  <2> QED
    BY <2>1, <2>2
<1>8. ASSUME counted, NEW k \in Counters
      PROVE  /\ delta[k] = polls[p].samples[k] - polls[q].samples[k]
             /\ delta[k] \in Nat /\ polls[p].samples[k] \in Nat /\ polls[q].samples[k] \in Nat
  BY <1>3, <1>4, <1>6, <1>7, <1>8
<1> QED
  BY <1>0, <1>7, <1>8 DEF q, B

\* The bucket a poll is shown in, and its group of a bucket and run.
PollStart(p, start, bucket) ==
  IF Truncate(polls[p].at, bucket) < start THEN start ELSE Truncate(polls[p].at, bucket)

Group(start, end, bucket, p) ==
  {q \in Window(start, end) : /\ polls[q].run = polls[p].run
                              /\ Truncate(polls[q].at, bucket) = Truncate(polls[p].at, bucket)}

HasEnds(T, start, end, bucket) ==
  \A x \in Sampled(Window(start, end)) :
    First(Group(start, end, bucket, x)) \in T /\ Newest(Group(start, end, bucket, x)) \in T

DeltaIn(H, p) == SeriesPoint(p, Baselines(H, p)).delta

History(T, start) == T \cup Sampled(Old(start, 0))

\* Between two ends of a group every poll has a neighbour in it on either side.
LEMMA Neighbours ==
  ASSUME PollsOK, RunsInOrder, NEW start \in Nat, NEW end \in Nat, NEW bucket \in Nat \ {0},
         NEW T \in SUBSET Sampled(Window(start, end)), HasEnds(T, start, end, bucket),
         NEW x \in Sampled(Window(start, end)), x \notin T
  PROVE  LET U == History(T, start)
         IN  /\ U \in SUBSET DOMAIN polls /\ x \in DOMAIN polls /\ x \notin U
             /\ \A z \in U : DOMAIN polls[z].samples # {}
             /\ \E y \in U, w \in U :
                  /\ y \in T /\ Truncate(polls[y].at, bucket) = Truncate(polls[x].at, bucket)
                  /\ polls[y].run = polls[x].run /\ polls[w].run = polls[x].run
                  /\ Adjacent(U, w, x, y)
<1> DEFINE W == Window(start, end)
           O == Sampled(Old(start, 0))
           U == T \cup O
           G == Group(start, end, bucket, x)
           Y == {z \in U : Earlier(x, z)}
           V == {z \in U : Earlier(z, x)}
<1>1. /\ U \in SUBSET DOMAIN polls /\ x \in DOMAIN polls /\ x \in W
      /\ \A z \in U : DOMAIN polls[z].samples # {}
      /\ DOMAIN polls[x].samples # {}
  BY DEF Sampled, Window, Old
<1>2. \A z \in O : Earlier(z, x) /\ z # x
  <2>1. \A z \in O : z \in DOMAIN polls /\ polls[z].at < start
    BY DEF Sampled, Old
  <2>2. start <= polls[x].at
    BY <1>1 DEF Window
  <2> HIDE DEF O
  <2> QED
    BY <1>1, <2>1, <2>2 DEF PollsOK, Earlier
<1>3. x \notin U
  BY <1>2
<1>4. G \subseteq DOMAIN polls /\ x \in G
  BY <1>1 DEF Group, Window
<1>5. PICK f \in T : f \in G /\ f # x /\ Earlier(f, x)
  <2>1. First(G) \in T
    BY DEF HasEnds
  <2> HIDE DEF G
  <2> QED
    BY <1>4, <2>1, FirstIn
<1>6. PICK l \in T : l \in G /\ l # x /\ Earlier(x, l)
  <2>1. Newest(G) \in T
    BY DEF HasEnds
  <2> HIDE DEF G
  <2> QED
    BY <1>4, <2>1, NewestIn
<1>7. /\ polls[f].run = polls[x].run /\ polls[l].run = polls[x].run
      /\ Truncate(polls[l].at, bucket) = Truncate(polls[x].at, bucket)
  BY <1>5, <1>6 DEF Group
<1>8. PICK y \in Y : \A z \in Y : z # y => Earlier(y, z)
  <2>1. Y \subseteq DOMAIN polls /\ l \in Y
    BY <1>1, <1>6
  <2> HIDE DEF Y
  <2> QED
    BY <2>1, FirstIn
<1>9. PICK w \in V : \A z \in V : z # w => Earlier(z, w)
  <2>1. V \subseteq DOMAIN polls /\ f \in V
    BY <1>1, <1>5
  <2> HIDE DEF V
  <2> QED
    BY <2>1, NewestIn
<1>10. y \in T
  <2>1. y \notin O
    BY <1>1, <1>2, <1>8, EarlierOrder
  <2> HIDE DEF O
  <2> QED
    BY <1>8, <2>1
<1>11. /\ y = l \/ Earlier(y, l)
       /\ w = f \/ Earlier(f, w)
  BY <1>5, <1>6, <1>8, <1>9
<1> HIDE DEF U, Y, V, G, O, W
<1>12. /\ y \in U /\ w \in U /\ f \in U /\ l \in U
       /\ Earlier(x, y) /\ Earlier(w, x)
  BY <1>5, <1>6, <1>8, <1>9 DEF U, Y, V
<1>13. /\ y \in DOMAIN polls /\ w \in DOMAIN polls /\ f \in DOMAIN polls /\ l \in DOMAIN polls
       /\ polls[y].run # 0 /\ polls[w].run # 0 /\ polls[f].run # 0 /\ polls[l].run # 0
       /\ polls[x].run # 0
  BY <1>1, <1>12 DEF PollsOK
<1>14. polls[y].run = polls[x].run /\ polls[w].run = polls[x].run
  <2>1. /\ polls[x].run <= polls[y].run /\ polls[y].run <= polls[l].run
        /\ polls[f].run <= polls[w].run /\ polls[w].run <= polls[x].run
    <3>1. polls[y].run \in Nat /\ polls[w].run \in Nat
      BY <1>13 DEF PollsOK
    <3> QED
      BY <1>1, <1>11, <1>12, <1>13, <3>1 DEF RunsInOrder
  <2>2. /\ polls[y].run \in Nat /\ polls[w].run \in Nat /\ polls[x].run \in Nat
    BY <1>1, <1>13 DEF PollsOK
  <2> QED
    BY <1>7, <2>1, <2>2
<1>15. Truncate(polls[y].at, bucket) = Truncate(polls[x].at, bucket)
  <2>1. polls[y].at \in Nat /\ polls[x].at \in Nat /\ polls[l].at \in Nat
    BY <1>1, <1>13 DEF PollsOK
  <2>2. polls[x].at <= polls[y].at /\ polls[y].at <= polls[l].at
    BY <1>11, <1>12, <2>1 DEF Earlier
  <2>3. /\ Truncate(polls[x].at, bucket) <= Truncate(polls[y].at, bucket)
        /\ Truncate(polls[y].at, bucket) <= Truncate(polls[l].at, bucket)
    BY <2>1, <2>2, TruncateMonotone
  <2>4. Truncate(polls[x].at, bucket) \in Int /\ Truncate(polls[y].at, bucket) \in Int
    BY <2>1 DEF Truncate
  <2> QED
    BY <1>7, <2>3, <2>4
<1>16. \A z \in U : Earlier(x, z) => z = y \/ Earlier(y, z)
  BY <1>8 DEF Y
<1>17. \A z \in U : Earlier(z, x) => z = w \/ Earlier(z, w)
  BY <1>9 DEF V
<1>18. Adjacent(U, w, x, y)
  BY <1>12, <1>16, <1>17 DEF Adjacent
<1> QED
  BY <1>1, <1>3, <1>10, <1>12, <1>14, <1>15, <1>18 DEF U, O, History

\* The same for a known predecessor.
LEMMA DeltaCounted ==
  ASSUME PollsOK, Complete, RunsGrow, ~masked, NEW H \in SUBSET DOMAIN polls,
         NEW p \in DOMAIN polls, DOMAIN polls[p].samples # {},
         NEW U, U = Sampled(H), NEW q, Before(U, p) # {}, Newest(Before(U, p)) = q,
         polls[q].run = polls[p].run
  PROVE  /\ DOMAIN DeltaIn(H, p) = Counters
         /\ \A k \in Counters :
              /\ DeltaIn(H, p)[k] = polls[p].samples[k] - polls[q].samples[k]
              /\ DeltaIn(H, p)[k] \in Nat /\ polls[p].samples[k] \in Nat /\ polls[q].samples[k] \in Nat
BY DeltaOf DEF DeltaIn

\* The inserted poll x splits the delta of its next neighbour y in two.
Splits(T, start, bucket, x, y) ==
  LET H == T \cup Old(start, 0)
      I == (T \cup {x}) \cup Old(start, 0)
  IN  /\ PollStart(y, start, bucket) = PollStart(x, start, bucket)
      /\ DOMAIN DeltaIn(H, y) = Counters
      /\ DOMAIN DeltaIn(I, y) = Counters /\ DOMAIN DeltaIn(I, x) = Counters
      /\ \A k \in Counters : /\ DeltaIn(I, x)[k] \in Nat /\ DeltaIn(I, y)[k] \in Nat
                             /\ DeltaIn(H, y)[k] = DeltaIn(I, x)[k] + DeltaIn(I, y)[k]
      /\ \A z \in T \ {y} : DeltaIn(I, z) = DeltaIn(H, z)

LEMMA DeltaSplits ==
  ASSUME PollsOK, Complete, RunsInOrder, RunsGrow, ~masked,
         NEW start \in Nat, NEW end \in Nat, NEW bucket \in Nat \ {0},
         NEW T \in SUBSET Sampled(Window(start, end)), HasEnds(T, start, end, bucket),
         NEW x \in Sampled(Window(start, end)), x \notin T
  PROVE  \E y \in T : Splits(T, start, bucket, x, y)
<1> DEFINE O == Old(start, 0)
           H == T \cup O
           I == (T \cup {x}) \cup O
           U == History(T, start)
<1>1. /\ U \in SUBSET DOMAIN polls /\ x \in DOMAIN polls /\ x \notin U
      /\ \A z \in U : DOMAIN polls[z].samples # {}
      /\ DOMAIN polls[x].samples # {}
  <2>1. DOMAIN polls[x].samples # {}
    BY DEF Sampled
  <2> QED
    BY <2>1, Neighbours
<1>2. PICK y \in U, w \in U :
        /\ y \in T /\ Truncate(polls[y].at, bucket) = Truncate(polls[x].at, bucket)
        /\ polls[y].run = polls[x].run /\ polls[w].run = polls[x].run
        /\ Adjacent(U, w, x, y)
  BY Neighbours
<1>3. /\ H \in SUBSET DOMAIN polls /\ I \in SUBSET DOMAIN polls
      /\ Sampled(H) = U /\ Sampled(I) = U \cup {x}
  BY <1>1 DEF Sampled, Window, Old, History
<1> HIDE DEF U, H, I
<1>4. /\ Before(U, y) # {} /\ Newest(Before(U, y)) = w
      /\ Before(U \cup {x}, x) # {} /\ Newest(Before(U \cup {x}, x)) = w
      /\ Before(U \cup {x}, y) # {} /\ Newest(Before(U \cup {x}, y)) = x
      /\ \A z \in U \ {y} :
           /\ (Before(U \cup {x}, z) # {} <=> Before(U, z) # {})
           /\ (Before(U, z) # {} => Newest(Before(U \cup {x}, z)) = Newest(Before(U, z)))
  <2>1. Inserted(U, w, x, y)
    <3>1. U \in SUBSET DOMAIN polls /\ x \in DOMAIN polls /\ x \notin U /\ Adjacent(U, w, x, y)
      BY <1>1, <1>2
    <3>2. w \in U /\ y \in U
      BY <1>2
    <3> QED
      BY <3>1, <3>2, InsertBetween
  <2> QED
    BY <2>1 DEF Inserted
<1>5. y \in DOMAIN polls /\ DOMAIN polls[y].samples # {}
  BY <1>1, <1>2
<1>6. /\ DOMAIN DeltaIn(H, y) = Counters
      /\ \A k \in Counters : /\ DeltaIn(H, y)[k] = polls[y].samples[k] - polls[w].samples[k]
                             /\ polls[y].samples[k] \in Nat /\ polls[w].samples[k] \in Nat
  BY <1>2, <1>3, <1>4, <1>5, DeltaCounted
<1>7. /\ DOMAIN DeltaIn(I, y) = Counters
      /\ \A k \in Counters : /\ DeltaIn(I, y)[k] = polls[y].samples[k] - polls[x].samples[k]
                             /\ DeltaIn(I, y)[k] \in Nat /\ polls[x].samples[k] \in Nat
  <2>1. PICK V : V = Sampled(I) /\ Before(V, y) # {} /\ Newest(Before(V, y)) = x
    BY <1>3, <1>4
  <2>2. polls[x].run = polls[y].run
    BY <1>2
  <2> QED
    <3>1. I \in SUBSET DOMAIN polls /\ y \in DOMAIN polls /\ DOMAIN polls[y].samples # {}
      BY <1>3, <1>5
    <3>2. DOMAIN DeltaIn(I, y) = Counters
      BY <3>1, <2>1, <2>2, DeltaCounted
    <3>3. \A k \in Counters : DeltaIn(I, y)[k] = polls[y].samples[k] - polls[x].samples[k]
      BY <3>1, <2>1, <2>2, DeltaCounted
    <3>4. \A k \in Counters : DeltaIn(I, y)[k] \in Nat /\ polls[x].samples[k] \in Nat
      BY <3>1, <2>1, <2>2, DeltaCounted
    <3> QED
      BY <3>2, <3>3, <3>4
<1>8. /\ DOMAIN DeltaIn(I, x) = Counters
      /\ \A k \in Counters : /\ DeltaIn(I, x)[k] = polls[x].samples[k] - polls[w].samples[k]
                             /\ DeltaIn(I, x)[k] \in Nat
  <2>1. PICK V : V = Sampled(I) /\ Before(V, x) # {} /\ Newest(Before(V, x)) = w
    BY <1>3, <1>4
  <2>2. polls[w].run = polls[x].run
    BY <1>2
  <2> QED
    BY <1>1, <1>3, <2>1, <2>2, DeltaCounted
<1>9. ASSUME NEW z \in T \ {y} PROVE DeltaIn(I, z) = DeltaIn(H, z)
  <2>1. z \in U \ {y}
    BY DEF U, History
  <2>2. \A k \in Counters : Known(H, z, k) = Before(U, z) /\ Known(I, z, k) = Before(U \cup {x}, z)
    BY <1>3, KnownIsBefore
  <2>3. {c \in Counters : Known(I, z, c) # {}} = {c \in Counters : Known(H, z, c) # {}}
    BY <1>4, <2>1, <2>2
  <2>4. \A k \in {c \in Counters : Known(H, z, c) # {}} : Newest(Known(I, z, k)) = Newest(Known(H, z, k))
    BY <1>4, <2>1, <2>2
  <2>5. Baselines(I, z) = Baselines(H, z)
    BY <2>3, <2>4 DEF Baselines
  <2> QED
    BY <2>5 DEF DeltaIn
<1>10. PollStart(y, start, bucket) = PollStart(x, start, bucket)
  BY <1>2 DEF PollStart
<1>11. \A k \in Counters : DeltaIn(H, y)[k] = DeltaIn(I, x)[k] + DeltaIn(I, y)[k]
  BY <1>6, <1>7, <1>8
<1> QED
  BY <1>2, <1>6, <1>7, <1>8, <1>9, <1>10, <1>11 DEF H, I, O, Splits

\* A sum one of whose terms is split in two.
LEMMA SumSplits ==
  ASSUME NEW C, IsFiniteSet(C), NEW f, NEW g, NEW y \in C, NEW x, x \notin C,
         \A z \in C : f[z] \in Nat, \A z \in C \ {y} : g[z] = f[z],
         g[x] \in Nat, g[y] \in Nat, f[y] = g[x] + g[y]
  PROVE  SumFunctionOnSet(f, C) = SumFunctionOnSet(g, C \cup {x})
<1> DEFINE R == C \ {y}
<1>1. IsFiniteSet(R)
  BY FS_Subset
<1>2. \A z \in C : g[z] \in Nat
  OBVIOUS
<1>3. SumFunctionOnSet(g, C \cup {x}) = g[x] + SumFunctionOnSet(g, C)
  BY <1>2, SumAdd
<1>4. SumFunctionOnSet(g, C) = g[y] + SumFunctionOnSet(g, R)
  BY <1>2, SumRemove
<1>5. SumFunctionOnSet(f, C) = f[y] + SumFunctionOnSet(f, R)
  BY SumRemove
<1>6. SumFunctionOnSet(f, R) = SumFunctionOnSet(g, R)
  BY <1>1, SumSame
<1>7. SumFunctionOnSet(f, R) \in Nat
  BY <1>1, SumType
<1> QED
  BY <1>3, <1>4, <1>5, <1>6, <1>7

\* The polls of a bucket with a delta of the counter, and their total.
CountedIn(T, start, bucket, b, k) ==
  {p \in T : PollStart(p, start, bucket) = b /\ k \in DOMAIN DeltaIn(T \cup Old(start, 0), p)}

TotalIn(T, start, bucket, b, k) ==
  SumFunctionOnSet([p \in CountedIn(T, start, bucket, b, k) |-> DeltaIn(T \cup Old(start, 0), p)[k]],
                   CountedIn(T, start, bucket, b, k))

\* What is counted is finite.
LEMMA CountedType ==
  ASSUME PollsOK, Complete, RunsGrow, ~masked, NEW start \in Nat, NEW end \in Nat, NEW bucket, NEW b,
         NEW T \in SUBSET Sampled(Window(start, end)), NEW k \in Counters
  PROVE  /\ IsFiniteSet(CountedIn(T, start, bucket, b, k))
         /\ \A p \in CountedIn(T, start, bucket, b, k) : DeltaIn(T \cup Old(start, 0), p)[k] \in Nat
<1> DEFINE H == T \cup Old(start, 0)
<1>1. H \in SUBSET DOMAIN polls
  BY DEF Sampled, Window, Old
<1>2. \A p \in T : p \in DOMAIN polls /\ DOMAIN polls[p].samples # {}
  BY DEF Sampled, Window
<1>3. IsFiniteSet(CountedIn(T, start, bucket, b, k))
  <2>1. CountedIn(T, start, bucket, b, k) \subseteq DOMAIN polls
    BY <1>2 DEF CountedIn
  <2> QED
    BY <2>1, FS_Subset DEF PollsOK
<1>4. ASSUME NEW p \in CountedIn(T, start, bucket, b, k) PROVE DeltaIn(H, p)[k] \in Nat
  <2>1. p \in T /\ k \in DOMAIN DeltaIn(H, p)
    BY DEF CountedIn
  <2>2. p \in DOMAIN polls /\ DOMAIN polls[p].samples # {}
    BY <1>2, <2>1
  <2> HIDE DEF H
  <2> DEFINE q == Newest(Before(Sampled(H), p))
             counted == Before(Sampled(H), p) # {} /\ polls[q].run = polls[p].run
  <2>3. /\ DOMAIN DeltaIn(H, p) = IF counted THEN Counters ELSE {}
        /\ counted => \A c \in Counters : DeltaIn(H, p)[c] \in Nat
    BY <1>1, <2>2, DeltaOf DEF DeltaIn
  <2> QED
    BY <2>1, <2>3
<1> QED
  BY <1>3, <1>4

SameTotals(U, V, start, bucket, b, k) ==
  /\ (CountedIn(U, start, bucket, b, k) = {} <=> CountedIn(V, start, bucket, b, k) = {})
  /\ TotalIn(U, start, bucket, b, k) = TotalIn(V, start, bucket, b, k)

\* A poll added inside its group keeps every total.
LEMMA InsertKeepsTotal ==
  ASSUME PollsOK, Complete, RunsInOrder, RunsGrow, ~masked,
         NEW start \in Nat, NEW end \in Nat, NEW bucket \in Nat \ {0},
         NEW T \in SUBSET Sampled(Window(start, end)), HasEnds(T, start, end, bucket),
         NEW x \in Sampled(Window(start, end)), x \notin T, NEW b, NEW k \in Counters
  PROVE  SameTotals(T \cup {x}, T, start, bucket, b, k)
<1> DEFINE H == T \cup Old(start, 0)
           I == (T \cup {x}) \cup Old(start, 0)
           C == CountedIn(T, start, bucket, b, k)
           D == CountedIn(T \cup {x}, start, bucket, b, k)
           f == [p \in C |-> DeltaIn(H, p)[k]]
           g == [p \in D |-> DeltaIn(I, p)[k]]
<1>1. PICK y \in T :
        /\ PollStart(y, start, bucket) = PollStart(x, start, bucket)
        /\ DOMAIN DeltaIn(H, y) = Counters
        /\ DOMAIN DeltaIn(I, y) = Counters /\ DOMAIN DeltaIn(I, x) = Counters
        /\ \A c \in Counters : /\ DeltaIn(I, x)[c] \in Nat /\ DeltaIn(I, y)[c] \in Nat
                               /\ DeltaIn(H, y)[c] = DeltaIn(I, x)[c] + DeltaIn(I, y)[c]
        /\ \A z \in T \ {y} : DeltaIn(I, z) = DeltaIn(H, z)
  <2>1. PICK y \in T : Splits(T, start, bucket, x, y)
    BY DeltaSplits
  <2> QED
    BY <2>1 DEF Splits
<1>2. IsFiniteSet(C) /\ \A p \in C : DeltaIn(H, p)[k] \in Nat
  BY CountedType
<1>3. /\ C = {p \in T : PollStart(p, start, bucket) = b /\ k \in DOMAIN DeltaIn(H, p)}
      /\ D = {p \in T \cup {x} : PollStart(p, start, bucket) = b /\ k \in DOMAIN DeltaIn(I, p)}
  BY DEF CountedIn
<1>4. TotalIn(T, start, bucket, b, k) = SumFunctionOnSet(f, C)
      /\ TotalIn(T \cup {x}, start, bucket, b, k) = SumFunctionOnSet(g, D)
  BY DEF TotalIn
<1>5. /\ DOMAIN f = C /\ \A p \in C : f[p] = DeltaIn(H, p)[k]
      /\ DOMAIN g = D /\ \A p \in D : g[p] = DeltaIn(I, p)[k]
  OBVIOUS
<1> HIDE DEF H, I, C, D, f, g
<1>6. CASE PollStart(x, start, bucket) = b
  <2>1. y \in C /\ x \notin C /\ D = C \cup {x}
    BY <1>1, <1>3, <1>6
  <2>2. SumFunctionOnSet(f, C) = SumFunctionOnSet(g, C \cup {x})
    <3>1. \A z \in C : f[z] \in Nat
      BY <1>2, <1>5
    <3>2. \A z \in C \ {y} : g[z] = f[z]
      BY <1>1, <1>3, <1>5, <2>1
    <3>3. g[x] \in Nat /\ g[y] \in Nat /\ f[y] = g[x] + g[y]
      BY <1>1, <1>5, <2>1
    <3> QED
      BY <1>2, <2>1, <3>1, <3>2, <3>3, SumSplits
  <2> QED
    BY <1>4, <2>1, <2>2 DEF C, D, SameTotals
<1>7. CASE PollStart(x, start, bucket) # b
  <2>1. D = C /\ \A z \in C : z \in T \ {y}
    BY <1>1, <1>3, <1>7
  <2>2. \A z \in C : f[z] \in Nat /\ f[z] = g[z]
    BY <1>1, <1>2, <1>5, <2>1
  <2>3. SumFunctionOnSet(f, C) = SumFunctionOnSet(g, C)
    BY <1>2, <2>2, SumSame
  <2> QED
    BY <1>4, <2>1, <2>3 DEF C, D, SameTotals
<1> QED
  BY <1>6, <1>7

\* The sampled polls with a sample hold both ends of every group that has one.
Ends(start, end, bucket) == Sampled(DashboardPollIDs(start, end, bucket))

LEMMA EndsAre ==
  ASSUME PollsOK, NEW start \in Nat, NEW end \in Nat, NEW bucket
  PROVE  /\ Ends(start, end, bucket) \in SUBSET Sampled(Window(start, end))
         /\ HasEnds(Ends(start, end, bucket), start, end, bucket)
<1> DEFINE W == Window(start, end)
           ids == DashboardPollIDs(start, end, bucket)
           G(p) == Group(start, end, bucket, p)
<1>1. ids = {p \in W : p \in {First(G(p)), Newest(G(p))}}
  BY Zenon DEF DashboardPollIDs, Group
<1>2. Ends(start, end, bucket) \in SUBSET Sampled(W)
  BY <1>1 DEF Ends, Sampled
<1>3. ASSUME NEW x \in Sampled(W)
      PROVE  First(G(x)) \in Ends(start, end, bucket) /\ Newest(G(x)) \in Ends(start, end, bucket)
  <2>1. x \in W /\ x \in DOMAIN polls /\ polls[x].run # 0
    BY DEF Sampled, Window, PollsOK
  <2>2. G(x) \subseteq W /\ G(x) \subseteq DOMAIN polls /\ x \in G(x)
    BY <2>1 DEF Group, Window
  <2>3. \A p \in G(x) : G(p) = G(x) /\ polls[p].run = polls[x].run
    BY DEF Group
  <2>4. \A p \in G(x) : DOMAIN polls[p].samples # {}
    BY <2>1, <2>2, <2>3 DEF PollsOK
  <2> HIDE DEF G, W
  <2>5. First(G(x)) \in G(x) /\ Newest(G(x)) \in G(x)
    BY <2>2, FirstIn, NewestIn
  <2>6. \A p \in G(x) : p \in {First(G(x)), Newest(G(x))} => p \in ids
    BY <1>1, <2>2, <2>3
  <2> QED
    BY <2>4, <2>5, <2>6 DEF Ends, Sampled
<1> QED
  BY <1>2, <1>3 DEF HasEnds

\* By induction over the polls left out, none of them matters.
LEMMA EndsKeepTotals ==
  ASSUME PollsOK, Complete, RunsInOrder, RunsGrow, ~masked,
         NEW start \in Nat, NEW end \in Nat, NEW bucket \in Nat \ {0}, NEW b, NEW k \in Counters
  PROVE  SameTotals(Sampled(Window(start, end)), Ends(start, end, bucket), start, bucket, b, k)
<1> DEFINE T == Ends(start, end, bucket)
           S == Sampled(Window(start, end))
           Same(U) == SameTotals(U, T, start, bucket, b, k)
           R == S \ T
           N == {r \in SUBSET R : Same(T \cup r)}
<1>1. T \in SUBSET S /\ HasEnds(T, start, end, bucket)
  BY EndsAre
<1>2. IsFiniteSet(R)
  BY FS_Subset DEF PollsOK, Sampled, Window
<1>3. {} \in N
  <2>1. T \cup {} = T
    OBVIOUS
  <2> HIDE DEF T
  <2> QED
    BY <2>1 DEF SameTotals
<1>4. ASSUME NEW r \in SUBSET R, r \in N, NEW x \in R \ r PROVE r \cup {x} \in N
  <2> DEFINE U == T \cup r
  <2>1. U \in SUBSET S /\ x \in S /\ x \notin U /\ T \cup (r \cup {x}) = U \cup {x}
    BY <1>1
  <2>2. HasEnds(U, start, end, bucket)
    BY <1>1 DEF HasEnds
  <2>3. Same(U)
    BY <1>4
  <2> HIDE DEF U, T
  <2>4. SameTotals(U \cup {x}, U, start, bucket, b, k)
    BY <2>1, <2>2, InsertKeepsTotal
  <2>5. Same(U \cup {x})
    BY <2>3, <2>4 DEF SameTotals
  <2> QED
    BY <2>1, <2>5 DEF T
<1>5. R \in N
  <2>1. \A r \in SUBSET R : r \in N => \A x \in R \ r : r \cup {x} \in N
    BY <1>4
  <2> HIDE DEF N, R
  <2> QED
    BY <1>2, <1>3, <2>1, SubsetInduction
<1>6. Same(T \cup R) /\ T \cup R = S
  BY <1>1, <1>5
<1> QED
  BY <1>6

-----------------------------------------------------------------------------
(* Sampling: the totals are those of the buckets.                          *)

\* The points of a set of polls by row.
ByRow(points, S, start, bucket) ==
  /\ DOMAIN points = 1..Count(S) /\ Count(S) \in Nat
  /\ \A i \in 1..Count(S) :
       /\ points[i].delta = DeltaIn(Sampled(S) \cup Old(start, 0), Rows(S)[i])
       /\ points[i].at = polls[Rows(S)[i]].at
       /\ StartOf(points, start, bucket, i) = PollStart(Rows(S)[i], start, bucket)

LEMMA PointsByRow ==
  ASSUME PollsOK, NEW start \in Nat, NEW end \in Nat, NEW bucket, NEW S \in SUBSET Window(start, end),
         NEW points, points = PointsOf(S, start, 0)
  PROVE  ByRow(points, S, start, bucket)
<1>1. S \subseteq DOMAIN polls
  BY DEF Window
<1>2. DOMAIN points = 1..Count(S) /\ Count(S) \in Nat
  BY <1>1, RowsAre DEF PointsOf
<1>3. ASSUME NEW i \in 1..Count(S)
      PROVE  /\ points[i].delta = DeltaIn(Sampled(S) \cup Old(start, 0), Rows(S)[i])
             /\ points[i].at = polls[Rows(S)[i]].at
  <2>1. PICK p, O : p = Rows(S)[i] /\ O = Old(start, 0)
    OBVIOUS
  <2>2. points[i] = SeriesPoint(p, Baselines(S \cup O, p))
    BY <2>1 DEF PointsOf
  <2>3. PICK previous : previous = Baselines(Sampled(S) \cup O, p)
    OBVIOUS
  <2>4. Baselines(S \cup O, p) = previous
    <3>1. \A k \in Counters : Known(S \cup O, p, k) = Known(Sampled(S) \cup O, p, k)
      BY DEF Known, Sampled, CountersOf
    <3> QED
      BY <2>3, <3>1 DEF Baselines
  <2>5. points[i] = SeriesPoint(p, previous)
    BY <2>2, <2>4
  <2>6. SeriesPoint(p, previous).at = polls[p].at
    BY PointIs
  <2> QED
    BY <2>1, <2>3, <2>5, <2>6 DEF DeltaIn
<1>4. ASSUME NEW i \in 1..Count(S)
      PROVE  StartOf(points, start, bucket, i) = PollStart(Rows(S)[i], start, bucket)
  BY <1>3 DEF StartOf, BucketStart, PollStart
<1> QED
  BY <1>2, <1>3, <1>4 DEF ByRow

\* What a bucket counts.
Totals(T, start, bucket, b) ==
  [k \in {c \in Counters : CountedIn(T, start, bucket, b, c) # {}} |-> TotalIn(T, start, bucket, b, k)]

LEMMA BucketTotals ==
  ASSUME PollsOK, Complete, RunsGrow, ~masked,
         NEW start \in Nat, NEW end \in Nat, NEW bucket, NEW b, NEW S \in SUBSET Window(start, end),
         NEW points, points = PointsOf(S, start, 0)
  PROVE  SumOf(points, InBucket(points, start, bucket, b)) = Totals(Sampled(S), start, bucket, b)
<1> DEFINE in == InBucket(points, start, bucket, b)
           having(k) == {i \in in : k \in DOMAIN points[i].delta}
           T == Sampled(S)
           H == T \cup Old(start, 0)
           C(k) == CountedIn(T, start, bucket, b, k)
           amount(k) == SumFunctionOnSet([i \in having(k) |-> points[i].delta[k]], having(k))
<1>0. S \subseteq DOMAIN polls /\ T \in SUBSET Sampled(Window(start, end))
  BY DEF Window, Sampled
<1>1. /\ DOMAIN points = 1..Count(S) /\ Count(S) \in Nat
      /\ \A i \in 1..Count(S) : /\ points[i].delta = DeltaIn(H, Rows(S)[i])
                                /\ StartOf(points, start, bucket, i) = PollStart(Rows(S)[i], start, bucket)
  <2>1. ByRow(points, S, start, bucket)
    BY PointsByRow
  <2> QED
    BY <2>1 DEF ByRow
<1>2. SumOf(points, in) = [k \in {c \in Counters : having(c) # {}} |-> amount(k)]
  BY Zenon DEF SumOf
<1>3. in = {i \in 1..Count(S) : PollStart(Rows(S)[i], start, bucket) = b}
  BY <1>1 DEF InBucket
<1>4. /\ \A i \in 1..Count(S) : Rows(S)[i] \in T
      /\ \A i, j \in 1..Count(S) : i < j => Rows(S)[i] # Rows(S)[j]
      /\ \A p \in T : \E i \in 1..Count(S) : Rows(S)[i] = p
  <2>1. /\ \A i \in 1..Count(S) : Rows(S)[i] \in T /\ Rows(S)[i] \in S
        /\ \A i, j \in 1..Count(S) : i < j <=> Earlier(Rows(S)[i], Rows(S)[j])
        /\ \A p \in T : \E i \in 1..Count(S) : Rows(S)[i] = p
    BY <1>0, RowsAre
  <2> QED
    BY <1>0, <2>1, EarlierOrder
<1>5. ASSUME NEW k \in Counters
      PROVE  (having(k) # {} <=> C(k) # {}) /\ amount(k) = TotalIn(T, start, bucket, b, k)
  <2> DEFINE X == having(k)
             Y == C(k)
             h == [i \in X |-> Rows(S)[i]]
             f == [i \in X |-> points[i].delta[k]]
             g == [p \in Y |-> DeltaIn(H, p)[k]]
  <2>1. X = {i \in 1..Count(S) : PollStart(Rows(S)[i], start, bucket) = b
                                   /\ k \in DOMAIN DeltaIn(H, Rows(S)[i])}
    BY <1>1, <1>3
  <2>2. Y = {p \in T : PollStart(p, start, bucket) = b /\ k \in DOMAIN DeltaIn(H, p)}
    BY DEF CountedIn
  <2>3. IsFiniteSet(Y) /\ \A p \in Y : DeltaIn(H, p)[k] \in Nat
    BY <1>0, CountedType
  <2>4. /\ amount(k) = SumFunctionOnSet(f, X)
        /\ TotalIn(T, start, bucket, b, k) = SumFunctionOnSet(g, Y)
    BY DEF TotalIn
  <2>5. IsFiniteSet(X)
    <3>1. X \subseteq 1..Count(S)
      BY <2>1
    <3> HIDE DEF X
    <3>2. IsFiniteSet(1..Count(S))
      BY <1>1, FS_Interval
    <3> QED
      BY <3>1, <3>2, FS_Subset
  <2>6. DOMAIN h = X /\ \A i \in X : h[i] = Rows(S)[i]
    OBVIOUS
  <2>7. /\ \A i \in X : f[i] = DeltaIn(H, Rows(S)[i])[k]
        /\ \A p \in Y : g[p] = DeltaIn(H, p)[k]
    BY <1>1, <2>1
  <2>8. h \in [X -> Y]
    <3>1. \A i \in X : Rows(S)[i] \in Y
      BY <1>4, <2>1, <2>2
    <3> HIDE DEF X, Y
    <3> QED
      BY <3>1
  <2> HIDE DEF X, Y, f, g, h, T, H, amount, having, C
  <2>9. \A i, j \in X : h[i] = h[j] => i = j
    <3>1. \A i \in X : i \in 1..Count(S) /\ i \in Int
      BY <1>1, <2>1
    <3>2. \A i, j \in X : i # j => i < j \/ j < i
      BY <3>1
    <3> QED
      BY <1>4, <2>6, <3>1, <3>2
  <2>10. \A p \in Y : \E i \in X : p = h[i]
    BY <1>4, <2>1, <2>2, <2>6
  <2>11. \A i \in X : f[i] = g[h[i]]
    BY <2>6, <2>7, <2>8
  <2>12. \A p \in Y : g[p] \in Nat
    BY <2>3, <2>7
  <2>13. SumFunctionOnSet(f, X) = SumFunctionOnSet(g, Y)
    BY <2>3, <2>5, <2>8, <2>9, <2>10, <2>11, <2>12, SumBijection
  <2>14. X # {} <=> Y # {}
    BY <2>8, <2>10
  <2> QED
    BY <2>4, <2>13, <2>14 DEF X, Y
<1> HIDE DEF having, C, amount
<1>6. {c \in Counters : having(c) # {}} = {c \in Counters : C(c) # {}}
  BY <1>5
<1>7. SumOf(points, in) = [k \in {c \in Counters : C(c) # {}} |-> TotalIn(T, start, bucket, b, k)]
  BY <1>2, <1>5, <1>6
<1> QED
  BY <1>7 DEF C, Totals

\* The buckets that show a set of polls, and its chart.
Starts(T, start, bucket) == {PollStart(p, start, bucket) : p \in T}

ChartIs(chart, T, start, bucket) ==
  LET starts == Starts(T, start, bucket)
  IN  /\ Len(chart) = Cardinality(starts) /\ DOMAIN chart = 1..Cardinality(starts)
      /\ \A n \in 1..Cardinality(starts) :
           /\ chart[n].at = NthStart(starts, n)
           /\ chart[n].delta = Totals(T, start, bucket, NthStart(starts, n))

\* Two polls of one bucket: its points are aggregated.
LEMMA ChartOf ==
  ASSUME PollsOK, Complete, RunsGrow, ~masked,
         NEW start \in Nat, NEW end \in Nat, NEW bucket \in Nat \ {0}, NEW S \in SUBSET Window(start, end),
         NEW series, series.points = PointsOf(S, start, 0),
         NEW f \in Sampled(S), NEW l \in Sampled(S), f # l,
         PollStart(f, start, bucket) = PollStart(l, start, bucket)
  PROVE  ChartIs(AggregateSeries(series, start, bucket), Sampled(S), start, bucket)
<1> DEFINE T == Sampled(S)
           starts == Starts(T, start, bucket)
           chart == AggregateSeries(series, start, bucket)
<1>1. PICK points : points = series.points /\ points = PointsOf(S, start, 0)
  OBVIOUS
<1>2. S \subseteq DOMAIN polls
  BY DEF Window
<1>3. /\ DOMAIN points = 1..Count(S) /\ Count(S) \in Nat
      /\ \A i \in 1..Count(S) : StartOf(points, start, bucket, i) = PollStart(Rows(S)[i], start, bucket)
  <2>1. ByRow(points, S, start, bucket)
    BY <1>1, PointsByRow
  <2> QED
    BY <2>1 DEF ByRow
<1>4. StartsOf(points, start, bucket) = starts
  <2>1. /\ \A i \in 1..Count(S) : Rows(S)[i] \in T
        /\ \A p \in T : \E i \in 1..Count(S) : Rows(S)[i] = p
    BY <1>2, RowsAre
  <2> QED
    BY <1>3, <2>1 DEF StartsOf, Starts
<1>5. Len(points) = Cardinality(T)
  <2>1. points = [i \in 1..Count(S) |-> points[i]]
    BY <1>1 DEF PointsOf
  <2> QED
    BY <1>3, <2>1, Lengths DEF Count
<1>6. IsFiniteSet(T)
  BY <1>2, FS_Subset DEF PollsOK, Sampled
<1>7. IsFiniteSet(starts) /\ Cardinality(starts) # Cardinality(T)
  <2> DEFINE g == [p \in T |-> PollStart(p, start, bucket)]
  <2>1. g \in Surjection(T, starts)
    BY DEF Surjection, Starts
  <2>2. g \notin Injection(T, starts)
    BY DEF Injection, IsInjective
  <2> HIDE DEF g, starts, T
  <2> QED
    BY <1>6, <2>1, <2>2, FS_Surjection
<1>8. Cardinality(starts) \in Nat
  BY <1>7, FS_CardinalityType
<1>9. /\ chart = [n \in 1..Cardinality(starts) |-> chart[n]]
      /\ \A n \in 1..Cardinality(starts) :
           /\ chart[n].at = NthStart(starts, n)
           /\ chart[n].delta = SumOf(points, InBucket(points, start, bucket, NthStart(starts, n)))
  <2>1. ~(bucket = 0 \/ Cardinality(StartsOf(series.points, start, bucket)) = Len(series.points))
    BY <1>1, <1>4, <1>5, <1>7
  <2> HIDE DEF starts, chart
  <2> QED
    BY <1>1, <1>4, <2>1, AggregateIs DEF chart
<1>10. \A b : SumOf(points, InBucket(points, start, bucket, b)) = Totals(T, start, bucket, b)
  BY <1>1, BucketTotals
<1> HIDE DEF starts, chart
<1>11. Len(chart) = Cardinality(starts) /\ DOMAIN chart = 1..Cardinality(starts)
  BY <1>8, <1>9, Lengths
<1> QED
  BY <1>9, <1>10, <1>11 DEF ChartIs, starts, chart

\* Polls without a sample do not matter.
LEMMA SamePoints ==
  ASSUME NEW S, NEW R, Sampled(S) = Sampled(R), NEW start
  PROVE  PointsOf(S, start, 0) = PointsOf(R, start, 0)
<1>1. Count(S) = Count(R) /\ Rows(S) = Rows(R)
  BY DEF Count, Rows
<1>2. \A p : Baselines(S \cup Old(start, 0), p) = Baselines(R \cup Old(start, 0), p)
  <2> SUFFICES ASSUME NEW p PROVE Baselines(S \cup Old(start, 0), p) = Baselines(R \cup Old(start, 0), p)
    OBVIOUS
  <2>1. \A q : \A k \in Counters : k \in CountersOf(q) /\ q \in S => q \in R
    BY DEF Sampled, CountersOf
  <2>2. \A q : \A k \in Counters : k \in CountersOf(q) /\ q \in R => q \in S
    BY DEF Sampled, CountersOf
  <2>3. \A k \in Counters : Known(S \cup Old(start, 0), p, k) = Known(R \cup Old(start, 0), p, k)
    BY <2>1, <2>2 DEF Known
  <2> QED
    BY <2>3, BaselinesOf
<1> QED
  BY <1>1, <1>2 DEF PointsOf

\* Every bucket shown has a sampled poll.
LEMMA StartsKept ==
  ASSUME PollsOK, NEW start \in Nat, NEW end \in Nat, NEW bucket
  PROVE  Starts(Ends(start, end, bucket), start, bucket)
           = Starts(Sampled(Window(start, end)), start, bucket)
<1> DEFINE T == Ends(start, end, bucket)
           S == Sampled(Window(start, end))
<1>1. T \in SUBSET S /\ HasEnds(T, start, end, bucket)
  BY EndsAre
<1>2. ASSUME NEW x \in S PROVE \E y \in T : PollStart(y, start, bucket) = PollStart(x, start, bucket)
  <2> DEFINE G == Group(start, end, bucket, x)
  <2>1. G \subseteq DOMAIN polls /\ x \in G
    BY DEF Group, Window, Sampled
  <2>2. Newest(G) \in T
    BY <1>1 DEF HasEnds
  <2>3. Newest(G) \in G
    <3> HIDE DEF G
    <3> QED
      BY <2>1, NewestIn
  <2>4. \A y \in G : PollStart(y, start, bucket) = PollStart(x, start, bucket)
    BY DEF Group, PollStart
  <2> HIDE DEF G
  <2> QED
    BY <2>2, <2>3, <2>4
<1> HIDE DEF T, S
<1>3. Starts(T, start, bucket) = Starts(S, start, bucket)
  BY <1>1, <1>2 DEF Starts
<1> QED
  BY <1>3 DEF T, S

\* A group with a poll between its ends has two sampled polls.
LEMMA TwoEnds ==
  ASSUME PollsOK, NEW start \in Nat, NEW end \in Nat, NEW bucket,
         NEW x \in Sampled(Window(start, end)), x \notin Ends(start, end, bucket)
  PROVE  \E f, l \in Ends(start, end, bucket) :
           f # l /\ PollStart(f, start, bucket) = PollStart(l, start, bucket)
<1> DEFINE T == Ends(start, end, bucket)
           G == Group(start, end, bucket, x)
<1>1. G \subseteq DOMAIN polls /\ x \in G
  BY DEF Group, Window, Sampled
<1>2. First(G) \in T /\ Newest(G) \in T
  BY EndsAre DEF HasEnds
<1>3. \A y \in G : PollStart(y, start, bucket) = PollStart(x, start, bucket)
  BY DEF Group, PollStart
<1> HIDE DEF G
<1>4. /\ First(G) \in G /\ (x # First(G) => Earlier(First(G), x))
      /\ Newest(G) \in G /\ (x # Newest(G) => Earlier(x, Newest(G)))
  BY <1>1, FirstIn, NewestIn
<1>5. x # First(G) /\ x # Newest(G)
  BY <1>2
<1>6. First(G) # Newest(G)
  BY <1>1, <1>4, <1>5, EarlierOrder
<1> QED
  BY <1>2, <1>3, <1>4, <1>6

\* The charts of both series are the same.
LEMMA SamplingKeepsTotalsHolds ==
  ASSUME PollsOK, RunsInOrder, RunsGrow, now \in Nat, MaxTime \in Nat, SampledBuckets \subseteq Nat \ {0}
  PROVE  SamplingKeepsTotals
<1> SUFFICES ASSUME Complete, ~masked, NEW w \in Windows, NEW b \in SampledBuckets
             PROVE  LET sampled == AggregateSeries(DashboardSeries(w[1], w[2], b), w[1], b)
                        native == AggregateSeries(Series(w[1], w[2]), w[1], b)
                    IN  /\ Len(sampled) = Len(native)
                        /\ \A i \in DOMAIN native : /\ sampled[i].at = native[i].at
                                                    /\ sampled[i].delta = native[i].delta
  BY DEF SamplingKeepsTotals
<1>0. PICK start \in Nat, end \in Nat : start = w[1] /\ end = w[2]
  BY WindowIn
<1> DEFINE W == Window(start, end)
           S == Sampled(W)
           ids == DashboardPollIDs(start, end, b)
           T == Ends(start, end, b)
           D == DashboardSeries(start, end, b)
           N == Series(start, end)
           sampled == AggregateSeries(D, start, b)
           native == AggregateSeries(N, start, b)
<1>1. N.points = PointsOf(W, start, 0)
  <2>1. N.points = [i \in 1..Count(W) |-> NativePoint(Rows(W)[i])]
    BY SeriesPoints
  <2>2. Points(W, PreviousCounterValues(start, 0)) = PointsOf(W, start, 0)
    <3>1. \A oldest \in Nat : Points(W, PreviousCounterValues(start, oldest)) = PointsOf(W, start, oldest)
      BY PointsOfSet
    <3>2. 0 \in Nat
      OBVIOUS
    <3> QED
      BY <3>1, <3>2, Zenon
  <2>3. Points(W, PreviousCounterValues(start, 0)) = [i \in 1..Count(W) |-> NativePoint(Rows(W)[i])]
    BY NativePoints
  <2> QED
    BY <2>1, <2>2, <2>3
<1>2. CASE D = N
  <2>1. sampled = native
    BY <1>2
  <2> QED
    BY <1>0, <2>1
<1>3. CASE D # N
  <2>1. D.points = PointsOf(ids, start, 0)
    <3>1. D.points = Points(ids, PreviousCounterValues(start, 0))
      BY <1>3, DashboardIs
    <3>2. ids \in SUBSET Window(start, end)
      BY DEF DashboardPollIDs
    <3>3. \A oldest \in Nat : Points(ids, PreviousCounterValues(start, oldest)) = PointsOf(ids, start, oldest)
      BY <3>2, PointsOfSet
    <3>4. 0 \in Nat
      OBVIOUS
    <3>5. Points(ids, PreviousCounterValues(start, 0)) = PointsOf(ids, start, 0)
      BY <3>3, <3>4, Zenon
    <3> QED
      BY <3>1, <3>5
  <2>2. T = Sampled(ids)
    BY DEF Ends
  <2>3. CASE T = S
    <3>1. PointsOf(ids, start, 0) = PointsOf(W, start, 0)
      BY <2>2, <2>3, SamePoints
    <3>2. D.points = N.points
      BY <1>1, <2>1, <3>1
    <3> HIDE DEF D, N
    <3>3. sampled = native
      BY <3>2 DEF AggregateSeries
    <3> QED
      BY <1>0, <3>3 DEF D, N
  <2>4. CASE T # S
    <3>1. T \in SUBSET S
      BY EndsAre
    <3>2. PICK x \in S : x \notin T
      BY <2>4, <3>1
    <3>3. PICK f \in T, l \in T : f # l /\ PollStart(f, start, b) = PollStart(l, start, b)
      BY <3>2, TwoEnds
    <3>4. ids \in SUBSET W /\ W \in SUBSET W /\ b \in Nat \ {0}
      BY DEF DashboardPollIDs
    <3>5. ChartIs(sampled, T, start, b)
      <4> HIDE DEF D, ids
      <4> QED
        BY <2>1, <2>2, <3>3, <3>4, ChartOf
    <3>6. ChartIs(native, S, start, b)
      <4>1. f \in S /\ l \in S
        BY <3>1, <3>3
      <4> HIDE DEF N
      <4> QED
        BY <1>1, <3>3, <3>4, <4>1, ChartOf
    <3>7. Starts(T, start, b) = Starts(S, start, b)
      BY StartsKept
    <3>8. \A c : Totals(S, start, b, c) = Totals(T, start, b, c)
      <4> SUFFICES ASSUME NEW c PROVE Totals(S, start, b, c) = Totals(T, start, b, c)
        OBVIOUS
      <4>1. \A k \in Counters : SameTotals(S, T, start, b, c, k)
        BY <3>4, EndsKeepTotals
      <4> HIDE DEF S, T
      <4> QED
        BY <4>1 DEF SameTotals, Totals
    <3> HIDE DEF S, T, sampled, native, N, D
    <3>9. Len(sampled) = Len(native) /\ DOMAIN native = 1..Cardinality(Starts(S, start, b))
      BY <3>5, <3>6, <3>7 DEF ChartIs
    <3>10. \A i \in DOMAIN native : sampled[i].at = native[i].at /\ sampled[i].delta = native[i].delta
      BY <3>5, <3>6, <3>7, <3>8, <3>9 DEF ChartIs
    <3> QED
      BY <1>0, <3>9, <3>10 DEF sampled, native, N, D
  <2> QED
    BY <2>3, <2>4
<1> QED
  BY <1>2, <1>3

\* Together.
LEMMA SampledMatchesNativeHolds ==
  ASSUME PollsOK, RunsInOrder, RunsGrow, now \in Nat, MaxTime \in Nat, SampledBuckets \subseteq Nat \ {0}
  PROVE  SampledMatchesNative
BY LatestIsNativeHolds, SamplingKeepsTotalsHolds DEF SampledMatchesNative

-----------------------------------------------------------------------------
(* The writers keep the inductive invariant.                               *)

\* At the start nothing is stored.
LEMMA InitIInv == Init => IInv
<1> SUFFICES ASSUME Init PROVE IInv
  OBVIOUS
<1>1. DOMAIN polls = {} /\ polls = [p \in {} |-> polls[p]]
  BY DEF Init
<1>2. VariablesOK
  <2>1. polls = [p \in DOMAIN polls |-> polls[p]]
    BY <1>1
  <2>2. now \in Nat /\ Retention < now /\ cutoff \in Nat
    BY BoundAssumption DEF Init
  <2>3. run \in Nat \ {0} /\ level \in [Counters -> Nat]
    BY DEF Init, Zero
  <2>4. masked \in BOOLEAN
    BY Zenon DEF Init
  <2> QED
    BY <2>1, <2>2, <2>3, <2>4 DEF VariablesOK
<1>3. PollsOK
  BY <1>1, FS_EmptySet DEF PollsOK
<1>4. RunsInOrder /\ RunsGrow /\ LevelAbove
  BY <1>1 DEF RunsInOrder, RunsGrow, LevelAbove
<1> QED
  BY <1>2, <1>3, <1>4 DEF IInv

\* Deleting polls keeps it.
LEMMA DeletingKeepsIInv ==
  ASSUME IInv, NEW D \in SUBSET DOMAIN polls, polls' = [p \in D |-> polls[p]],
         now' = now, level' = level, run' = run, masked' = masked, cutoff' \in Nat
  PROVE  IInv'
<1>1. DOMAIN polls' = D /\ \A p \in D : polls'[p] = polls[p] /\ p \in DOMAIN polls
  OBVIOUS
<1>2. polls' = [p \in DOMAIN polls' |-> polls'[p]]
  BY <1>1
<1>3. VariablesOK'
  BY <1>2 DEF IInv, VariablesOK
<1>4. \A p \in D : CountersOf(p)' = CountersOf(p)
  BY <1>1 DEF CountersOf
<1>5. \A p, q \in D : Earlier(p, q)' <=> Earlier(p, q)
  BY <1>1 DEF Earlier
<1>6. PollsOK'
  <2>1. IsFiniteSet(D)
    BY FS_Subset DEF IInv, PollsOK
  <2> QED
    BY <1>1, <1>4, <2>1 DEF IInv, PollsOK
<1>7. RunsInOrder'
  BY <1>1, <1>5 DEF IInv, RunsInOrder
<1>8. RunsGrow'
  BY <1>1, <1>4, <1>5 DEF IInv, RunsGrow, Outgrows
<1>9. LevelAbove'
  BY <1>1, <1>4 DEF IInv, LevelAbove, Outgrows
<1> QED
  BY <1>3, <1>6, <1>7, <1>8, <1>9 DEF IInv

\* A finite set of numbers has a largest.
LEMMA LargestNumber ==
  ASSUME NEW S, IsFiniteSet(S), S \subseteq Nat, S # {}
  PROVE  \E n \in S : \A m \in S : m <= n
<1> DEFINE T == {s \in SUBSET S : s # {} => \E n \in s : \A m \in s : m <= n}
<1>1. {} \in T
  OBVIOUS
<1>2. ASSUME NEW s \in SUBSET S, s \in T, NEW x \in S \ s PROVE s \cup {x} \in T
  <2>1. CASE s = {}
    BY <2>1
  <2>2. CASE s # {}
    <3>1. PICK n \in s : \A m \in s : m <= n
      BY <1>2, <2>2
    <3>2. CASE n <= x
      BY <3>1, <3>2
    <3>3. CASE ~(n <= x)
      BY <3>1, <3>3
    <3> QED
      BY <3>2, <3>3
  <2> QED
    BY <2>1, <2>2
<1>3. S \in T
  <2>1. \A s \in SUBSET S : s \in T => \A x \in S \ s : s \cup {x} \in T
    BY <1>2
  <2> HIDE DEF T
  <2> QED
    BY <1>1, <2>1, SubsetInduction
<1> QED
  BY <1>3

\* A stored poll is the last one, and keeps it too.
LEMMA StoringKeepsIInv ==
  ASSUME IInv, NEW fresh \in BOOLEAN, NEW signals, NEW levels \in [Counters -> Nat],
         fresh => signals # {}, StorePoll(fresh, signals, levels), now' = now, cutoff' = cutoff
  PROVE  IInv'
<1> DEFINE row == [at      |-> now,
                   run     |-> IF signals = {} THEN 0 ELSE run',
                   samples |-> [k \in signals |-> IF k = "gauge" THEN 0 ELSE levels[k]]]
           D == DOMAIN polls
<1>0. VariablesOK /\ PollsOK /\ RunsInOrder /\ RunsGrow /\ LevelAbove
  BY DEF IInv
<1>1. PICK id \in Nat \ {0} :
        /\ \A q \in D : q < id
        /\ polls' = [p \in D \cup {id} |-> IF p = id THEN row ELSE polls[p]]
  <2> DEFINE last == CHOOSE p \in D : \A q \in D : q <= p
             new == IF polls = <<>> THEN 1 ELSE 1 + last
  <2>1. polls' = [p \in D \cup {new} |-> IF p = new THEN row ELSE polls[p]]
    BY Zenon DEF StorePoll
  <2>2. CASE polls = <<>>
    <3>1. new = 1 /\ D = {}
      BY <2>2
    <3> HIDE DEF new, D
    <3>2. \A q \in D : q < 1
      BY <3>1
    <3> QED
      BY <2>1, <3>1, <3>2
  <2>3. CASE polls # <<>>
    <3>1. D # {}
      <4>1. ASSUME D = {} PROVE polls = [i \in 1..0 |-> polls[i]]
        BY <1>0, <4>1 DEF VariablesOK
      <4>2. polls = [i \in 1..0 |-> polls[i]] => polls = <<>>
        BY Lengths
      <4> QED
        BY <2>3, <4>1, <4>2
    <3>2. D \subseteq Nat \ {0} /\ IsFiniteSet(D)
      BY <1>0 DEF PollsOK
    <3> HIDE DEF D
    <3>3. \E p \in D : \A q \in D : q <= p
      BY <3>1, <3>2, LargestNumber
    <3>4. last \in D /\ \A q \in D : q <= last
      BY <3>3
    <3>5. new = 1 + last
      BY <2>3
    <3> HIDE DEF last, new
    <3>6. new \in Nat \ {0} /\ \A q \in D : q < new
      BY <3>2, <3>4, <3>5
    <3> QED
      BY <2>1, <3>6 DEF D
  <2> QED
    BY <2>2, <2>3
<1>2. /\ DOMAIN polls' = D \cup {id} /\ id \notin D
      /\ \A p \in D : polls'[p] = polls[p]
      /\ polls'[id].at = now /\ polls'[id].run = IF signals = {} THEN 0 ELSE run'
      /\ DOMAIN polls'[id].samples = signals
      /\ \A k \in signals \cap Counters : polls'[id].samples[k] = levels[k]
  <2>1. id \notin D
    BY <1>1
  <2>2. polls'[id] = row
    BY <1>1
  <2>3. \A k \in Counters : k # "gauge"
    BY CountersAssumption
  <2> HIDE DEF D
  <2> QED
    BY <1>1, <2>1, <2>2, <2>3
<1>3. /\ run' \in {run, run + 1} /\ (~fresh => run' = run)
      /\ masked' = (masked \/ (fresh /\ run' = run))
      /\ Grows(IF fresh THEN Zero ELSE level, levels) /\ level' = levels
  BY DEF StorePoll
<1> HIDE DEF row, D
<1>4. VariablesOK'
  <2>1. polls' = [p \in DOMAIN polls' |-> polls'[p]]
    BY <1>1
  <2>2. run' \in Nat \ {0}
    BY <1>0, <1>3 DEF VariablesOK
  <2>3. masked' \in BOOLEAN
    BY <1>0, <1>3 DEF VariablesOK
  <2> QED
    BY <1>0, <1>3, <2>1, <2>2, <2>3 DEF VariablesOK
<1>5. /\ \A p \in D : CountersOf(p)' = CountersOf(p)
      /\ CountersOf(id)' = signals \cap Counters
  BY <1>2 DEF CountersOf
<1>6. /\ \A p, q \in D : Earlier(p, q)' <=> Earlier(p, q)
      /\ \A p \in D : ~Earlier(id, p)'
      /\ ~Earlier(id, id)'
  <2>1. \A p \in D : p \in Nat /\ polls[p].at \in Nat /\ polls[p].at <= now
    BY <1>0 DEF D, PollsOK
  <2>2. \A p, q \in D : Earlier(p, q)' <=> Earlier(p, q)
    BY <1>2 DEF Earlier
  <2>3. \A p \in D : ~Earlier(id, p)'
    <3> SUFFICES ASSUME NEW p \in D PROVE ~Earlier(id, p)'
      OBVIOUS
    <3>1. polls'[id].at = now /\ polls'[p].at <= now /\ polls'[p].at \in Nat /\ p < id /\ now \in Nat
      BY <1>0, <1>1, <1>2, <2>1 DEF VariablesOK
    <3>2. p \in Nat /\ id \in Nat
      BY <2>1
    <3> QED
      BY <3>1, <3>2 DEF Earlier
  <2>4. ~Earlier(id, id)'
    BY <1>0, <1>2 DEF Earlier, VariablesOK
  <2> QED
    BY <2>2, <2>3, <2>4
<1>7. \A p \in D : polls[p].run \in Nat /\ polls[p].run <= run
  BY <1>0 DEF D, PollsOK
<1>8. PollsOK'
  <2>1. DOMAIN polls' \subseteq Nat \ {0} /\ IsFiniteSet(DOMAIN polls')
    BY <1>0, <1>1, <1>2, FS_AddElement DEF PollsOK, D
  <2>2. ASSUME NEW p \in D
        PROVE  /\ polls'[p].at \in Nat /\ 1 <= polls'[p].at /\ polls'[p].at <= now'
               /\ polls'[p].run \in Nat /\ polls'[p].run <= run'
               /\ (polls'[p].run = 0 <=> DOMAIN polls'[p].samples = {})
               /\ \A k \in CountersOf(p)' : polls'[p].samples[k] \in Nat
    <3>1. polls'[p] = polls[p] /\ CountersOf(p)' = CountersOf(p) /\ p \in DOMAIN polls
      BY <1>2, <1>5 DEF D
    <3>2. /\ polls[p].at \in Nat /\ 1 <= polls[p].at /\ polls[p].at <= now
          /\ (polls[p].run = 0 <=> DOMAIN polls[p].samples = {})
          /\ \A k \in CountersOf(p) : polls[p].samples[k] \in Nat
      BY <1>0, <3>1 DEF PollsOK
    <3>3. polls[p].run \in Nat /\ polls[p].run <= run'
      BY <1>0, <1>3, <1>7 DEF VariablesOK
    <3> QED
      BY <3>1, <3>2, <3>3
  <2>3. /\ polls'[id].at \in Nat /\ 1 <= polls'[id].at /\ polls'[id].at <= now'
        /\ polls'[id].run \in Nat /\ polls'[id].run <= run'
        /\ (polls'[id].run = 0 <=> DOMAIN polls'[id].samples = {})
        /\ \A k \in CountersOf(id)' : polls'[id].samples[k] \in Nat
    <3>1. now \in Nat /\ 1 <= now
      BY <1>0, BoundAssumption DEF VariablesOK
    <3>2. run' \in Nat /\ run' # 0
      BY <1>4 DEF VariablesOK
    <3>3. \A k \in CountersOf(id)' : polls'[id].samples[k] \in Nat
      BY <1>2, <1>5
    <3> QED
      BY <1>2, <3>1, <3>2, <3>3
  <2>4. \A p \in DOMAIN polls' :
          /\ polls'[p].at \in Nat /\ 1 <= polls'[p].at /\ polls'[p].at <= now'
          /\ polls'[p].run \in Nat /\ polls'[p].run <= run'
          /\ (polls'[p].run = 0 <=> DOMAIN polls'[p].samples = {})
          /\ \A k \in CountersOf(p)' : polls'[p].samples[k] \in Nat
    BY <1>2, <2>2, <2>3
  <2> QED
    BY <2>1, <2>4 DEF PollsOK
<1>9. RunsInOrder'
  <2>1. ASSUME NEW p \in DOMAIN polls', NEW q \in DOMAIN polls', Earlier(p, q)',
               polls'[p].run # 0, polls'[q].run # 0
        PROVE  polls'[p].run <= polls'[q].run
    <3>1. p \in D
      BY <1>2, <1>6, <2>1
    <3>2. CASE q \in D
      BY <1>0, <1>2, <1>6, <2>1, <3>1, <3>2 DEF RunsInOrder, D
    <3>3. CASE q = id
      BY <1>0, <1>2, <1>3, <1>7, <2>1, <3>1, <3>3 DEF VariablesOK
    <3> QED
      BY <1>2, <3>2, <3>3
  <2> QED
    BY <2>1 DEF RunsInOrder
<1>10. ASSUME ~masked', NEW p \in D, polls[p].run = run'
       PROVE  Outgrows(p, levels, CountersOf(p))'
  <2>1. ~masked /\ ~fresh /\ run' = run
    BY <1>0, <1>3, <1>7, <1>10 DEF VariablesOK
  <2>2. Outgrows(p, level, CountersOf(p))
    BY <1>0, <1>10, <2>1 DEF LevelAbove, D
  <2>3. Grows(level, levels)
    BY <1>3, <2>1
  <2>4. level \in [Counters -> Nat] /\ CountersOf(p) \subseteq Counters
        /\ \A k \in CountersOf(p) : polls[p].samples[k] \in Nat
    BY <1>0 DEF VariablesOK, CountersOf, PollsOK, D
  <2>5. Outgrows(p, levels, CountersOf(p))
    <3> SUFFICES ASSUME NEW k \in CountersOf(p)
                 PROVE  /\ polls[p].samples[k] <= levels[k]
                        /\ "requests" \in CountersOf(p) =>
                             levels[k] - polls[p].samples[k]
                               <= levels["requests"] - polls[p].samples["requests"]
      BY DEF Outgrows
    <3>1. polls[p].samples[k] <= level[k] /\ level[k] <= levels[k]
      BY <2>2, <2>3, <2>4 DEF Outgrows, Grows
    <3>2. level[k] \in Nat /\ levels[k] \in Nat /\ polls[p].samples[k] \in Nat
      BY <2>4
    <3>3. ASSUME "requests" \in CountersOf(p)
          PROVE  levels[k] - polls[p].samples[k] <= levels["requests"] - polls[p].samples["requests"]
      <4>1. level[k] - polls[p].samples[k] <= level["requests"] - polls[p].samples["requests"]
        BY <2>2, <3>3 DEF Outgrows
      <4>2. levels[k] - level[k] <= levels["requests"] - level["requests"]
        BY <2>3, <2>4, <3>3 DEF Grows
      <4>3. level["requests"] \in Nat /\ levels["requests"] \in Nat /\ polls[p].samples["requests"] \in Nat
        BY <2>4, <3>3
      <4> QED
        BY <3>2, <4>1, <4>2, <4>3
    <3> QED
      BY <3>1, <3>2, <3>3
  <2>6. CountersOf(p)' = CountersOf(p) /\ polls'[p] = polls[p]
    BY <1>2, <1>5
  <2> QED
    BY <2>5, <2>6 DEF Outgrows
<1>11. RunsGrow'
  <2>1. ASSUME ~masked', NEW p \in DOMAIN polls', NEW q \in DOMAIN polls', Earlier(p, q)',
               polls'[p].run = polls'[q].run
        PROVE  Outgrows(p, polls[q].samples, CountersOf(p) \cap CountersOf(q))'
    <3>0. p \in D /\ ~masked
      BY <1>0, <1>2, <1>3, <1>6, <2>1 DEF VariablesOK
    <3>1. CASE q \in D
      <4>1. Outgrows(p, polls[q].samples, CountersOf(p) \cap CountersOf(q))
        BY <1>0, <1>2, <1>6, <2>1, <3>0, <3>1 DEF RunsGrow, D
      <4>2. CountersOf(p)' = CountersOf(p) /\ CountersOf(q)' = CountersOf(q)
            /\ polls'[p] = polls[p] /\ polls'[q] = polls[q]
        BY <1>2, <1>5, <3>0, <3>1
      <4> QED
        BY <4>1, <4>2 DEF Outgrows
    <3>2. CASE q = id /\ signals = {}
      <4>1. CountersOf(q)' = {}
        BY <1>5, <3>2
      <4> QED
        BY <4>1 DEF Outgrows
    <3>3. CASE q = id /\ signals # {}
      <4>1. Outgrows(p, levels, CountersOf(p))'
        BY <1>2, <1>10, <2>1, <3>0, <3>3
      <4>2. \A k \in CountersOf(p)' \cap CountersOf(q)' : polls'[q].samples[k] = levels[k] /\ k \in CountersOf(p)'
        BY <1>2, <1>5, <3>3
      <4> QED
        BY <4>1, <4>2 DEF Outgrows
    <3> QED
      BY <1>2, <3>1, <3>2, <3>3
  <2> QED
    BY <2>1 DEF RunsGrow
<1>12. LevelAbove'
  <2>1. ASSUME ~masked', NEW p \in DOMAIN polls', polls'[p].run = run'
        PROVE  Outgrows(p, level, CountersOf(p))'
    <3>1. CASE p \in D
      BY <1>2, <1>3, <1>10, <2>1, <3>1 DEF Outgrows
    <3>2. CASE p = id
      <4>1. \A k \in CountersOf(id)' : polls'[id].samples[k] = level'[k] /\ level'[k] \in Int
        BY <1>2, <1>3, <1>5
      <4> QED
        BY <3>2, <4>1 DEF Outgrows
    <3> QED
      BY <1>2, <3>1, <3>2
  <2> QED
    BY <2>1 DEF LevelAbove
<1> QED
  BY <1>4, <1>8, <1>9, <1>11, <1>12 DEF IInv

\* Every step keeps it.
LEMMA NextIInv == IInv /\ [Next]_vars => IInv'
<1> SUFFICES ASSUME IInv, [Next]_vars PROVE IInv'
  OBVIOUS
<1>0. VariablesOK /\ PollsOK
  BY DEF IInv
<1>1. \A time : {q \in DOMAIN polls : polls[q].at >= time} \in SUBSET DOMAIN polls
  OBVIOUS
<1>2. now - Retention \in Nat
  BY <1>0, BoundAssumption DEF VariablesOK
<1>3. polls = [p \in DOMAIN polls |-> polls[p]]
  BY <1>0 DEF VariablesOK
<1>4. CASE Store
  <2>1. PICK fresh \in BOOLEAN, signals \in Exposures, levels \in [Counters -> 0..MaxLevel] :
          (fresh => signals # {}) /\ StorePoll(fresh, signals, levels)
    BY <1>4 DEF Store
  <2>2. levels \in [Counters -> Nat] /\ now' = now /\ cutoff' = cutoff
    BY <1>4, BoundAssumption DEF Store
  <2> QED
    BY <2>1, <2>2, StoringKeepsIInv
<1>5. CASE Tick
  <2>1. now' = now + 1 /\ level' = level /\ run' = run /\ polls' = polls /\ cutoff' = cutoff /\ masked' = masked
    BY <1>5 DEF Tick
  <2>2. VariablesOK'
    BY <1>0, <2>1, BoundAssumption DEF VariablesOK
  <2>3. PollsOK'
    BY <1>0, <2>1 DEF PollsOK, VariablesOK, CountersOf
  <2>4. RunsInOrder' /\ RunsGrow' /\ LevelAbove'
    BY <2>1 DEF IInv, RunsInOrder, RunsGrow, LevelAbove, Earlier, Outgrows, CountersOf
  <2> QED
    BY <2>2, <2>3, <2>4 DEF IInv
<1>6. CASE CleanupRetention
  <2>1. /\ polls' = [p \in {q \in DOMAIN polls : polls[q].at >= now - Retention} |-> polls[p]]
        /\ cutoff' = now - Retention
        /\ now' = now /\ level' = level /\ run' = run /\ masked' = masked
    BY <1>6 DEF CleanupRetention, DeletePollsBefore
  <2> QED
    BY <1>1, <1>2, <2>1, DeletingKeepsIInv
<1>7. CASE Restart
  <2>1. /\ cutoff' = now - Retention
        /\ now' = now /\ level' = level /\ run' = run /\ masked' = masked
    BY <1>7 DEF Restart
  <2>2. CASE polls' = polls
    <3>1. polls' = [p \in DOMAIN polls |-> polls[p]] /\ DOMAIN polls \in SUBSET DOMAIN polls
      BY <1>3, <2>2
    <3> QED
      BY <1>2, <2>1, <3>1, DeletingKeepsIInv
  <2>3. CASE polls' = [p \in {q \in DOMAIN polls : polls[q].at >= now - Retention} |-> polls[p]]
    BY <1>1, <1>2, <2>1, <2>3, DeletingKeepsIInv
  <2> QED
    BY <1>7, <2>2, <2>3 DEF Restart, DeletePollsBefore
<1>8. CASE UNCHANGED vars
  <2>1. now' = now /\ level' = level /\ run' = run /\ polls' = polls /\ cutoff' = cutoff /\ masked' = masked
    BY <1>8 DEF vars
  <2>2. VariablesOK' /\ PollsOK'
    BY <1>0, <2>1 DEF VariablesOK, PollsOK, CountersOf
  <2>3. RunsInOrder' /\ RunsGrow' /\ LevelAbove'
    BY <2>1 DEF IInv, RunsInOrder, RunsGrow, LevelAbove, Earlier, Outgrows, CountersOf
  <2> QED
    BY <2>2, <2>3 DEF IInv
<1> QED
  BY <1>4, <1>5, <1>6, <1>7, <1>8 DEF Next

\* Stored polls stay well formed, in the order of their runs, and growing
\* within a run: what InsertPoll, InsertSamples and the deletions of the cleaner
\* leave in the tables.
THEOREM HistoryIsSound == Spec => []IInv
<1>1. Init => IInv
  BY InitIInv
<1>2. IInv /\ [Next]_vars => IInv'
  BY NextIInv
<1> QED
  BY <1>1, <1>2, PTL DEF Spec

-----------------------------------------------------------------------------
(* What readers may rely on.                                               *)

\* What the lemmas above assume.
LEMMA InvariantFacts ==
  ASSUME IInv
  PROVE  /\ PollsOK /\ RunsInOrder /\ RunsGrow /\ now \in Nat /\ cutoff \in Nat
         /\ MaxTime \in Nat /\ SampledBuckets \subseteq Nat \ {0}
BY BoundAssumption DEF IInv, VariablesOK

\* A poll shows the same deltas through every window of the native series.
THEOREM EveryWindowAgrees == Spec => []WindowsAgree
<1>1. IInv => WindowsAgree
  BY InvariantFacts, WindowsAgreeHolds
<1> QED
  BY <1>1, HistoryIsSound, PTL

\* The endpoint sampled series of the long ranges has the native latest point
\* and first poll, and where every poll has every counter the native totals in
\* every bucket.
THEOREM SamplingLosesNothing == Spec => []SampledMatchesNative
<1>1. IInv => SampledMatchesNative
  BY InvariantFacts, SampledMatchesNativeHolds
<1> QED
  BY <1>1, HistoryIsSound, PTL

\* Neither the public API nor a clamped dashboard window counts anything from
\* before the retention cutoff.
THEOREM ReadersStartAtTheCutoff == Spec => []NothingBeforeCutoff
<1>1. IInv => NothingBeforeCutoff
  BY InvariantFacts, ClampedWindowStartsAfreshHolds, PublicStartsAtCutoffHolds DEF NothingBeforeCutoff
<1> QED
  BY <1>1, HistoryIsSound, PTL

\* No slot has more errors than requests, and no slot and no bucket an average
\* latency its requests do not allow.
THEOREM PublishedRatiosMatch == Spec => []RatiosMatch
<1>1. IInv => RatiosMatch
  BY InvariantFacts, RatiosMatchHolds
<1> QED
  BY <1>1, HistoryIsSound, PTL
=============================================================================
