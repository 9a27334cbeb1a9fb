---------------------------- MODULE CounterSeries ----------------------------
(***************************************************************************)
(* The query side of one target: polls hold cumulative counters, and every *)
(* reader derives deltas from them - the native series, the endpoint       *)
(* sampled series of the long dashboard ranges, the bounded series of the  *)
(* public API - clamps its window to the retained history, and groups the  *)
(* points into buckets.                                                    *)
(*                                                                         *)
(* A nil counter is a key outside the domain of a point's "delta"; latency *)
(* is the pair whose quotient the code stores, with 0 requests for nil.    *)
(* Gauges are left out but for their presence: a poll with nothing else    *)
(* still makes a point.  0 stands for a NULL run and for the zero time.    *)
(***************************************************************************)
EXTENDS Integers, Sequences, FiniteSets, Functions

CONSTANTS
  Counters,        \* among "requests", "time" and "errors"
  Exposures,       \* sets of counters and "gauge" a poll may store, {} if it failed
  SampledBuckets,  \* bucket lengths DashboardSeries samples endpoints for
  Buckets,         \* the other bucket lengths, 0 for native resolution
  Slot,            \* length of a slot of the public API
  PollLimit,       \* PublicMetricsPollLimit and dashboardPollLimit
  Retention,       \* clock units the cleaner, which is enabled, keeps before the present one
  MaxPolls, MaxTime, MaxRun, MaxLevel  \* bounds

ASSUME CountersAssumption == Counters \subseteq {"requests", "time", "errors"}

ASSUME BoundAssumption ==
  /\ Slot \in Nat \ {0} /\ PollLimit \in Nat /\ Retention \in Nat
  /\ SampledBuckets \subseteq Nat \ {0} /\ Buckets \subseteq Nat
  /\ MaxPolls \in Nat /\ MaxTime \in Nat /\ MaxRun \in Nat /\ MaxLevel \in Nat

VARIABLES
  now,     \* the wall clock
  level,   \* the application's counters at the last poll
  run,     \* the app run the monitor attributes polls to
  polls,   \* id -> [at, run, samples]
  cutoff,  \* retentionCutoffTracker
  masked   \* history: the application restarted and the monitor did not notice

vars == <<now, level, run, polls, cutoff, masked>>

-----------------------------------------------------------------------------
(* Rows.                                                                   *)

Earlier(p, q) ==
  \/ polls[p].at < polls[q].at
  \/ polls[p].at = polls[q].at /\ p < q

First(S) == CHOOSE p \in S : \A q \in S \ {p} : Earlier(p, q)
Newest(S) == CHOOSE p \in S : \A q \in S \ {p} : Earlier(q, p)

Window(start, end) == {p \in DOMAIN polls : start <= polls[p].at /\ polls[p].at <= end}

\* The polls that have a sample the series reads.
Sampled(S) == {p \in S : DOMAIN polls[p].samples # {}}

CountersOf(p) == Counters \cap DOMAIN polls[p].samples

\* ORDER BY started_at, id
Ordered(S) ==
  [i \in 1..Cardinality(S) |->
     CHOOSE p \in S : Cardinality({q \in S : Earlier(q, p)}) = i - 1]

-----------------------------------------------------------------------------
(* Deltas.                                                                 *)

Baseline(p, k) == [poll |-> p, run |-> polls[p].run, value |-> polls[p].samples[k]]

\* Mutant: the retention cutoff is not part of the query.
PreviousOfAnyAge(start, oldest) ==
  LET before(k) == {p \in DOMAIN polls : polls[p].at < start /\ k \in CountersOf(p)}
  IN  [k \in {c \in Counters : before(c) # {}} |-> Baseline(Newest(before(k)), k)]

\* For each counter, its newest sample before the window; "oldest" is the
\* retention cutoff or the zero time.
PreviousCounterValues(start, oldest) ==
  LET before(k) == {p \in DOMAIN polls :
                      oldest <= polls[p].at /\ polls[p].at < start /\ k \in CountersOf(p)}
  IN  [k \in {c \in Counters : before(c) # {}} |-> Baseline(Newest(before(k)), k)]

\* Mutant: deltas across app runs.
CounterDeltasAcrossRuns(p, previous) ==
  LET usable == {k \in CountersOf(p) \cap DOMAIN previous :
                   previous[k].value <= polls[p].samples[k]}
  IN  [k \in usable |-> polls[p].samples[k] - previous[k].value]

CounterDeltas(p, previous) ==
  LET usable == {k \in CountersOf(p) \cap DOMAIN previous :
                   /\ previous[k].run = polls[p].run
                   /\ previous[k].value <= polls[p].samples[k]}
  IN  [k \in usable |-> polls[p].samples[k] - previous[k].value]

\* Mutant: any two baselines will do.
AnyBaselines(previous, k, l) == k \in DOMAIN previous /\ l \in DOMAIN previous

MatchingBaseline(previous, k, l) ==
  k \in DOMAIN previous /\ l \in DOMAIN previous /\ previous[k].poll = previous[l].poll

NoLatency == [time |-> 0, requests |-> 0]

\* "from" is history: the poll each delta is counted from.
SeriesPoint(p, previous) ==
  LET delta == CounterDeltas(p, previous)
      both(k) == {"requests", k} \subseteq DOMAIN delta /\ MatchingBaseline(previous, "requests", k)
  IN  [poll    |-> p,
       at      |-> polls[p].at,
       run     |-> polls[p].run,
       delta   |-> delta,
       latency |-> IF both("time") THEN [time |-> delta["time"], requests |-> delta["requests"]]
                   ELSE NoLatency,
       paired  |-> both("errors"),
       gauge   |-> "gauge" \in DOMAIN polls[p].samples,
       from    |-> [k \in DOMAIN delta |-> previous[k].poll]]

UpdatePrevious(p, previous) ==
  [k \in DOMAIN previous \cup CountersOf(p) |->
     IF k \in CountersOf(p) THEN Baseline(p, k) ELSE previous[k]]

Points(S, previous) ==
  LET rows == Ordered(Sampled(S))
      read[i \in 0..Cardinality(Sampled(S))] ==
        IF i = 0 THEN previous ELSE UpdatePrevious(rows[i], read[i - 1])
  IN  [i \in 1..Cardinality(Sampled(S)) |-> SeriesPoint(rows[i], read[i - 1])]

-----------------------------------------------------------------------------
(* The three series.                                                       *)

NoPoint == [poll |-> 0]
NoSeries == [points |-> <<>>, first |-> 0, latest |-> NoPoint]

SeriesOf(points) ==
  IF points = <<>> THEN NoSeries
  ELSE [points |-> points, first |-> points[1].poll, latest |-> points[Len(points)]]

Series(start, end) ==
  SeriesOf(Points(Window(start, end), PreviousCounterValues(start, 0)))

\* More polls than the limit are an error of the request.
BoundedSeries(start, end, oldest) ==
  IF Cardinality(Window(start, end)) > PollLimit THEN NoSeries
  ELSE SeriesOf(Points(Window(start, end), PreviousCounterValues(start, oldest)))

Truncate(time, length) == time - (time % length)

\* Mutant: only the last poll of a bucket and run.
LastPollIDs(start, end, bucket) ==
  LET group(p) == {q \in Window(start, end) : /\ polls[q].run = polls[p].run
                                              /\ Truncate(polls[q].at, bucket) = Truncate(polls[p].at, bucket)}
  IN  {p \in Window(start, end) : p = Newest(group(p))}

\* The first and the last poll of every bucket and app run.
DashboardPollIDs(start, end, bucket) ==
  LET group(p) == {q \in Window(start, end) : /\ polls[q].run = polls[p].run
                                              /\ Truncate(polls[q].at, bucket) = Truncate(polls[p].at, bucket)}
  IN  {p \in Window(start, end) : p \in {First(group(p)), Newest(group(p))}}

\* The newest point with its native baselines, searched for in the window only
\* and taken from before it for the counters not found.
NativeLatest(start, end) ==
  LET stamp    == polls[Newest(Sampled(Window(start, end)))].at
      before   == PreviousCounterValues(start, 0)
      within   == IF stamp > start THEN PreviousCounterValues(stamp, start) ELSE <<>>
      previous == [k \in DOMAIN before \cup DOMAIN within |->
                     IF k \in DOMAIN within THEN within[k] ELSE before[k]]
      native   == Points(Window(stamp, end), previous)
  IN  native[Len(native)]

DashboardSeries(start, end, bucket) ==
  LET ids    == DashboardPollIDs(start, end, bucket)
      points == Points(ids, PreviousCounterValues(start, 0))
      native == Sampled(Window(start, end))
  IN  IF bucket \notin SampledBuckets THEN Series(start, end)
      ELSE IF ids = {} \/ Cardinality(ids) > PollLimit THEN Series(start, end)
      ELSE IF native = {} THEN SeriesOf(points)
      ELSE [points |-> points, first |-> First(native), latest |-> NativeLatest(start, end)]

-----------------------------------------------------------------------------
(* The handlers.                                                           *)

ClampToRetention(start) == IF start < cutoff THEN cutoff ELSE start

Cleared(point) == [point EXCEPT !.delta = <<>>, !.latency = NoLatency]

\* clearCutoffCounterBaseline: the first retained point is the new baseline.
ClearCutoffCounterBaseline(series) ==
  LET oldest(i) == /\ series.points[i].at >= cutoff
                   /\ \A j \in DOMAIN series.points :
                        series.points[j].at >= cutoff =>
                          \/ series.points[i].at < series.points[j].at
                          \/ series.points[i].at = series.points[j].at /\ i <= j
      alone == /\ series.first # 0 /\ series.latest # NoPoint
               /\ series.latest.poll = series.first /\ series.latest.at >= cutoff
  IN  [series EXCEPT
         !.points = [i \in DOMAIN @ |-> IF oldest(i) THEN Cleared(@[i]) ELSE @[i]],
         !.latest = IF alone THEN Cleared(@) ELSE @]

Clamped(series, start) == IF start < cutoff THEN ClearCutoffCounterBaseline(series) ELSE series

\* What handleSeries aggregates, and what readPublicMetrics groups.
ClampedSeries(start, end, bucket) ==
  LET from == ClampToRetention(start)
  IN  IF from >= end THEN NoSeries ELSE Clamped(DashboardSeries(from, end, bucket), start)

PublicSeries(start, end) ==
  LET from == ClampToRetention(start)
  IN  IF from >= end THEN NoSeries ELSE Clamped(BoundedSeries(from, end, cutoff), start)

\* sumResult: nil when no point has the counter.
SumOf(points, I) ==
  LET having(k) == {i \in I : k \in DOMAIN points[i].delta}
  IN  [k \in {c \in Counters : having(c) # {}} |->
         SumFunctionOnSet([i \in having(k) |-> points[i].delta[k]], having(k))]

\* weightedResult: every latency counts with its requests.
LatencyOf(points, I) ==
  [time     |-> SumFunctionOnSet([i \in I |-> points[i].latency.time], I),
   requests |-> SumFunctionOnSet([i \in I |-> points[i].latency.requests], I)]

BucketStart(point, start, bucket) ==
  IF Truncate(point.at, bucket) < start THEN start ELSE Truncate(point.at, bucket)

\* The buckets of a series whose points are ordered by time.
AggregateSeries(series, start, bucket) ==
  LET bucketOf(i) == BucketStart(series.points[i], start, bucket)
      starts      == {bucketOf(i) : i \in DOMAIN series.points}
      in(b)       == {i \in DOMAIN series.points : bucketOf(i) = b}
      common(b)   == {series.points[i].run : i \in in(b)}
      point(b)    == [at      |-> b,
                      run     |-> IF Cardinality(common(b)) = 1
                                    THEN CHOOSE r \in common(b) : TRUE ELSE 0,
                      delta   |-> SumOf(series.points, in(b)),
                      latency |-> LatencyOf(series.points, in(b))]
  IN  IF bucket = 0 \/ Cardinality(starts) = Len(series.points) THEN series.points
      ELSE [n \in 1..Cardinality(starts) |->
              point(CHOOSE b \in starts : Cardinality({c \in starts : c < b}) = n - 1)]

\* Errors are published when every request interval of the slot has its own.
SlotErrors(points, I) ==
  LET counted == {i \in I : "requests" \in DOMAIN points[i].delta}
      paired  == {i \in counted : points[i].paired /\ "errors" \in DOMAIN points[i].delta}
  IN  IF counted = {} \/ paired # counted THEN {}
      ELSE {SumFunctionOnSet([i \in paired |-> points[i].delta["errors"]], paired)}

\* GroupPublicMetrics: points with nothing but errors are unusable.
GroupPublicMetrics(series) ==
  LET usable == {i \in DOMAIN series.points :
                   \/ "requests" \in DOMAIN series.points[i].delta
                   \/ series.points[i].latency # NoLatency
                   \/ series.points[i].gauge}
      in(s)  == {i \in usable : Truncate(series.points[i].at, Slot) = s}
  IN  [s \in {Truncate(series.points[i].at, Slot) : i \in usable} |->
         [counts  |-> SumOf(series.points, in(s)),
          latency |-> LatencyOf(series.points, in(s)),
          errors  |-> SlotErrors(series.points, in(s))]]

-----------------------------------------------------------------------------
(* The writers.                                                            *)

\* Between two polls no more errors, and no more seconds, are added than
\* requests.
Grows(from, to) ==
  /\ \A k \in Counters : from[k] <= to[k]
  /\ "requests" \in Counters =>
       \A k \in Counters : to[k] - from[k] <= to["requests"] - from["requests"]

Zero == [k \in Counters |-> 0]

StorePoll(fresh, signals, levels) ==
  LET id == IF polls = <<>> THEN 1 ELSE 1 + CHOOSE p \in DOMAIN polls : \A q \in DOMAIN polls : q <= p
      row == [at      |-> now,
              run     |-> IF signals = {} THEN 0 ELSE run',
              samples |-> [k \in signals |-> IF k = "gauge" THEN 0 ELSE levels[k]]]
  IN  /\ run' \in IF fresh THEN {run, run + 1} ELSE {run}
      /\ masked' = (masked \/ (fresh /\ run' = run))
      /\ Grows(IF fresh THEN Zero ELSE level, levels)
      /\ level' = levels
      /\ polls' = [p \in DOMAIN polls \cup {id} |-> IF p = id THEN row ELSE polls[p]]

\* The monitor stores a poll; "fresh" when the application restarted before it.
Store ==
  /\ Cardinality(DOMAIN polls) < MaxPolls
  /\ \E fresh \in BOOLEAN, signals \in Exposures, levels \in [Counters -> 0..MaxLevel] :
       /\ fresh => signals # {} /\ run < MaxRun
       /\ StorePoll(fresh, signals, levels)
  /\ UNCHANGED <<now, cutoff>>

Tick == now < MaxTime /\ now' = now + 1 /\ UNCHANGED <<level, run, polls, cutoff, masked>>

DeletePollsBefore(time) ==
  polls' = [p \in {q \in DOMAIN polls : polls[q].at >= time} |-> polls[p]]

\* cleanupRetention: a failed deletion leaves the tracker alone.
CleanupRetention ==
  /\ DeletePollsBefore(now - Retention) /\ cutoff' = now - Retention
  /\ UNCHANGED <<now, level, run, masked>>

\* A new tracker, and the cleanup every start begins with.
Restart ==
  /\ cutoff' = now - Retention
  /\ DeletePollsBefore(now - Retention) \/ UNCHANGED polls
  /\ UNCHANGED <<now, level, run, masked>>

Init ==
  /\ now = Retention + 1 /\ cutoff = 1
  /\ level = Zero /\ run = 1 /\ polls = <<>> /\ masked = FALSE

Next == Store \/ Tick \/ CleanupRetention \/ Restart

Spec == Init /\ [][Next]_vars
=============================================================================
