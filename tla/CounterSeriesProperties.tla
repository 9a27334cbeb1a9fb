----------------------- MODULE CounterSeriesProperties -----------------------
(***************************************************************************)
(* What every reader may rely on (module CounterSeries), for every window  *)
(* over the stored history.                                                *)
(***************************************************************************)
EXTENDS CounterSeries

\* Nothing is stored after now: an end of now reads what an end after now does.
Windows ==
  {w \in (1..MaxTime) \X (1..(MaxTime + 1)) : w[1] < w[2] /\ w[2] <= now + 1 /\ w[2] # now}
AllBuckets == Buckets \cup SampledBuckets

\* Every successful poll has every counter.
Complete == \A p \in DOMAIN polls : DOMAIN polls[p].samples \in {{}, Counters}

-----------------------------------------------------------------------------
(* The reference: a delta of a poll does not depend on who reads it.       *)

\* The newest sample of the counter before the poll, in the whole table.
Predecessors(p, k) == {q \in DOMAIN polls : Earlier(q, p) /\ k \in CountersOf(q)}

NativeDelta(p) ==
  LET counted == {k \in CountersOf(p) :
                    /\ Predecessors(p, k) # {}
                    /\ LET q == Newest(Predecessors(p, k))
                       IN  /\ polls[q].run = polls[p].run
                           /\ polls[q].samples[k] <= polls[p].samples[k]}
  IN  [k \in counted |-> polls[p].samples[k] - polls[Newest(Predecessors(p, k))].samples[k]]

\* Whatever window a poll is read through, its deltas are those between it and
\* the newest earlier sample of each counter, within one run and never
\* negative; and every poll with a sample is a point, in order.
WindowsAgree ==
  LET native == [p \in Sampled(DOMAIN polls) |-> NativeDelta(p)]
  IN  \A w \in Windows :
        LET points == Series(w[1], w[2]).points
        IN  /\ \A i \in DOMAIN points : points[i].delta = native[points[i].poll]
            /\ {points[i].poll : i \in DOMAIN points} = Sampled(Window(w[1], w[2]))
            /\ \A i, j \in DOMAIN points : i < j => Earlier(points[i].poll, points[j].poll)

\* The long ranges show the same latest point and the same first poll as the
\* native series, though they read only the endpoints of each bucket.
LatestIsNative ==
  \A w \in Windows, b \in SampledBuckets :
    LET sampled == DashboardSeries(w[1], w[2], b)
        native  == Series(w[1], w[2])
    IN  sampled.latest = native.latest /\ sampled.first = native.first

\* Where every poll has every counter and no restart went unnoticed, sampling
\* endpoints changes no bucket: both series aggregate to the same sums.
SamplingKeepsTotals ==
  Complete /\ ~masked => \A w \in Windows, b \in SampledBuckets :
    LET chart(series) == AggregateSeries(series, w[1], b)
        sampled == chart(DashboardSeries(w[1], w[2], b))
        native  == chart(Series(w[1], w[2]))
    IN  /\ Len(sampled) = Len(native)
        /\ \A i \in DOMAIN native : /\ sampled[i].at = native[i].at
                                    /\ sampled[i].delta = native[i].delta

\* Reading only the endpoints of buckets loses nothing a reader was promised.
SampledMatchesNative == LatestIsNative /\ SamplingKeepsTotals

-----------------------------------------------------------------------------
(* Retention.                                                              *)

CountsFrom(points, time) ==
  \A i \in DOMAIN points : \A k \in DOMAIN points[i].delta :
    points[i].from[k] \notin DOMAIN polls \/ polls[points[i].from[k]].at >= time

\* Where every poll has every counter, a clamped dashboard window counts nothing
\* from before the cutoff, though a failed cleanup left those polls in the table.
ClampedWindowStartsAfresh ==
  Complete => \A w \in Windows, b \in AllBuckets :
    w[1] < cutoff =>
      LET series == ClampedSeries(w[1], w[2], b)
      IN  /\ CountsFrom(series.points, cutoff)
          /\ series.latest # NoPoint => CountsFrom(<<series.latest>>, cutoff)

\* The public API counts nothing from before the cutoff in any window.
PublicStartsAtCutoff ==
  \A w \in Windows : CountsFrom(PublicSeries(w[1], w[2]).points, cutoff)

\* request.go:108, "The first point at or after the retained cutoff is the new
\* counter baseline", and series.go:28, "Counter baselines before retentionCutoff
\* are ineligible": neither reader counts anything from expired polls.
NothingBeforeCutoff == ClampedWindowStartsAfresh /\ PublicStartsAtCutoff

-----------------------------------------------------------------------------
(* Ratios.                                                                 *)

\* docs/api.md:163, "This is a fraction from 0 to 1 when available": a slot has
\* no more errors than requests, though polls miss counters at will.
ErrorsWithinRequests(slots) ==
  \A s \in DOMAIN slots : \A e \in slots[s].errors : e <= slots[s].counts["requests"]

\* Where no request takes more than a second, no point shows an average latency
\* above one: the time and the requests are of the same polls.
LatencyIsOfItsRequests(points) ==
  \A i \in DOMAIN points : points[i].latency.time <= points[i].latency.requests

\* Both hold of every slot of the public API, the second of every bucket of the
\* dashboard too, unless a restart of the application went unnoticed.
RatiosMatch ==
  ~masked => \A w \in Windows :
    /\ LET slots == GroupPublicMetrics(PublicSeries(w[1], w[2]))
       IN  ErrorsWithinRequests(slots) /\ LatencyIsOfItsRequests(slots)
    /\ \A b \in AllBuckets :
         LatencyIsOfItsRequests(
           AggregateSeries(ClampedSeries(w[1], w[2], b), ClampToRetention(w[1]), b))
=============================================================================
