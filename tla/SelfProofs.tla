------------------------------ MODULE SelfProofs ------------------------------
(***************************************************************************)
(* Proofs about the two halves of StatLite's metrics about itself, as      *)
(* MCSelf puts them side by side: SelfResources for any number of scrapes, *)
(* any interval and whatever the operating system says, and SelfMetrics    *)
(* for any handlers, headers, durations and bounds.                        *)
(***************************************************************************)
EXTENDS MCSelf, SumTheorems, SequenceTheorems, TLAPS

-----------------------------------------------------------------------------
(* CPU usage.                                                              *)

\* Times are past, and the CPU time since the last reading was used since the
\* time that reading is noted for, which is that of the snapshot.
Clocked ==
  /\ clock \in Nat \ {0} /\ cpu \in Nat
  /\ asked \in [Scrapes -> 0..clock]
  /\ sampledAt \in 0..clock
  /\ lastCPU.at = sampledAt /\ lastCPU.seconds \in Nat
  /\ sampledAt # 0 => cpu - lastCPU.seconds \in 0..(Cores * (clock - sampledAt))

\* One more unit of time is one more for every core.
LEMMA CoresGrow ==
  ASSUME NEW elapsed \in Nat, NEW n \in 0..(Cores * elapsed), NEW used \in 0..Cores
  PROVE  n + used \in 0..(Cores * (elapsed + 1))
<1>1. Cores \in Nat
  BY TimeAssumption
<1>2. Cores * elapsed \in Nat /\ Cores * (elapsed + 1) = Cores * elapsed + Cores
  BY <1>1
<1> QED  BY <1>1, <1>2

LEMMA ClockedInit == Init => Clocked
  BY DEF Init, Clocked

LEMMA ClockedStep == Clocked /\ [Next]_vars => Clocked'
<1> SUFFICES ASSUME Clocked, [Next]_vars  PROVE Clocked'
  OBVIOUS
<1>1. CASE Tick
  <2>1. PICK used \in 0..Cores : cpu' = cpu + used
    BY <1>1 DEF Tick
  <2>2. clock' = clock + 1 /\ UNCHANGED <<asked, snapshot, sampledAt, lastCPU, sampler>>
    BY <1>1 DEF Tick, server
  <2>3. asked' \in [Scrapes -> 0..clock']
    BY <2>2 DEF Clocked
  <2>4. used \in Nat
    BY TimeAssumption
  <2>5. ASSUME sampledAt # 0
        PROVE  cpu' - lastCPU.seconds \in 0..(Cores * (clock' - sampledAt))
    <3>1. clock - sampledAt \in Nat /\ (clock - sampledAt) + 1 = clock' - sampledAt
      BY <2>2 DEF Clocked
    <3>2. (cpu - lastCPU.seconds) + used \in 0..(Cores * ((clock - sampledAt) + 1))
      BY <2>5, <3>1, CoresGrow DEF Clocked
    <3> QED  BY <2>1, <2>4, <3>1, <3>2 DEF Clocked
  <2> QED  BY <2>1, <2>2, <2>3, <2>4, <2>5 DEF Clocked
<1>2. ASSUME NEW s \in Scrapes, Ask(s)  PROVE Clocked'
  BY <1>2 DEF Ask, Clocked, machine, server
<1>3. ASSUME NEW s \in Scrapes, UseSnapshot(s)  PROVE Clocked'
  BY <1>3 DEF UseSnapshot, Clocked, machine, server
<1>4. ASSUME NEW s \in Scrapes, Sample(s)  PROVE Clocked'
  <2>1. /\ lastCPU' = [at |-> asked[s], seconds |-> cpu, usage |-> Usage(asked[s])]
        /\ sampledAt' = asked[s] /\ clock' = clock /\ cpu' = cpu
        /\ asked' = [asked EXCEPT ![s] = 0]
    BY <1>4 DEF Sample, machine
  <2>2. asked[s] \in 0..clock /\ clock \in Nat /\ cpu \in Nat
    BY DEF Clocked
  <2>3. Cores * (clock - asked[s]) \in Nat
    BY <2>2, TimeAssumption
  <2>4. cpu' - lastCPU'.seconds \in 0..(Cores * (clock' - sampledAt'))
    BY <2>1, <2>2, <2>3
  <2>5. asked' \in [Scrapes -> 0..clock']
    BY <2>1, <2>2 DEF Clocked
  <2> QED  BY <2>1, <2>2, <2>4, <2>5 DEF Clocked
<1>5. CASE UNCHANGED vars
  BY <1>5 DEF vars, machine, server, Clocked
<1> QED  BY <1>1, <1>2, <1>3, <1>4, <1>5 DEF Next

\* A usage is only computed where the last snapshot is older than the interval.
LEMMA UsageStep ==
  ASSUME Clocked, [Next]_vars, lastCPU'.usage # lastCPU.usage
  PROVE  LET elapsed == lastCPU'.at - lastCPU.at
             wait == clock - lastCPU'.at
         IN  /\ elapsed >= Interval
             /\ lastCPU'.usage.num \in 0..(Cores * (elapsed + wait))
             /\ lastCPU'.usage.den = elapsed
<1>1. PICK s \in Scrapes : Sample(s)
  BY DEF Next, Tick, Ask, UseSnapshot, vars, server
<1>2. /\ lastCPU'.at = asked[s] /\ lastCPU'.usage = Usage(asked[s])
      /\ asked[s] # 0 /\ ~Fresh(s)
  BY <1>1 DEF Sample
<1>3. /\ lastCPU.at # 0 /\ asked[s] > lastCPU.at
      /\ lastCPU'.usage = Fraction(cpu - lastCPU.seconds, asked[s] - lastCPU.at)
  BY <1>2 DEF Usage, Measurable
<1>4. asked[s] \in 0..clock /\ lastCPU.at \in 0..clock /\ clock \in Nat
  BY DEF Clocked
<1>5. asked[s] - lastCPU.at >= Interval
  BY <1>2, <1>3, <1>4, TimeAssumption DEF Fresh, Clocked
<1>6. (asked[s] - lastCPU.at) + (clock - asked[s]) = clock - sampledAt
  BY <1>4 DEF Clocked
<1>7. lastCPU'.usage.num \in 0..(Cores * ((asked[s] - lastCPU.at) + (clock - asked[s])))
  BY <1>3, <1>6 DEF Clocked, Fraction
<1> QED  BY <1>2, <1>3, <1>5, <1>7 DEF Fraction

\* A CPU usage is an average over at least the interval, for any number of
\* scrapes in whatever order they get the lock.
THEOREM UsageAveraged == Spec => UsageIsAverage
<1>1. Clocked /\ [Next]_vars =>
        [lastCPU'.usage # lastCPU.usage =>
           LET elapsed == lastCPU'.at - lastCPU.at
               wait == clock - lastCPU'.at
           IN  /\ elapsed >= Interval
               /\ lastCPU'.usage.num \in 0..(Cores * (elapsed + wait))
               /\ lastCPU'.usage.den = elapsed]_vars
  BY UsageStep
<1> QED  BY <1>1, ClockedInit, ClockedStep, PTL DEF Spec, UsageIsAverage

-----------------------------------------------------------------------------
(* The document.                                                           *)

\* What the collector asks of one value, and of a pair of them.
SoundValue(f, value) ==
  /\ value.kind = "number"
  /\ f \in NonNegative => value.num \in Nat
  /\ f = "host_cpu_usage" => value.num <= value.den

SoundValues(metrics) ==
  /\ DOMAIN metrics \subseteq Fields
  /\ \A f \in DOMAIN metrics : SoundValue(f, metrics[f])

SoundPairs(metrics) ==
  \A p \in Pairs : {p.used, p.total} \subseteq DOMAIN metrics =>
    ~Exceeds(metrics[p.used], metrics[p.total])

\* The counters of the host are in range, and what the server keeps of them and
\* of the process are numbers; the snapshot is then sound.
Sound ==
  /\ host \in [total : 0..MaxHost, idle : 0..MaxHost]
  /\ sampler \in [total : 0..MaxHost, idle : 0..MaxHost, have : BOOLEAN]
  /\ lastCPU.usage.kind = "number"
  /\ SoundValues(snapshot) /\ SoundPairs(snapshot)

\* Differences of counters that did not fall do not wrap.
LEMMA NoWrap ==
  ASSUME NEW x \in 0..MaxHost
  PROVE  x % Word = x
BY WordAssumption

LEMMA JoinedValues ==
  ASSUME NEW f, NEW g, SoundValues(f), SoundValues(g)
  PROVE  SoundValues(Joined(f, g))
BY DEF SoundValues, Joined

LEMMA HostUsageSound ==
  ASSUME Sound
  PROVE  SoundValues(HostUsage) /\ DOMAIN HostUsage \subseteq {"host_cpu_usage"}
<1> DEFINE allTicks == (host.total - sampler.total) % Word
           idleTicks == (host.idle - sampler.idle) % Word
           computed == /\ sampler.have /\ host.total >= sampler.total /\ host.idle >= sampler.idle
                       /\ ValidInterval(allTicks, idleTicks)
           usage == Fraction((allTicks - idleTicks) % Word, allTicks)
<1>1. CASE computed
  <2>1. host.total - sampler.total \in 0..MaxHost /\ host.idle - sampler.idle \in 0..MaxHost
    BY <1>1, WordAssumption DEF Sound
  <2>2. allTicks \in 0..MaxHost /\ idleTicks \in 0..MaxHost
    BY <2>1, NoWrap
  <2>3. allTicks - idleTicks \in 0..MaxHost
    BY <1>1, <2>2, WordAssumption DEF ValidInterval
  <2>4. (allTicks - idleTicks) % Word = allTicks - idleTicks
    BY <2>3, NoWrap
  <2> HIDE DEF allTicks, idleTicks
  <2>5. SoundValue("host_cpu_usage", usage)
    BY <2>2, <2>3, <2>4, WordAssumption DEF SoundValue, Fraction, NonNegative
  <2>6. HostUsage = [f \in {"host_cpu_usage"} |-> usage]
    BY <1>1 DEF HostUsage, allTicks, idleTicks
  <2> QED  BY <2>5, <2>6 DEF SoundValues, Fields, NonNegative
<1>2. CASE ~computed
  BY <1>2 DEF HostUsage, NoMetrics, SoundValues
<1> QED  BY <1>1, <1>2

LEMMA CapacitySound ==
  ASSUME NEW reading \in Capacities, NEW pair \in Pairs
  PROVE  LET metrics == Capacity(reading, pair.used, pair.total)
         IN  /\ SoundValues(metrics)
             /\ DOMAIN metrics \subseteq {pair.used, pair.total}
             /\ {pair.used, pair.total} \subseteq DOMAIN metrics =>
                  ~Exceeds(metrics[pair.used], metrics[pair.total])
<1> DEFINE metrics == Capacity(reading, pair.used, pair.total)
<1>1. reading.total \in Nat /\ reading.available \in Nat
  BY CapacitiesAssumption
<1>2. /\ pair.used # pair.total /\ {pair.used, pair.total} \subseteq NonNegative
      /\ "host_cpu_usage" \notin {pair.used, pair.total}
  BY DEF Pairs, NonNegative
<1>3. CASE reading.total # 0 /\ reading.available <= reading.total
  <2>1. metrics = [f \in {pair.used, pair.total} |->
                     Fraction(IF f = pair.used THEN reading.total - reading.available
                              ELSE reading.total, 1)]
    BY <1>3 DEF Capacity
  <2>2. reading.total - reading.available \in Nat
    BY <1>1, <1>3
  <2>3. SoundValues(metrics)
    BY <1>1, <1>2, <2>1, <2>2 DEF SoundValues, SoundValue, Fraction, Fields
  <2>4. ~Exceeds(metrics[pair.used], metrics[pair.total])
    BY <1>1, <1>2, <2>1 DEF Exceeds, Fraction
  <2> QED  BY <2>1, <2>3, <2>4
<1>4. CASE ~(reading.total # 0 /\ reading.available <= reading.total)
  BY <1>4 DEF Capacity, NoMetrics, SoundValues
<1> QED  BY <1>3, <1>4

\* The parts of a snapshot have no field in common, and no pair spans two.
LEMMA SnapshotSound ==
  ASSUME Sound, NEW stat \in BOOLEAN, NEW memory \in Capacities, NEW disk \in Capacities,
         NEW usage, usage.kind = "number"
  PROVE  LET metrics ==
               Joined(IF stat THEN HostUsage ELSE NoMetrics,
                 Joined(Capacity(memory, "host_memory_used_bytes", "host_memory_total_bytes"),
                   Joined(Capacity(disk, "host_disk_used_bytes", "host_disk_total_bytes"),
                     [f \in {"process_cpu_usage"} |-> usage])))
         IN  SoundValues(metrics) /\ SoundPairs(metrics)
<1> DEFINE a == IF stat THEN HostUsage ELSE NoMetrics
           b == Capacity(memory, "host_memory_used_bytes", "host_memory_total_bytes")
           c == Capacity(disk, "host_disk_used_bytes", "host_disk_total_bytes")
           d == [f \in {"process_cpu_usage"} |-> usage]
           metrics == Joined(a, Joined(b, Joined(c, d)))
<1>1. SoundValues(a) /\ DOMAIN a \subseteq {"host_cpu_usage"}
  BY HostUsageSound DEF NoMetrics, SoundValues
<1>2. /\ SoundValues(b)
      /\ DOMAIN b \subseteq {"host_memory_used_bytes", "host_memory_total_bytes"}
      /\ {"host_memory_used_bytes", "host_memory_total_bytes"} \subseteq DOMAIN b =>
           ~Exceeds(b["host_memory_used_bytes"], b["host_memory_total_bytes"])
  <2>1. [used |-> "host_memory_used_bytes", total |-> "host_memory_total_bytes"] \in Pairs
    BY DEF Pairs
  <2> QED  BY <2>1, CapacitySound
<1>3. /\ SoundValues(c)
      /\ DOMAIN c \subseteq {"host_disk_used_bytes", "host_disk_total_bytes"}
      /\ {"host_disk_used_bytes", "host_disk_total_bytes"} \subseteq DOMAIN c =>
           ~Exceeds(c["host_disk_used_bytes"], c["host_disk_total_bytes"])
  <2>1. [used |-> "host_disk_used_bytes", total |-> "host_disk_total_bytes"] \in Pairs
    BY DEF Pairs
  <2> QED  BY <2>1, CapacitySound
<1>4. SoundValues(d) /\ DOMAIN d = {"process_cpu_usage"}
  BY DEF SoundValues, SoundValue, Fields, NonNegative
<1> HIDE DEF a, b, c, d
<1>5. SoundValues(metrics)
  BY <1>1, <1>2, <1>3, <1>4, JoinedValues
<1>6. SoundPairs(metrics)
  BY <1>1, <1>2, <1>3, <1>4 DEF SoundPairs, Pairs, Joined
<1> QED  BY <1>5, <1>6 DEF a, b, c, d

LEMMA SoundInit == Init => Sound
BY WordAssumption DEF Init, Sound, Zero, Fraction, NoMetrics, SoundValues, SoundPairs

LEMMA SoundStep == Sound /\ [Next]_vars => Sound'
<1> SUFFICES ASSUME Sound, [Next]_vars  PROVE Sound'
  OBVIOUS
<1>1. CASE Tick
  <2>1. PICK busy \in {-1, 0, 1}, idle \in {-1, 0, 1} :
          host' = [total |-> host.total + busy + idle, idle |-> host.idle + idle]
    BY <1>1 DEF Tick
  <2>2. host'.idle \in 0..MaxHost /\ host'.total \in host'.idle..MaxHost
    BY <1>1 DEF Tick
  <2>3. host' \in [total : 0..MaxHost, idle : 0..MaxHost]
    BY <2>1, <2>2, WordAssumption
  <2>4. UNCHANGED server
    BY <1>1 DEF Tick
  <2> QED  BY <2>3, <2>4 DEF Sound, server, SoundValues, SoundPairs
<1>2. ASSUME NEW s \in Scrapes, Ask(s) \/ UseSnapshot(s)  PROVE Sound'
  BY <1>2 DEF Ask, UseSnapshot, machine, server, Sound, SoundValues, SoundPairs
<1>3. ASSUME NEW s \in Scrapes, Sample(s)  PROVE Sound'
  <2>1. PICK stat \in BOOLEAN, memory \in Capacities, disk \in Capacities :
          /\ sampler' = IF stat
                        THEN [total |-> host.total, idle |-> host.idle, have |-> TRUE]
                        ELSE sampler
          /\ snapshot' =
               Joined(IF stat THEN HostUsage ELSE NoMetrics,
                 Joined(Capacity(memory, "host_memory_used_bytes", "host_memory_total_bytes"),
                   Joined(Capacity(disk, "host_disk_used_bytes", "host_disk_total_bytes"),
                     [f \in {"process_cpu_usage"} |-> Usage(asked[s])])))
    BY <1>3 DEF Sample
  <2>2. Usage(asked[s]).kind = "number"
    BY DEF Usage, Fraction, Sound
  <2>3. SoundValues(snapshot') /\ SoundPairs(snapshot')
    BY <2>1, <2>2, SnapshotSound
  <2>4. host' = host /\ lastCPU'.usage = Usage(asked[s])
    BY <1>3 DEF Sample, machine
  <2>5. sampler' \in [total : 0..MaxHost, idle : 0..MaxHost, have : BOOLEAN]
    BY <2>1 DEF Sound
  <2> QED  BY <2>2, <2>3, <2>4, <2>5 DEF Sound, SoundValues, SoundPairs
<1>4. CASE UNCHANGED vars
  BY <1>4 DEF vars, machine, server, Sound, SoundValues, SoundPairs
<1> QED  BY <1>1, <1>2, <1>3, <1>4 DEF Next

\* What is sound, and encoded with any counters, is taken whole.
LEMMA SoundCollects == Sound => DocumentsCollect
<1> SUFFICES ASSUME Sound, NEW n \in Totals
             PROVE  LET result == Collect(SelfDocument(n))
                    IN  /\ result.ok /\ result.warnings = {}
                        /\ DOMAIN result.samples = DOMAIN SelfDocument(n).metrics
  BY DEF DocumentsCollect
<1> DEFINE counters == [f \in CounterFields \cup {"runtime_heap_used_bytes", "uptime_seconds"} |->
                          Fraction(n, 1)]
           metrics == Joined(snapshot, counters)
<1>1. SelfDocument(n).metrics = metrics /\ Usable(SelfDocument(n))
  BY DEF SelfDocument, Usable
<1>2. SoundValues(counters)
  BY TotalsAssumption DEF SoundValues, SoundValue, CounterFields, Fields, NonNegative, Fraction
<1>3. SoundValues(metrics)
  BY <1>2, JoinedValues DEF Sound
<1>4. SoundPairs(metrics)
  BY DEF Sound, SoundPairs, Pairs, Joined, CounterFields
<1> HIDE DEF metrics
<1>5. Readable(metrics) = DOMAIN metrics
  BY <1>3 DEF SoundValues, SoundValue, Readable
<1>6. Mismatched(metrics) = {}
  BY <1>4, <1>5 DEF SoundPairs, Mismatched
<1>7. DOMAIN Collected(metrics) = DOMAIN metrics /\ InvalidMetrics(metrics) = {}
  BY <1>5, <1>6 DEF Collected, InvalidMetrics
<1>8. InvalidText(SelfDocument(n)) = {} /\ SelfDocument(n).started_at = "given"
  BY DEF InvalidText, SelfDocument
<1> QED  BY <1>1, <1>7, <1>8 DEF Collect

\* A StatLite that polls this one takes every value of every document, whatever
\* the counters of the host do and whichever readings fail.
THEOREM DocumentsCollected == Spec => []DocumentsCollect
BY SoundInit, SoundStep, SoundCollects, PTL DEF Spec

-----------------------------------------------------------------------------
(* The sums of the request counters.                                       *)

Answering == {"load_max", "swap_max", "404", "4xx", "5xx"}
Positions == {"idle", "handler"} \cup Answering
Summed == {"requests", "404", "4xx", "5xx", "duration"}

\* What an answer adds to a counter, and what of it a handler at a position has
\* added although the request is not finished.
Weight(c, status, duration) ==
  CASE c = "requests" -> 1
    [] c = "404" -> IF status = 404 THEN 1 ELSE 0
    [] c = "4xx" -> IF status \in 400..499 THEN 1 ELSE 0
    [] c = "5xx" -> IF status >= 500 THEN 1 ELSE 0
    [] c = "duration" -> duration

Added(c, position) ==
  CASE c = "requests" -> position # "idle"
    [] c = "404" -> position \in {"4xx", "5xx"}
    [] c = "4xx" -> position = "5xx"
    [] c = "5xx" -> FALSE
    [] c = "duration" -> position \in Answering

Due(c, position, status, duration) ==
  IF Added(c, position) THEN Weight(c, status, duration) ELSE 0

Finished(c) == [a \in Requests!Answers |-> answered[a] * Weight(c, a.status, a.took)]
Pending(c) == [h \in Handlers |-> Due(c, pc[h], recorder[h].status, took[h])]

\* Every counter is what the finished requests and the ones in flight added.
Accounted ==
  \A c \in Summed :
    total[c] = SumFunctionOnSet(Finished(c), Requests!Answers)
                 + SumFunctionOnSet(Pending(c), Handlers)

\* A recorder remembers the status that was sent, and 200 before there is one.
Sendable == {200} \cup Headers
Recorders ==
  {r \in [status : Sendable, wrote : BOOLEAN, sent : {0} \cup Sendable, writes : Nat] :
     /\ r.wrote = (r.sent # 0)
     /\ r.status = IF r.sent = 0 THEN 200 ELSE r.sent}

HandlersTyped ==
  /\ total \in [Requests!Counters -> Nat]
  /\ pc \in [Handlers -> Positions]
  /\ recorder \in [Handlers -> Recorders]
  /\ took \in [Handlers -> Nat]
  /\ \A h \in Handlers : pc[h] \in Answering => took[h] \in Durations
  /\ answered \in [Requests!Answers -> Nat]

LEMMA MetricsSum ==
  ASSUME NEW f, NEW S
  PROVE  /\ Requests!SumFunctionOnSet(f, S) = SumFunctionOnSet(f, S)
         /\ Requests!SumFunction(f) = SumFunctionOnSet(f, DOMAIN f)
BY Zenon DEF Requests!SumFunctionOnSet, Requests!FoldFunctionOnSet, Requests!MapThenFoldSet,
             Requests!SumFunction, SumFunctionOnSet, FoldFunctionOnSet, MapThenFoldSet

LEMMA SendableType ==
  /\ Sendable \subseteq Nat /\ \A s \in Sendable : s >= 100 /\ s <= 599
  /\ IsFiniteSet(Sendable)
<1>1. Headers \subseteq 100..599 /\ IsFiniteSet(100..599)
  <2>1. 100 \in Int /\ 599 \in Int
    OBVIOUS
  <2>3. \A m, n \in Int : IsFiniteSet(m..n)
    BY ONLY FS_Interval, Zenon
  <2>2. IsFiniteSet(100..599)
    BY ONLY <2>1, <2>3, Zenon
  <2> QED
    BY <2>2, HeadersAssumption
<1>2. IsFiniteSet(Headers)
  BY ONLY <1>1, FS_Subset, Zenon
<1>3. IsFiniteSet(Sendable)
  BY <1>2, FS_Singleton, FS_Union DEF Sendable
<1> QED
  BY <1>1, <1>3 DEF Sendable

LEMMA AnswersFinite == IsFiniteSet(Requests!Answers)
<1> DEFINE pairs == Sendable \X Durations
           answer == [p \in pairs |-> [status |-> p[1], took |-> p[2]]]
<1>1. IsFiniteSet(pairs)
  BY SendableType, DurationsAssumption, FS_Product
<1>2. answer \in Surjection(pairs, Requests!Answers)
  <2>1. \A p \in pairs : answer[p] \in Requests!Answers
    BY DEF Requests!Answers, Sendable
  <2>2. ASSUME NEW a \in Requests!Answers PROVE \E p \in pairs : answer[p] = a
    <3>1. a.status \in Sendable /\ a.took \in Durations /\ a = [status |-> a.status, took |-> a.took]
      BY DEF Requests!Answers, Sendable
    <3>2. <<a.status, a.took>> \in pairs
      BY <3>1
    <3>3. answer[<<a.status, a.took>>] = a
      BY <3>1, <3>2
    <3> QED
      BY <3>2, <3>3
  <2> QED
    BY <2>1, <2>2 DEF Surjection
<1> HIDE DEF pairs, answer
<1> QED
  BY ONLY <1>1, <1>2, FS_Surjection

LEMMA WeightType ==
  ASSUME NEW c \in Summed, NEW s \in Sendable, NEW d \in Nat
  PROVE  Weight(c, s, d) \in Nat
BY DEF Weight, Summed

LEMMA FinishedType ==
  ASSUME HandlersTyped, NEW c \in Summed
  PROVE  \A a \in Requests!Answers : Finished(c)[a] \in Nat
<1> SUFFICES ASSUME NEW a \in Requests!Answers PROVE Finished(c)[a] \in Nat
  OBVIOUS
<1>1. a.status \in Sendable /\ a.took \in Nat
  BY DurationsAssumption DEF Requests!Answers, Sendable
<1>2. Weight(c, a.status, a.took) \in Nat
  BY <1>1, WeightType
<1>3. answered[a] \in Nat
  BY DEF HandlersTyped
<1>4. Finished(c)[a] = answered[a] * Weight(c, a.status, a.took)
  BY DEF Finished
<1> QED
  BY ONLY <1>2, <1>3, <1>4

LEMMA PendingType ==
  ASSUME HandlersTyped, NEW c \in Summed
  PROVE  \A h \in Handlers :
           /\ Pending(c)[h] = Due(c, pc[h], recorder[h].status, took[h])
           /\ Pending(c)[h] \in Nat
<1> SUFFICES ASSUME NEW h \in Handlers
             PROVE  /\ Pending(c)[h] = Due(c, pc[h], recorder[h].status, took[h])
                    /\ Pending(c)[h] \in Nat
  OBVIOUS
<1>1. recorder[h].status \in Sendable /\ took[h] \in Nat
  BY DEF HandlersTyped, Recorders
<1>2. Pending(c)[h] = Due(c, pc[h], recorder[h].status, took[h])
  BY DEF Pending
<1>3. Due(c, pc[h], recorder[h].status, took[h]) \in Nat
  BY <1>1, WeightType DEF Due
<1> QED
  BY <1>2, <1>3

\* A sum of which one summand changes.
LEMMA SumChange ==
  ASSUME NEW S, IsFiniteSet(S), NEW f, NEW g, NEW x \in S,
         \A y \in S : f[y] \in Nat /\ g[y] \in Nat, \A y \in S \ {x} : g[y] = f[y]
  PROVE  /\ SumFunctionOnSet(g, S) + f[x] = SumFunctionOnSet(f, S) + g[x]
         /\ SumFunctionOnSet(g, S) \in Nat /\ SumFunctionOnSet(f, S) \in Nat
<1> DEFINE R == S \ {x}
<1>1. IsFiniteSet(R) /\ \A y \in R : f[y] \in Nat /\ g[y] \in Nat
  BY FS_Subset
<1>2. SumFunctionOnSet(f, S) = f[x] + SumFunctionOnSet(f, R)
  BY SumRemove
<1>3. SumFunctionOnSet(g, S) = g[x] + SumFunctionOnSet(g, R)
  BY SumRemove
<1>4. SumFunctionOnSet(f, R) = SumFunctionOnSet(g, R)
  BY <1>1, SumSame
<1>5. SumFunctionOnSet(f, R) \in Nat
  BY <1>1, SumType
<1> QED
  BY ONLY <1>2, <1>3, <1>4, <1>5, f[x] \in Nat, g[x] \in Nat

\* Ones add up to as many as there are.
LEMMA SumOfOnes ==
  ASSUME NEW S, IsFiniteSet(S), NEW f, \A x \in S : f[x] \in {0, 1}
  PROVE  SumFunctionOnSet(f, S) <= Cardinality(S)
<1> DEFINE T == {s \in SUBSET S : SumFunctionOnSet(f, s) <= Cardinality(s)}
<1>1. {} \in T
  BY SumEmpty, FS_EmptySet
<1>2. ASSUME NEW s \in SUBSET S, s \in T, NEW x \in S \ s PROVE s \cup {x} \in T
  <2>1. IsFiniteSet(s)
    BY FS_Subset
  <2>2. Cardinality(s \cup {x}) = Cardinality(s) + 1 /\ Cardinality(s) \in Nat
    BY <2>1, FS_AddElement, FS_CardinalityType
  <2>3. SumFunctionOnSet(f, s \cup {x}) = f[x] + SumFunctionOnSet(f, s)
        /\ SumFunctionOnSet(f, s) \in Nat
    BY <2>1, SumAdd, SumType
  <2> QED
    BY <1>2, <2>2, <2>3
<1> HIDE DEF T
<1>3. S \in T
  BY <1>1, <1>2, SubsetInduction
<1> QED
  BY <1>3 DEF T

PendingIsDue ==
  \A c \in Summed : \A h \in Handlers :
    /\ Pending(c)[h] = Due(c, pc[h], recorder[h].status, took[h])
    /\ Pending(c)[h] \in Nat

LEMMA PendingNext == HandlersTyped => PendingIsDue
BY PendingType DEF PendingIsDue

FinishedIsNumber == \A c \in Summed : \A a \in Requests!Answers : Finished(c)[a] \in Nat

LEMMA FinishedNext == HandlersTyped => FinishedIsNumber
BY FinishedType DEF FinishedIsNumber

\* A step of one handler that adds to the counters what it owes them.
LEMMA AccountStep ==
  ASSUME HandlersTyped, HandlersTyped', Accounted, NEW h \in Handlers,
         \A k \in Handlers \ {h} :
           pc'[k] = pc[k] /\ recorder'[k] = recorder[k] /\ took'[k] = took[k],
         UNCHANGED answered,
         \A c \in Summed :
           total'[c] + Due(c, pc[h], recorder[h].status, took[h])
             = total[c] + Due(c, pc'[h], recorder'[h].status, took'[h])
  PROVE  Accounted'
<1> SUFFICES ASSUME NEW c \in Summed
             PROVE  total'[c] = SumFunctionOnSet(Finished(c)', Requests!Answers)
                                  + SumFunctionOnSet(Pending(c)', Handlers)
  BY DEF Accounted, Requests!Answers
<1> DEFINE f == Pending(c)
           g == Pending(c)'
           done == SumFunctionOnSet(Finished(c), Requests!Answers)
<1>1. Finished(c)' = Finished(c)
  BY DEF Finished, Requests!Answers
<1>2. \A k \in Handlers : f[k] \in Nat /\ f[k] = Due(c, pc[k], recorder[k].status, took[k])
  BY PendingNext DEF PendingIsDue
<1>3. \A k \in Handlers : g[k] \in Nat /\ g[k] = Due(c, pc'[k], recorder'[k].status, took'[k])
  <2>1. PendingIsDue'
    BY HandlersTyped', PendingNext, PTL
  <2> QED
    BY <2>1 DEF PendingIsDue
<1>4. \A k \in Handlers \ {h} : g[k] = f[k]
  BY <1>2, <1>3
<1>5. total[c] = done + SumFunctionOnSet(f, Handlers) /\ total[c] \in Nat /\ total'[c] \in Nat
  BY DEF Accounted, HandlersTyped, Summed, Requests!Counters
<1>6. done \in Nat
  BY FinishedType, AnswersFinite, SumType
<1>7. total'[c] + f[h] = total[c] + g[h]
  BY <1>2, <1>3
<1>8. f[h] \in Nat /\ g[h] \in Nat
  BY <1>2, <1>3
<1>10. \A k \in Handlers : f[k] \in Nat /\ g[k] \in Nat
  BY <1>2, <1>3
<1> HIDE DEF f, g, done
<1>9. /\ SumFunctionOnSet(g, Handlers) + f[h] = SumFunctionOnSet(f, Handlers) + g[h]
      /\ SumFunctionOnSet(g, Handlers) \in Nat /\ SumFunctionOnSet(f, Handlers) \in Nat
  BY ONLY <1>4, <1>10, h \in Handlers, HandlersAssumption, SumChange
<1>11. total'[c] = done + SumFunctionOnSet(g, Handlers)
  BY ONLY <1>5, <1>6, <1>7, <1>8, <1>9
<1> QED
  BY <1>1, <1>11 DEF g, done

LEMMA SomeoneElse ==
  ASSUME HandlersTyped, NEW h \in Handlers
  PROVE  /\ \A step : [pc EXCEPT ![h] = step][h] = step
         /\ \A step : \A k \in Handlers \ {h} : [pc EXCEPT ![h] = step][k] = pc[k]
BY DEF HandlersTyped

\* What is added to one counter is not added to another.
LEMMA AddTo ==
  ASSUME HandlersTyped, NEW c \in Requests!Counters, NEW n \in Nat, Requests!Add(c, n)
  PROVE  /\ total' \in [Requests!Counters -> Nat]
         /\ total'[c] = total[c] + n
         /\ \A k \in Requests!Counters \ {c} : total'[k] = total[k]
BY DEF HandlersTyped, Requests!Add

LEMMA RecorderFields ==
  ASSUME NEW A, NEW B,
         NEW r \in [status : A, wrote : BOOLEAN, sent : B, writes : Nat],
         NEW a \in A, NEW b \in B, NEW w
  PROVE  /\ [r EXCEPT !.sent = b, !.writes = @ + 1]
              = [status |-> r.status, wrote |-> r.wrote, sent |-> b, writes |-> r.writes + 1]
         /\ [r EXCEPT !.status = a, !.wrote = w, !.sent = b, !.writes = @ + 1]
              = [status |-> a, wrote |-> w, sent |-> b, writes |-> r.writes + 1]
         /\ r.status \in A /\ r.wrote \in BOOLEAN /\ r.sent \in B /\ r.writes + 1 \in Nat
<1>1. /\ r.status \in A /\ r.wrote \in BOOLEAN /\ r.sent \in B /\ r.writes \in Nat
      /\ r = [status |-> r.status, wrote |-> r.wrote, sent |-> r.sent, writes |-> r.writes]
  OBVIOUS
<1>2. [r EXCEPT !.sent = b, !.writes = @ + 1]
        = [status |-> r.status, wrote |-> r.wrote, sent |-> b, writes |-> r.writes + 1]
  <2> DEFINE u == [r EXCEPT !.sent = b]
  <2>1. u = [status |-> r.status, wrote |-> r.wrote, sent |-> b, writes |-> r.writes]
    BY ONLY <1>1
  <2> HIDE DEF u
  <2>2. [u EXCEPT !.writes = r.writes + 1]
          = [status |-> r.status, wrote |-> r.wrote, sent |-> b, writes |-> r.writes + 1]
    BY ONLY <2>1
  <2>3. [r EXCEPT !.sent = b, !.writes = @ + 1] = [u EXCEPT !.writes = r.writes + 1]
    BY ONLY <1>1 DEF u
  <2> QED
    BY ONLY <2>2, <2>3
<1>3. [r EXCEPT !.status = a, !.wrote = w, !.sent = b, !.writes = @ + 1]
        = [status |-> a, wrote |-> w, sent |-> b, writes |-> r.writes + 1]
  <2> DEFINE u == [r EXCEPT !.status = a]
             v == [u EXCEPT !.wrote = w]
             x == [v EXCEPT !.sent = b]
  <2>1. u = [status |-> a, wrote |-> r.wrote, sent |-> r.sent, writes |-> r.writes]
    BY ONLY <1>1
  <2>4. [r EXCEPT !.status = a, !.wrote = w, !.sent = b, !.writes = @ + 1]
          = [v EXCEPT !.sent = b, !.writes = r.writes + 1]
    BY ONLY <1>1
  <2> HIDE DEF u
  <2>2. v = [status |-> a, wrote |-> w, sent |-> r.sent, writes |-> r.writes]
    BY ONLY <2>1
  <2> HIDE DEF v
  <2>5. x = [status |-> a, wrote |-> w, sent |-> b, writes |-> r.writes]
    BY ONLY <2>2
  <2>6. [v EXCEPT !.sent = b, !.writes = r.writes + 1] = [x EXCEPT !.writes = r.writes + 1]
    BY ONLY <2>2
  <2> HIDE DEF x
  <2>3. [x EXCEPT !.writes = r.writes + 1]
          = [status |-> a, wrote |-> w, sent |-> b, writes |-> r.writes + 1]
    BY ONLY <2>5
  <2> QED
    BY ONLY <2>3, <2>4, <2>6
<1> QED
  BY ONLY <1>1, <1>2, <1>3

LEMMA FirstHeaderType ==
  ASSUME NEW r \in Recorders, NEW status \in Sendable
  PROVE  Requests!FirstHeader(r, status) \in Recorders
<1>1. /\ status \in Nat /\ status >= 100
  BY SendableType
<1>2. /\ r \in [status : Sendable, wrote : BOOLEAN, sent : {0} \cup Sendable, writes : Nat]
      /\ r.wrote = (r.sent # 0)
      /\ r.status = IF r.sent = 0 THEN 200 ELSE r.sent
  BY DEF Recorders
<1> DEFINE q == Requests!FirstHeader(r, status)
           B == {0} \cup Sendable
<1>5. status \in Sendable /\ status \in B /\ r.sent \in B /\ B = {0} \cup Sendable
  BY <1>2
<1>6. Recorders = {e \in [status : Sendable, wrote : BOOLEAN, sent : B, writes : Nat] :
                     e.wrote = (e.sent # 0) /\ e.status = IF e.sent = 0 THEN 200 ELSE e.sent}
  BY DEF Recorders
<1>7. r \in [status : Sendable, wrote : BOOLEAN, sent : B, writes : Nat]
  BY <1>2
<1> HIDE DEF B
<1>3. CASE r.wrote \/ Requests!Informational(status)
  <2>1. Requests!Sent(r, status) = r.sent
    BY <1>2, <1>3 DEF Requests!Sent
  <2>2. q = [r EXCEPT !.sent = r.sent, !.writes = @ + 1]
    BY <1>3, <2>1 DEF Requests!FirstHeader
  <2>3. q = [status |-> r.status, wrote |-> r.wrote, sent |-> r.sent, writes |-> r.writes + 1]
        /\ r.status \in Sendable /\ r.wrote \in BOOLEAN /\ r.sent \in B /\ r.writes + 1 \in Nat
    BY ONLY <1>5, <1>7, <2>2, RecorderFields
  <2>4. q \in [status : Sendable, wrote : BOOLEAN, sent : B, writes : Nat]
    BY ONLY <2>3
  <2> QED
    BY <1>2, <1>6, <2>3, <2>4
<1>4. CASE ~(r.wrote \/ Requests!Informational(status))
  <2>1. Requests!Sent(r, status) = status
    BY <1>2, <1>4 DEF Requests!Sent
  <2>2. q = [r EXCEPT !.status = status, !.wrote = TRUE, !.sent = status, !.writes = @ + 1]
    BY <1>4, <2>1 DEF Requests!FirstHeader
  <2>3. q = [status |-> status, wrote |-> TRUE, sent |-> status, writes |-> r.writes + 1]
        /\ r.writes + 1 \in Nat
    BY ONLY <1>5, <1>7, <2>2, RecorderFields
  <2>4. q \in [status : Sendable, wrote : BOOLEAN, sent : B, writes : Nat]
    BY ONLY <1>5, <2>3
  <2>5. q.status = status /\ q.wrote = TRUE /\ q.sent = status
    BY ONLY <2>3
  <2>6. status # 0
    BY ONLY <1>1
  <2> HIDE DEF q
  <2>7. q \in Recorders
    BY ONLY <1>6, <2>4, <2>5, <2>6
  <2> QED
    BY <2>7 DEF q
<1> QED
  BY <1>3, <1>4

\* What a handler has added where it is.
LEMMA DueAt ==
  ASSUME NEW c \in Summed, NEW s, NEW d
  PROVE  /\ Due(c, "idle", s, d) = 0
         /\ Due(c, "handler", s, d) = IF c = "requests" THEN 1 ELSE 0
         /\ \A p \in {"load_max", "swap_max", "404", "4xx", "5xx"} :
              Due(c, p, s, d) =
                IF c = "requests" THEN 1
                ELSE IF c = "duration" THEN d
                ELSE IF c = "404" /\ p \in {"4xx", "5xx"} /\ s = 404 THEN 1
                ELSE IF c = "4xx" /\ p = "5xx" /\ s \in 400..499 THEN 1
                ELSE 0
<1>1. CASE c = "requests"
  BY <1>1 DEF Due, Added, Weight
<1>2. CASE c = "duration"
  BY <1>2 DEF Due, Added, Weight, Answering
<1>3. CASE c = "404"
  BY <1>3 DEF Due, Added, Weight
<1>4. CASE c = "4xx"
  BY <1>4 DEF Due, Added, Weight
<1>5. CASE c = "5xx"
  BY <1>5 DEF Due, Added, Weight
<1> QED
  BY <1>1, <1>2, <1>3, <1>4, <1>5 DEF Summed

\* The maximum is the longest duration of the requests that are past it.
Past == {"404", "4xx", "5xx"}
MaximumIsLongest ==
  /\ \A a \in Requests!Answers : answered[a] > 0 => a.took <= total["max"]
  /\ \A h \in Handlers : pc[h] \in Past => took[h] <= total["max"]
  /\ \A h \in Handlers : pc[h] = "swap_max" => took[h] > current[h]
  /\ total["max"] # 0 =>
       \/ \E a \in Requests!Answers : answered[a] > 0 /\ a.took = total["max"]
       \/ \E h \in Handlers : pc[h] \in Past /\ took[h] = total["max"]

CountersInvariant ==
  /\ HandlersTyped /\ current \in [Handlers -> Nat]
  /\ Accounted /\ MaximumIsLongest

LEMMA MaximumKept ==
  ASSUME HandlersTyped, MaximumIsLongest, total'["max"] = total["max"], UNCHANGED answered,
         NEW h \in Handlers,
         \A k \in Handlers \ {h} :
           pc'[k] = pc[k] /\ took'[k] = took[k] /\ current'[k] = current[k],
         pc[h] \in Past => pc'[h] \in Past /\ took'[h] = took[h],
         pc'[h] \in Past => took'[h] <= total["max"],
         pc'[h] = "swap_max" => took'[h] > current'[h]
  PROVE  MaximumIsLongest'
<1>1. \A a \in Requests!Answers' : answered'[a] > 0 => a.took <= total'["max"]
  BY DEF MaximumIsLongest, Requests!Answers
<1>2. ASSUME NEW k \in Handlers PROVE pc'[k] \in Past => took'[k] <= total'["max"]
  BY DEF MaximumIsLongest
<1>3. ASSUME NEW k \in Handlers PROVE pc'[k] = "swap_max" => took'[k] > current'[k]
  BY DEF MaximumIsLongest
<1>4. ASSUME total'["max"] # 0
      PROVE  \/ \E a \in Requests!Answers' : answered'[a] > 0 /\ a.took = total'["max"]
             \/ \E k \in Handlers : pc'[k] \in Past /\ took'[k] = total'["max"]
  <2>1. CASE \E a \in Requests!Answers : answered[a] > 0 /\ a.took = total["max"]
    BY <2>1 DEF Requests!Answers
  <2>2. ASSUME NEW k \in Handlers, pc[k] \in Past, took[k] = total["max"]
        PROVE  pc'[k] \in Past /\ took'[k] = total'["max"]
    BY <2>2
  <2> QED
    BY <1>4, <2>1, <2>2 DEF MaximumIsLongest
<1> QED
  BY <1>1, <1>2, <1>3, <1>4 DEF MaximumIsLongest, Past

\* What a handler does to its own variables leaves those of the others alone.
LEMMA OneMoves ==
  ASSUME HandlersTyped, NEW h \in Handlers, NEW step \in Positions, Requests!Goto(h, step)
  PROVE  /\ pc' \in [Handlers -> Positions] /\ pc'[h] = step
         /\ \A k \in Handlers \ {h} : pc'[k] = pc[k]
BY DEF HandlersTyped, Requests!Goto

LEMMA BeginStep ==
  ASSUME CountersInvariant, NEW h \in Handlers, Requests!Begin(h)
  PROVE  CountersInvariant' /\ total'["4xx"] >= total["4xx"]
<1>1. /\ HandlersTyped /\ current \in [Handlers -> Nat] /\ Accounted /\ MaximumIsLongest
  BY DEF CountersInvariant
<1>2. /\ pc[h] = "idle" /\ Requests!Add("requests", 1) /\ Requests!Goto(h, "handler")
      /\ UNCHANGED <<recorder, took, current, answered>>
  BY DEF Requests!Begin
<1>3. /\ pc' \in [Handlers -> Positions] /\ pc'[h] = "handler"
      /\ \A k \in Handlers \ {h} : pc'[k] = pc[k]
  BY <1>1, <1>2, OneMoves DEF Positions
<1>4. /\ total' \in [Requests!Counters -> Nat] /\ total'["requests"] = total["requests"] + 1
      /\ \A c \in Requests!Counters \ {"requests"} : total'[c] = total[c]
  <2>1. "requests" \in Requests!Counters /\ 1 \in Nat
    BY DEF Requests!Counters
  <2> QED
    BY ONLY <1>1, <1>2, <2>1, AddTo
<1>5. HandlersTyped'
  BY <1>1, <1>2, <1>3, <1>4 DEF HandlersTyped, Answering, Requests!Answers, Requests!Counters, Recorders, Sendable
<1>6. \A c \in Summed :
        total'[c] + Due(c, pc[h], recorder[h].status, took[h])
          = total[c] + Due(c, pc'[h], recorder'[h].status, took'[h])
  <2> SUFFICES ASSUME NEW c \in Summed
               PROVE  total'[c] + Due(c, "idle", recorder[h].status, took[h])
                        = total[c] + Due(c, "handler", recorder'[h].status, took'[h])
    BY <1>2, <1>3
  <2>1. total'[c] = total[c] + (IF c = "requests" THEN 1 ELSE 0) /\ total[c] \in Nat
    BY <1>1, <1>4 DEF Summed, Requests!Counters, HandlersTyped
  <2> QED
    BY ONLY <2>1, DueAt, c \in Summed
<1>7. Accounted'
  BY <1>1, <1>2, <1>3, <1>5, <1>6, AccountStep
<1>8. MaximumIsLongest'
  BY <1>1, <1>2, <1>3, <1>4, MaximumKept DEF Past, Requests!Counters
<1>9. total'["4xx"] = total["4xx"] /\ total["4xx"] \in Nat
  BY <1>1, <1>4 DEF Requests!Counters, HandlersTyped
<1> QED
  BY <1>1, <1>2, <1>5, <1>7, <1>8, <1>9 DEF CountersInvariant

LEMMA HeaderStep ==
  ASSUME CountersInvariant, NEW h \in Handlers, Requests!WriteHeader(h) \/ Requests!Write(h)
  PROVE  CountersInvariant' /\ total'["4xx"] >= total["4xx"]
<1>1. /\ HandlersTyped /\ current \in [Handlers -> Nat] /\ Accounted /\ MaximumIsLongest
  BY DEF CountersInvariant
<1>2. PICK status \in Sendable : recorder' = [recorder EXCEPT ![h] = Requests!FirstHeader(@, status)]
  BY DEF Requests!WriteHeader, Requests!Write, Sendable
<1>3. /\ pc[h] = "handler" /\ UNCHANGED <<total, pc, took, current, answered>>
  BY DEF Requests!WriteHeader, Requests!Write
<1>4. /\ recorder' \in [Handlers -> Recorders]
      /\ \A k \in Handlers \ {h} : recorder'[k] = recorder[k]
  <2>1. recorder[h] \in Recorders /\ recorder \in [Handlers -> Recorders]
    BY <1>1 DEF HandlersTyped
  <2>2. Requests!FirstHeader(recorder[h], status) \in Recorders
    BY <2>1, FirstHeaderType
  <2> QED
    BY <1>2, <2>1, <2>2
<1>5. HandlersTyped'
  BY <1>1, <1>3, <1>4 DEF HandlersTyped, Answering, Requests!Answers, Requests!Counters, Recorders, Sendable
<1>6. \A c \in Summed :
        total'[c] + Due(c, pc[h], recorder[h].status, took[h])
          = total[c] + Due(c, pc'[h], recorder'[h].status, took'[h])
  BY <1>3, DueAt
<1>7. Accounted'
  BY <1>1, <1>3, <1>4, <1>5, <1>6, AccountStep
<1>8. MaximumIsLongest'
  BY <1>1, <1>3, MaximumKept DEF Past, Requests!Counters
<1>9. total["4xx"] \in Nat
  BY <1>1 DEF Requests!Counters, HandlersTyped
<1> QED
  BY <1>1, <1>3, <1>5, <1>7, <1>8, <1>9 DEF CountersInvariant

LEMMA AddDurationStep ==
  ASSUME CountersInvariant, NEW h \in Handlers, Requests!AddDuration(h)
  PROVE  CountersInvariant' /\ total'["4xx"] >= total["4xx"]
<1>1. /\ HandlersTyped /\ current \in [Handlers -> Nat] /\ Accounted /\ MaximumIsLongest
  BY DEF CountersInvariant
<1>2. PICK d \in Durations : took' = [took EXCEPT ![h] = d] /\ Requests!Add("duration", d)
  BY DEF Requests!AddDuration
<1>3. /\ pc[h] = "handler" /\ Requests!Goto(h, "load_max")
      /\ UNCHANGED <<recorder, current, answered>>
  BY DEF Requests!AddDuration
<1>4. d \in Nat
  BY DurationsAssumption
<1>5. /\ pc' \in [Handlers -> Positions] /\ pc'[h] = "load_max"
      /\ \A k \in Handlers \ {h} : pc'[k] = pc[k]
  BY <1>1, <1>3, OneMoves DEF Positions, Answering
<1>6. /\ total' \in [Requests!Counters -> Nat] /\ total'["duration"] = total["duration"] + d
      /\ \A c \in Requests!Counters \ {"duration"} : total'[c] = total[c]
  <2>1. "duration" \in Requests!Counters
    BY DEF Requests!Counters
  <2> QED
    BY ONLY <1>1, <1>2, <1>4, <2>1, AddTo
<1>7. /\ took' \in [Handlers -> Nat] /\ took'[h] = d
      /\ \A k \in Handlers \ {h} : took'[k] = took[k]
  BY <1>1, <1>2, <1>4 DEF HandlersTyped
<1>8. HandlersTyped'
  BY <1>1, <1>3, <1>5, <1>6, <1>7
  DEF HandlersTyped, Answering, Requests!Answers, Requests!Counters, Recorders, Sendable
<1>9. \A c \in Summed :
        total'[c] + Due(c, pc[h], recorder[h].status, took[h])
          = total[c] + Due(c, pc'[h], recorder'[h].status, took'[h])
  <2> SUFFICES ASSUME NEW c \in Summed
               PROVE  total'[c] + Due(c, "handler", recorder[h].status, took[h])
                        = total[c] + Due(c, "load_max", recorder[h].status, d)
    BY <1>3, <1>5, <1>7
  <2>1. total'[c] = total[c] + (IF c = "duration" THEN d ELSE 0) /\ total[c] \in Nat
    BY <1>1, <1>4, <1>6 DEF Summed, Requests!Counters, HandlersTyped
  <2> QED
    BY ONLY <1>4, <2>1, DueAt, c \in Summed
<1>10. Accounted'
  BY <1>1, <1>3, <1>5, <1>7, <1>8, <1>9, AccountStep
<1>11. MaximumIsLongest'
  BY <1>1, <1>3, <1>5, <1>6, <1>7, MaximumKept DEF Past, Requests!Counters
<1>12. total'["4xx"] = total["4xx"] /\ total["4xx"] \in Nat
  BY <1>1, <1>6 DEF Requests!Counters, HandlersTyped
<1> QED
  BY <1>1, <1>3, <1>8, <1>10, <1>11, <1>12 DEF CountersInvariant

LEMMA LoadMaxStep ==
  ASSUME CountersInvariant, NEW h \in Handlers, Requests!LoadMax(h)
  PROVE  CountersInvariant' /\ total'["4xx"] >= total["4xx"]
<1>1. /\ HandlersTyped /\ current \in [Handlers -> Nat] /\ Accounted /\ MaximumIsLongest
  BY DEF CountersInvariant
<1>2. /\ pc[h] = "load_max" /\ UNCHANGED <<total, recorder, took, answered>>
      /\ \/ /\ took[h] > total["max"] /\ current' = [current EXCEPT ![h] = total["max"]]
            /\ Requests!Goto(h, "swap_max")
         \/ ~(took[h] > total["max"]) /\ UNCHANGED current /\ Requests!Goto(h, "404")
  BY DEF Requests!LoadMax
<1>3. total["max"] \in Nat /\ took[h] \in Nat
  BY <1>1 DEF HandlersTyped, Requests!Counters
<1>4. /\ pc' \in [Handlers -> Positions] /\ pc'[h] \in {"swap_max", "404"}
      /\ \A k \in Handlers \ {h} : pc'[k] = pc[k]
  <2>1. "swap_max" \in Positions /\ "404" \in Positions
    BY DEF Positions, Answering
  <2>2. CASE Requests!Goto(h, "swap_max")
    BY <1>1, <2>1, <2>2, OneMoves
  <2>3. CASE Requests!Goto(h, "404")
    BY <1>1, <2>1, <2>3, OneMoves
  <2> QED
    BY <1>2, <2>2, <2>3
<1>5. /\ current' \in [Handlers -> Nat]
      /\ \A k \in Handlers \ {h} : current'[k] = current[k]
  BY <1>1, <1>2, <1>3
<1>6. /\ pc'[h] = "404" => took[h] <= total["max"]
      /\ pc'[h] = "swap_max" => took[h] > current'[h]
  <2>1. pc \in [Handlers -> Positions]
    BY <1>1 DEF HandlersTyped
  <2>2. \A step : Requests!Goto(h, step) => pc'[h] = step
    BY <2>1 DEF Requests!Goto
  <2> QED
    BY <1>1, <1>2, <1>3, <2>2
<1>7. HandlersTyped'
  BY <1>1, <1>2, <1>4
  DEF HandlersTyped, Answering, Requests!Answers, Requests!Counters, Recorders, Sendable
<1>8. \A c \in Summed :
        total'[c] + Due(c, pc[h], recorder[h].status, took[h])
          = total[c] + Due(c, pc'[h], recorder'[h].status, took'[h])
  <2> SUFFICES ASSUME NEW c \in Summed
               PROVE  Due(c, "load_max", recorder[h].status, took[h])
                        = Due(c, pc'[h], recorder[h].status, took[h])
    BY <1>2
  <2> QED
    BY <1>4, DueAt
<1>9. Accounted'
  BY <1>1, <1>2, <1>4, <1>7, <1>8, AccountStep
<1>10. MaximumIsLongest'
  BY <1>1, <1>2, <1>4, <1>5, <1>6, MaximumKept DEF Past
<1>11. total["4xx"] \in Nat
  BY <1>1 DEF Requests!Counters, HandlersTyped
<1> QED
  BY <1>2, <1>5, <1>7, <1>9, <1>10, <1>11 DEF CountersInvariant

LEMMA CountStep ==
  ASSUME CountersInvariant, NEW h \in Handlers,
         Requests!CountNotFound(h) \/ Requests!CountClientError(h)
  PROVE  CountersInvariant' /\ total'["4xx"] >= total["4xx"]
<1>1. /\ HandlersTyped /\ current \in [Handlers -> Nat] /\ Accounted /\ MaximumIsLongest
  BY DEF CountersInvariant
<1> DEFINE status == recorder[h].status
<1>2. PICK counter \in {"404", "4xx"}, next \in {"4xx", "5xx"} :
        /\ \/ counter = "404" /\ next = "4xx"
           \/ counter = "4xx" /\ next = "5xx"
        /\ pc[h] = counter /\ Requests!Goto(h, next)
        /\ IF Requests!Counts(counter, status) THEN Requests!Add(counter, 1) ELSE UNCHANGED total
        /\ UNCHANGED <<recorder, took, current, answered>>
  BY DEF Requests!CountNotFound, Requests!CountClientError, Requests!Count
<1>3. /\ pc' \in [Handlers -> Positions] /\ pc'[h] = next
      /\ \A k \in Handlers \ {h} : pc'[k] = pc[k]
  BY <1>1, <1>2, OneMoves DEF Positions, Answering
<1>4. Requests!Counts(counter, status) <=>
        IF counter = "404" THEN status = 404 ELSE status \in 400..499
  <2> HIDE DEF status
  <2>1. Requests!Counts("404", status) <=> status = 404
    BY DEF Requests!Counts
  <2>2. Requests!Counts("4xx", status) <=> status \in 400..499
    BY DEF Requests!Counts
  <2> QED
    BY <2>1, <2>2
<1> HIDE DEF status
<1>5. /\ total' \in [Requests!Counters -> Nat]
      /\ total'[counter] = total[counter] + IF Requests!Counts(counter, status) THEN 1 ELSE 0
      /\ \A c \in Requests!Counters \ {counter} : total'[c] = total[c]
  <2>1. counter \in Requests!Counters /\ 1 \in Nat
    BY DEF Requests!Counters
  <2>2. total \in [Requests!Counters -> Nat]
    BY <1>1 DEF HandlersTyped
  <2>3. CASE Requests!Counts(counter, status)
    BY <1>1, <1>2, <2>1, <2>3, AddTo
  <2>4. CASE ~Requests!Counts(counter, status)
    BY <1>2, <2>1, <2>2, <2>4
  <2> QED
    BY <2>3, <2>4
<1>6. HandlersTyped'
  BY <1>1, <1>2, <1>3, <1>5
  DEF HandlersTyped, Answering, Requests!Answers, Requests!Counters, Recorders, Sendable
<1>7. \A c \in Summed :
        total'[c] + Due(c, pc[h], recorder[h].status, took[h])
          = total[c] + Due(c, pc'[h], recorder'[h].status, took'[h])
  <2> SUFFICES ASSUME NEW c \in Summed
               PROVE  total'[c] + Due(c, counter, status, took[h])
                        = total[c] + Due(c, next, status, took[h])
    BY <1>2, <1>3 DEF status
  <2>1. total'[c] = total[c] + (IF c = counter /\ Requests!Counts(counter, status) THEN 1 ELSE 0)
        /\ total[c] \in Nat
    BY <1>1, <1>5 DEF Summed, Requests!Counters, HandlersTyped
  <2>2. took[h] \in Nat
    BY <1>1 DEF HandlersTyped
  <2>3. CASE counter = "404" /\ next = "4xx"
    BY ONLY <1>4, <2>1, <2>2, <2>3, DueAt, c \in Summed
  <2>4. CASE counter = "4xx" /\ next = "5xx"
    BY ONLY <1>4, <2>1, <2>2, <2>4, DueAt, c \in Summed
  <2> QED
    BY <1>2, <2>3, <2>4
<1>8. Accounted'
  BY <1>1, <1>2, <1>3, <1>6, <1>7, AccountStep
<1>9. total'["max"] = total["max"]
  BY <1>5 DEF Requests!Counters
<1>10. MaximumIsLongest'
  <2>1. pc[h] \in Past /\ pc'[h] \in Past /\ pc'[h] # "swap_max"
    BY <1>2, <1>3 DEF Past
  <2>2. took[h] <= total["max"]
    BY <1>1, <2>1 DEF MaximumIsLongest
  <2> QED
    BY <1>1, <1>2, <1>3, <1>9, <2>1, <2>2, MaximumKept
<1>11. total'["4xx"] >= total["4xx"]
  BY <1>1, <1>5 DEF Requests!Counters, HandlersTyped
<1> QED
  BY <1>1, <1>2, <1>6, <1>8, <1>10, <1>11 DEF CountersInvariant

LEMMA SwapMaxStep ==
  ASSUME CountersInvariant, NEW h \in Handlers, Requests!SwapMax(h)
  PROVE  CountersInvariant' /\ total'["4xx"] >= total["4xx"]
<1>1. /\ HandlersTyped /\ current \in [Handlers -> Nat] /\ Accounted /\ MaximumIsLongest
  BY DEF CountersInvariant
<1>2. /\ pc[h] = "swap_max" /\ current' = [current EXCEPT ![h] = 0]
      /\ UNCHANGED <<recorder, took, answered>>
      /\ \/ /\ total["max"] = current[h] /\ total' = [total EXCEPT !["max"] = took[h]]
            /\ Requests!Goto(h, "404")
         \/ UNCHANGED total /\ Requests!Goto(h, "load_max")
  BY DEF Requests!SwapMax, Requests!CompareAndSwap
<1>3. /\ total \in [Requests!Counters -> Nat] /\ total["max"] \in Nat /\ took[h] \in Nat
      /\ took[h] > current[h] /\ current[h] \in Nat
  BY <1>1, <1>2 DEF HandlersTyped, MaximumIsLongest, Requests!Counters
<1>4. /\ pc' \in [Handlers -> Positions] /\ pc'[h] \in {"404", "load_max"}
      /\ \A k \in Handlers \ {h} : pc'[k] = pc[k]
  <2>1. "load_max" \in Positions /\ "404" \in Positions
    BY DEF Positions, Answering
  <2>2. CASE Requests!Goto(h, "load_max")
    BY <1>1, <2>1, <2>2, OneMoves
  <2>3. CASE Requests!Goto(h, "404")
    BY <1>1, <2>1, <2>3, OneMoves
  <2> QED
    BY <1>2, <2>2, <2>3
<1>5. /\ current' \in [Handlers -> Nat]
      /\ \A k \in Handlers \ {h} : current'[k] = current[k]
  BY <1>1, <1>2
<1>6. /\ total' \in [Requests!Counters -> Nat]
      /\ \A c \in Requests!Counters \ {"max"} : total'[c] = total[c]
  BY <1>2, <1>3
<1>7. HandlersTyped'
  BY <1>1, <1>2, <1>4, <1>6
  DEF HandlersTyped, Answering, Requests!Answers, Requests!Counters, Recorders, Sendable
<1>8. \A c \in Summed :
        total'[c] + Due(c, pc[h], recorder[h].status, took[h])
          = total[c] + Due(c, pc'[h], recorder'[h].status, took'[h])
  <2> SUFFICES ASSUME NEW c \in Summed
               PROVE  total'[c] + Due(c, "swap_max", recorder[h].status, took[h])
                        = total[c] + Due(c, pc'[h], recorder[h].status, took[h])
    BY <1>2
  <2>1. total'[c] = total[c]
    BY <1>6 DEF Summed, Requests!Counters
  <2>2. Due(c, "swap_max", recorder[h].status, took[h]) = Due(c, pc'[h], recorder[h].status, took[h])
    BY <1>4, DueAt
  <2> QED
    BY <2>1, <2>2
<1>9. Accounted'
  BY <1>1, <1>2, <1>4, <1>7, <1>8, AccountStep
<1>10. MaximumIsLongest'
  <2>1. CASE UNCHANGED total /\ Requests!Goto(h, "load_max")
    <3>1. pc'[h] = "load_max"
      BY <1>1, <2>1, OneMoves DEF Positions, Answering
    <3> QED
      BY <1>1, <1>2, <1>4, <1>5, <2>1, <3>1, MaximumKept DEF Past
  <2>2. CASE /\ total["max"] = current[h] /\ total' = [total EXCEPT !["max"] = took[h]]
             /\ Requests!Goto(h, "404")
    <3>1. pc'[h] = "404"
      BY <1>1, <2>2, OneMoves DEF Positions, Answering
    <3>2. total'["max"] = took[h] /\ took[h] > total["max"]
      BY <1>3, <2>2 DEF Requests!Counters
    <3>3. ASSUME NEW a \in Requests!Answers, answered[a] > 0 PROVE a.took <= total'["max"]
      <4>1. a.took <= total["max"] /\ a.took \in Nat
        BY <1>1, <3>3, DurationsAssumption DEF MaximumIsLongest, Requests!Answers
      <4> QED
        BY <1>3, <3>2, <4>1
    <3>4. ASSUME NEW k \in Handlers, pc'[k] \in Past PROVE took[k] <= total'["max"]
      <4>1. CASE k = h
        BY <1>3, <3>2, <4>1
      <4>2. CASE k # h
        <5>1. took[k] <= total["max"] /\ took[k] \in Nat
          BY <1>1, <1>4, <3>4, <4>2 DEF MaximumIsLongest, HandlersTyped
        <5> QED
          BY <1>3, <3>2, <5>1
      <4> QED
        BY <4>1, <4>2
    <3>5. ASSUME NEW k \in Handlers, pc'[k] = "swap_max" PROVE took[k] > current'[k]
      BY <1>1, <1>4, <1>5, <3>1, <3>5 DEF MaximumIsLongest
    <3>6. pc'[h] \in Past /\ took'[h] = total'["max"]
      BY <1>2, <3>1, <3>2 DEF Past
    <3> QED
      BY <1>2, <3>3, <3>4, <3>5, <3>6 DEF MaximumIsLongest, Past, Requests!Answers
  <2> QED
    BY <1>2, <2>1, <2>2
<1>11. total'["4xx"] = total["4xx"] /\ total["4xx"] \in Nat
  BY <1>3, <1>6 DEF Requests!Counters
<1> QED
  BY <1>5, <1>7, <1>9, <1>10, <1>11 DEF CountersInvariant

\* The last counter is all a handler that stands before it still owes.
LEMMA WholeWeight ==
  ASSUME NEW c \in Summed, NEW s \in Nat, NEW d \in Nat
  PROVE  Weight(c, s, d) = Due(c, "5xx", s, d) + IF c = "5xx" /\ s >= 500 THEN 1 ELSE 0
<1>1. /\ Due(c, "5xx", s, d) =
           IF c = "requests" THEN 1
           ELSE IF c = "duration" THEN d
           ELSE IF c = "404" /\ s = 404 THEN 1
           ELSE IF c = "4xx" /\ s \in 400..499 THEN 1
           ELSE 0
  BY DueAt
<1>2. c \in {"requests", "404", "4xx", "5xx", "duration"}
  BY DEF Summed
<1>3. CASE c = "requests"
  BY <1>1, <1>3 DEF Weight
<1>4. CASE c = "404"
  BY <1>1, <1>4 DEF Weight
<1>5. CASE c = "4xx"
  BY <1>1, <1>5 DEF Weight
<1>6. CASE c = "5xx"
  BY <1>1, <1>6 DEF Weight
<1>7. CASE c = "duration"
  BY <1>1, <1>7 DEF Weight
<1> QED
  BY <1>2, <1>3, <1>4, <1>5, <1>6, <1>7

LEMMA ServerErrorStep ==
  ASSUME CountersInvariant, NEW h \in Handlers, Requests!CountServerError(h)
  PROVE  CountersInvariant' /\ total'["4xx"] >= total["4xx"]
<1>1. /\ HandlersTyped /\ current \in [Handlers -> Nat] /\ Accounted /\ MaximumIsLongest
  BY DEF CountersInvariant
<1> DEFINE status == recorder[h].status
           a == [status |-> status, took |-> took[h]]
<1>2. /\ recorder[h] \in Recorders /\ status \in Sendable /\ status \in Nat
      /\ status = IF recorder[h].sent = 0 THEN 200 ELSE recorder[h].sent
  BY <1>1, SendableType DEF HandlersTyped, Recorders
<1>3. /\ pc[h] = "5xx" /\ Requests!Goto(h, "idle")
      /\ IF Requests!Counts("5xx", status) THEN Requests!Add("5xx", 1) ELSE UNCHANGED total
      /\ UNCHANGED current
      /\ recorder' = [recorder EXCEPT ![h] = Requests!NoResponse]
      /\ took' = [took EXCEPT ![h] = 0]
  BY DEF Requests!CountServerError, Requests!Count
<1>4. answered' = [answered EXCEPT ![a] = @ + 1]
  BY <1>2 DEF Requests!CountServerError
<1>5. /\ took[h] \in Durations /\ took[h] \in Nat /\ a \in Requests!Answers
      /\ a.status = status /\ a.took = took[h]
  <2>1. took[h] \in Durations /\ took[h] \in Nat
    BY <1>1, <1>3, DurationsAssumption DEF HandlersTyped, Answering
  <2> QED
    BY <1>2, <2>1 DEF Requests!Answers, Sendable
<1>6. Requests!Counts("5xx", status) <=> status >= 500
  BY DEF Requests!Counts
<1> HIDE DEF status, a
<1>7. /\ pc' \in [Handlers -> Positions] /\ pc'[h] = "idle"
      /\ \A k \in Handlers \ {h} : pc'[k] = pc[k]
  BY <1>1, <1>3, OneMoves DEF Positions
<1>8. /\ total' \in [Requests!Counters -> Nat]
      /\ total'["5xx"] = total["5xx"] + IF status >= 500 THEN 1 ELSE 0
      /\ \A c \in Requests!Counters \ {"5xx"} : total'[c] = total[c]
  <2>1. "5xx" \in Requests!Counters /\ 1 \in Nat
    BY DEF Requests!Counters
  <2>2. total \in [Requests!Counters -> Nat]
    BY <1>1 DEF HandlersTyped
  <2>3. CASE Requests!Counts("5xx", status)
    BY <1>1, <1>3, <1>6, <2>1, <2>3, AddTo
  <2>4. CASE ~Requests!Counts("5xx", status)
    BY <1>3, <1>6, <2>1, <2>2, <2>4
  <2> QED
    BY <2>3, <2>4
<1>9. /\ recorder' \in [Handlers -> Recorders] /\ took' \in [Handlers -> Nat] /\ took'[h] = 0
      /\ \A k \in Handlers \ {h} : recorder'[k] = recorder[k] /\ took'[k] = took[k]
  <2>1. Requests!NoResponse \in Recorders
    BY DEF Requests!NoResponse, Recorders, Sendable
  <2> QED
    BY <1>1, <1>3, <2>1 DEF HandlersTyped
<1>10. /\ answered' \in [Requests!Answers -> Nat] /\ answered'[a] = answered[a] + 1
       /\ answered[a] \in Nat
       /\ \A b \in Requests!Answers \ {a} : answered'[b] = answered[b]
  BY <1>1, <1>4, <1>5 DEF HandlersTyped
<1>11. HandlersTyped'
  BY <1>1, <1>7, <1>8, <1>9, <1>10
  DEF HandlersTyped, Answering, Requests!Answers, Requests!Counters, Recorders, Sendable
<1>12. Accounted'
  <2> SUFFICES ASSUME NEW c \in Summed
               PROVE  total'[c] = SumFunctionOnSet(Finished(c)', Requests!Answers)
                                    + SumFunctionOnSet(Pending(c)', Handlers)
    BY DEF Accounted, Requests!Answers
  <2> DEFINE f == Pending(c)
             g == Pending(c)'
             d == Finished(c)
             e == Finished(c)'
             w == Weight(c, status, took[h])
  <2>1. \A k \in Handlers : f[k] \in Nat /\ f[k] = Due(c, pc[k], recorder[k].status, took[k])
    BY <1>1, PendingNext DEF PendingIsDue
  <2>2. \A k \in Handlers : g[k] \in Nat /\ g[k] = Due(c, pc'[k], recorder'[k].status, took'[k])
    <3>1. PendingIsDue'
      BY <1>11, PendingNext, PTL
    <3> QED
      BY <3>1 DEF PendingIsDue
  <2>3. \A b \in Requests!Answers : d[b] \in Nat /\ d[b] = answered[b] * Weight(c, b.status, b.took)
    BY <1>1, FinishedNext DEF FinishedIsNumber, Finished
  <2>4. \A b \in Requests!Answers : e[b] \in Nat /\ e[b] = answered'[b] * Weight(c, b.status, b.took)
    <3>1. FinishedIsNumber'
      BY <1>11, FinishedNext, PTL
    <3> QED
      BY <3>1 DEF FinishedIsNumber, Finished, Requests!Answers
  <2>5. w \in Nat
    BY <1>2, <1>5, WeightType
  <2>6. d[a] = answered[a] * w /\ e[a] = (answered[a] + 1) * w
    BY <1>5, <1>10, <2>3, <2>4
  <2>7. e[a] = d[a] + w
    <3> HIDE DEF d, e, w
    <3> QED
      BY ONLY <1>10, <2>5, <2>6
  <2>8. \A k \in Handlers \ {h} : g[k] = f[k]
    BY <1>7, <1>9, <2>1, <2>2
  <2>9. g[h] = 0 /\ f[h] = Due(c, "5xx", status, took[h])
    BY <1>3, <1>7, <2>1, <2>2, DueAt DEF status
  <2>10. \A b \in Requests!Answers \ {a} : e[b] = d[b]
    BY <1>10, <2>3, <2>4
  <2>11. total'[c] + f[h] = total[c] + w
    <3>1. total'[c] = total[c] + (IF c = "5xx" /\ status >= 500 THEN 1 ELSE 0) /\ total[c] \in Nat
      BY <1>1, <1>8 DEF Summed, Requests!Counters, HandlersTyped
    <3>2. (IF c = "5xx" /\ status >= 500 THEN 1 ELSE 0) + f[h] = w
      <4>1. w = f[h] + IF c = "5xx" /\ status >= 500 THEN 1 ELSE 0
        BY <1>2, <1>5, <2>9, WholeWeight
      <4>2. f[h] \in Nat
        BY <2>1
      <4> HIDE DEF f, w
      <4> QED
        BY ONLY <4>1, <4>2
    <3>3. f[h] \in Nat
      BY <2>1
    <3> HIDE DEF f, w
    <3> QED
      BY ONLY <2>5, <3>1, <3>2, <3>3
  <2>12. /\ \A k \in Handlers : f[k] \in Nat /\ g[k] \in Nat
         /\ \A b \in Requests!Answers : d[b] \in Nat /\ e[b] \in Nat
         /\ f[h] \in Nat /\ d[a] \in Nat
    BY <1>5, <2>1, <2>2, <2>3, <2>4
  <2>13. total[c] = SumFunctionOnSet(d, Requests!Answers) + SumFunctionOnSet(f, Handlers)
         /\ total[c] \in Nat /\ total'[c] \in Nat
    BY <1>1, <1>8 DEF Accounted, HandlersTyped, Summed, Requests!Counters
  <2> HIDE DEF f, g, d, e, w
  <2>14. /\ SumFunctionOnSet(g, Handlers) + f[h] = SumFunctionOnSet(f, Handlers) + g[h]
         /\ SumFunctionOnSet(g, Handlers) \in Nat /\ SumFunctionOnSet(f, Handlers) \in Nat
    BY ONLY <2>8, <2>12, h \in Handlers, HandlersAssumption, SumChange
  <2>15. /\ SumFunctionOnSet(e, Requests!Answers) + d[a] = SumFunctionOnSet(d, Requests!Answers) + e[a]
         /\ SumFunctionOnSet(e, Requests!Answers) \in Nat /\ SumFunctionOnSet(d, Requests!Answers) \in Nat
    BY ONLY <1>5, <2>10, <2>12, AnswersFinite, SumChange
  <2>16. total'[c] = SumFunctionOnSet(e, Requests!Answers) + SumFunctionOnSet(g, Handlers)
    <3>1. f[h] \in Nat /\ d[a] \in Nat
      BY <2>12
    <3> DEFINE sf == SumFunctionOnSet(f, Handlers)
               sg == SumFunctionOnSet(g, Handlers)
               sd == SumFunctionOnSet(d, Requests!Answers)
               se == SumFunctionOnSet(e, Requests!Answers)
    <3>2. sg + f[h] = sf + g[h] /\ sg \in Nat /\ sf \in Nat
      BY <2>14
    <3>3. se + d[a] = sd + e[a] /\ se \in Nat /\ sd \in Nat
      BY <2>15
    <3>4. total[c] = sd + sf /\ total[c] \in Nat /\ total'[c] \in Nat
      BY <2>13
    <3> HIDE DEF sf, sg, sd, se
    <3>5. sf = sg + f[h]
      BY ONLY <2>9, <3>1, <3>2
    <3>6. se = sd + w
      BY ONLY <2>5, <2>7, <3>1, <3>3
    <3>7. total'[c] = se + sg
      BY ONLY <2>5, <2>11, <3>1, <3>2, <3>3, <3>4, <3>5, <3>6
    <3> QED
      BY <3>7 DEF se, sg
  <2> QED
    BY <2>16 DEF e, g
<1>13. MaximumIsLongest'
  <2>1. total'["max"] = total["max"]
    BY <1>8 DEF Requests!Counters
  <2>2. took[h] <= total["max"]
    BY <1>1, <1>3 DEF MaximumIsLongest, Past
  <2>3. ASSUME NEW b \in Requests!Answers, answered'[b] > 0 PROVE b.took <= total'["max"]
    <3>1. CASE b = a
      BY <1>5, <2>1, <2>2, <3>1
    <3>2. CASE b # a
      BY <1>1, <1>10, <2>1, <2>3, <3>2 DEF MaximumIsLongest
    <3> QED
      BY <3>1, <3>2
  <2>4. ASSUME NEW k \in Handlers
        PROVE  /\ pc'[k] \in Past => took'[k] <= total'["max"]
               /\ pc'[k] = "swap_max" => took'[k] > current'[k]
    BY <1>1, <1>3, <1>7, <1>9, <2>1 DEF MaximumIsLongest, Past
  <2>5. ASSUME total'["max"] # 0
        PROVE  \/ \E b \in Requests!Answers : answered'[b] > 0 /\ b.took = total'["max"]
               \/ \E k \in Handlers : pc'[k] \in Past /\ took'[k] = total'["max"]
    <3>1. ASSUME NEW b \in Requests!Answers, answered[b] > 0, b.took = total["max"]
          PROVE  answered'[b] > 0
      BY <1>10, <3>1
    <3>2. ASSUME NEW k \in Handlers, pc[k] \in Past, took[k] = total["max"], k # h
          PROVE  pc'[k] \in Past /\ took'[k] = total'["max"]
      BY <1>7, <1>9, <2>1, <3>2
    <3>3. answered'[a] > 0 /\ a \in Requests!Answers /\ a.took = took[h]
      BY <1>5, <1>10
    <3> QED
      BY <1>1, <2>1, <2>5, <3>1, <3>2, <3>3 DEF MaximumIsLongest
  <2> QED
    BY <2>3, <2>4, <2>5 DEF MaximumIsLongest, Past, Requests!Answers
<1>14. total'["4xx"] = total["4xx"] /\ total["4xx"] \in Nat
  BY <1>1, <1>8 DEF Requests!Counters, HandlersTyped
<1> QED
  BY <1>1, <1>3, <1>11, <1>12, <1>13, <1>14 DEF CountersInvariant

LEMMA CountersInit == Requests!Init => CountersInvariant
<1> SUFFICES ASSUME Requests!Init PROVE CountersInvariant
  OBVIOUS
<1>1. /\ total = [c \in Requests!Counters |-> 0] /\ pc = [h \in Handlers |-> "idle"]
      /\ recorder = [h \in Handlers |-> Requests!NoResponse]
      /\ took = [h \in Handlers |-> 0] /\ current = [h \in Handlers |-> 0]
      /\ answered = [a \in Requests!Answers |-> 0]
  BY DEF Requests!Init, Requests!Nothing
<1>2. Requests!NoResponse \in Recorders
  BY DEF Requests!NoResponse, Recorders, Sendable
<1>3. HandlersTyped /\ current \in [Handlers -> Nat]
  BY <1>1, <1>2 DEF HandlersTyped, Positions, Answering
<1>4. MaximumIsLongest
  BY <1>1 DEF MaximumIsLongest, Past, Requests!Counters
<1>5. Accounted
  <2> SUFFICES ASSUME NEW c \in Summed
               PROVE  total[c] = SumFunctionOnSet(Finished(c), Requests!Answers)
                                   + SumFunctionOnSet(Pending(c), Handlers)
    BY DEF Accounted
  <2>1. \A a \in Requests!Answers : Finished(c)[a] \in Nat /\ Finished(c)[a] = 0
    <3> SUFFICES ASSUME NEW a \in Requests!Answers PROVE Finished(c)[a] = 0
      BY <1>3, FinishedType
    <3>1. a.status \in Sendable /\ a.took \in Nat
      BY DurationsAssumption DEF Requests!Answers, Sendable
    <3>2. Weight(c, a.status, a.took) \in Nat
      BY <3>1, WeightType
    <3>3. Finished(c)[a] = 0 * Weight(c, a.status, a.took)
      BY <1>1 DEF Finished
    <3> QED
      BY ONLY <3>2, <3>3
  <2>2. \A h \in Handlers : Pending(c)[h] \in Nat /\ Pending(c)[h] = 0
    BY <1>1, <1>3, PendingType, DueAt
  <2>3. SumFunctionOnSet(Finished(c), Requests!Answers) = 0
    BY <2>1, AnswersFinite, SumSupport, SumEmpty
  <2>4. SumFunctionOnSet(Pending(c), Handlers) = 0
    BY <2>2, HandlersAssumption, SumSupport, SumEmpty
  <2> QED
    BY <1>1, <2>3, <2>4 DEF Summed, Requests!Counters
<1> QED
  BY <1>3, <1>4, <1>5 DEF CountersInvariant

LEMMA HandlerStep ==
  ASSUME CountersInvariant, NEW h \in Handlers,
         Requests!Begin(h) \/ Requests!WriteHeader(h) \/ Requests!Write(h) \/ Requests!Step(h)
  PROVE  CountersInvariant' /\ total'["4xx"] >= total["4xx"]
BY BeginStep, HeaderStep, AddDurationStep, LoadMaxStep, SwapMaxStep, CountStep, ServerErrorStep
   DEF Requests!Step

LEMMA CountersKept ==
  ASSUME CountersInvariant, UNCHANGED <<total, pc, recorder, took, current, answered>>
  PROVE  CountersInvariant'
<1>1. HandlersTyped' /\ current' \in [Handlers -> Nat]
  BY DEF CountersInvariant, HandlersTyped, Requests!Answers, Recorders, Sendable, Requests!Counters
<1>2. MaximumIsLongest'
  BY DEF CountersInvariant, MaximumIsLongest, Requests!Answers
<1>3. \A c : Finished(c)' = Finished(c) /\ Pending(c)' = Pending(c)
  BY DEF Finished, Pending, Requests!Answers
<1>4. Accounted'
  BY <1>3 DEF CountersInvariant, Accounted, Requests!Answers
<1> QED
  BY <1>1, <1>2, <1>4 DEF CountersInvariant

-----------------------------------------------------------------------------
(* Between requests.                                                       *)

LEMMA NothingPending ==
  ASSUME CountersInvariant, \A h \in Handlers : pc[h] = "idle", NEW c \in Summed
  PROVE  total[c] = SumFunctionOnSet(Finished(c), Requests!Answers)
<1>1. HandlersTyped /\ Accounted
  BY DEF CountersInvariant
<1>2. \A h \in Handlers : Pending(c)[h] \in Nat /\ Pending(c)[h] = 0
  BY <1>1, PendingType, DueAt
<1>3. SumFunctionOnSet(Pending(c), Handlers) = 0
  BY <1>2, HandlersAssumption, SumSupport, SumEmpty
<1>4. SumFunctionOnSet(Finished(c), Requests!Answers) \in Nat
  BY <1>1, FinishedType, AnswersFinite, SumType
<1> QED
  BY <1>1, <1>3, <1>4 DEF Accounted

LEMMA AnsweredIs ==
  ASSUME HandlersTyped, NEW c \in Summed, NEW statuses,
         \A a \in Requests!Answers :
           Weight(c, a.status, a.took) = IF a.status \in statuses THEN 1 ELSE 0
  PROVE  SumFunctionOnSet(Finished(c), Requests!Answers) = Requests!Answered(statuses)
<1> DEFINE R == {a \in Requests!Answers : a.status \in statuses}
<1>1. /\ \A a \in Requests!Answers : Finished(c)[a] \in Nat
      /\ \A a \in Requests!Answers :
           Finished(c)[a] = answered[a] * (IF a.status \in statuses THEN 1 ELSE 0)
      /\ \A a \in Requests!Answers : answered[a] \in Nat
  BY FinishedType DEF Finished, HandlersTyped
<1>2. \A a \in Requests!Answers : Finished(c)[a] = IF a.status \in statuses THEN answered[a] ELSE 0
  BY ONLY <1>1
<1>3. R \subseteq Requests!Answers /\ IsFiniteSet(R)
  BY AnswersFinite, FS_Subset
<1>4. \A a \in R : Finished(c)[a] \in Nat /\ Finished(c)[a] = answered[a]
  BY <1>1, <1>2
<1>5. \A a \in Requests!Answers \ R : Finished(c)[a] = 0
  BY <1>2
<1>6. Requests!Answered(statuses) = SumFunctionOnSet(answered, R)
  BY MetricsSum DEF Requests!Answered
<1> HIDE DEF R
<1>7. SumFunctionOnSet(Finished(c), Requests!Answers) = SumFunctionOnSet(Finished(c), R)
  BY <1>1, <1>3, <1>5, AnswersFinite, SumSupport
<1>8. SumFunctionOnSet(Finished(c), R) = SumFunctionOnSet(answered, R)
  BY <1>3, <1>4, SumSame
<1> QED
  BY <1>6, <1>7, <1>8

LEMMA ExactBetweenRequests == CountersInvariant => Requests!ExactWhenIdle
<1> SUFFICES ASSUME CountersInvariant, \A h \in Handlers : pc[h] = "idle"
             PROVE  /\ total["requests"] = Requests!SumFunction(answered)
                    /\ total["404"] = Requests!Answered({404})
                    /\ total["4xx"] = Requests!Answered(400..499)
                    /\ total["5xx"] = Requests!Answered(500..599)
                    /\ total["duration"] =
                         Requests!SumFunction([a \in Requests!Answers |-> answered[a] * a.took])
                    /\ \A a \in Requests!Answers : answered[a] > 0 => a.took <= total["max"]
                    /\ total["max"] # 0 =>
                         \E a \in Requests!Answers : answered[a] > 0 /\ a.took = total["max"]
  BY DEF Requests!ExactWhenIdle
<1>1. HandlersTyped /\ MaximumIsLongest
  BY DEF CountersInvariant
<1>2. \A c \in Summed : total[c] = SumFunctionOnSet(Finished(c), Requests!Answers)
  BY NothingPending
<1>3. \A a \in Requests!Answers :
        a.status \in Nat /\ a.status <= 599 /\ a.took \in Nat /\ answered[a] \in Nat
  <2> SUFFICES ASSUME NEW a \in Requests!Answers
               PROVE  a.status \in Nat /\ a.status <= 599 /\ a.took \in Nat /\ answered[a] \in Nat
    OBVIOUS
  <2>1. answered[a] \in Nat
    BY <1>1 DEF HandlersTyped
  <2>2. a.status \in Sendable /\ a.took \in Durations
    BY DEF Requests!Answers, Sendable
  <2> QED
    BY <2>1, <2>2, SendableType, DurationsAssumption
<1>4. total["404"] = Requests!Answered({404})
  <2>1. \A a \in Requests!Answers :
          Weight("404", a.status, a.took) = IF a.status \in {404} THEN 1 ELSE 0
    BY DEF Weight
  <2> QED
    BY <1>1, <1>2, <2>1, AnsweredIs DEF Summed
<1>5. total["4xx"] = Requests!Answered(400..499)
  <2>1. \A a \in Requests!Answers :
          Weight("4xx", a.status, a.took) = IF a.status \in 400..499 THEN 1 ELSE 0
    BY DEF Weight
  <2> QED
    BY <1>1, <1>2, <2>1, AnsweredIs DEF Summed
<1>6. total["5xx"] = Requests!Answered(500..599)
  <2>1. \A a \in Requests!Answers :
          Weight("5xx", a.status, a.took) = IF a.status \in 500..599 THEN 1 ELSE 0
    BY <1>3 DEF Weight
  <2> QED
    BY <1>1, <1>2, <2>1, AnsweredIs DEF Summed
<1>7. total["requests"] = Requests!SumFunction(answered)
  <2>1. DOMAIN answered = Requests!Answers
    BY <1>1 DEF HandlersTyped
  <2>2. \A a \in Requests!Answers :
          Finished("requests")[a] \in Nat /\ Finished("requests")[a] = answered[a]
    BY <1>3 DEF Finished, Weight
  <2>3. SumFunctionOnSet(Finished("requests"), Requests!Answers)
          = SumFunctionOnSet(answered, Requests!Answers)
    BY <2>2, AnswersFinite, SumSame
  <2> QED
    BY <1>2, <2>1, <2>3, MetricsSum DEF Summed
<1>8. total["duration"] = Requests!SumFunction([a \in Requests!Answers |-> answered[a] * a.took])
  <2> DEFINE f == [a \in Requests!Answers |-> answered[a] * a.took]
  <2>1. Finished("duration") = f
    BY DEF Finished, Weight
  <2>2. DOMAIN f = Requests!Answers
    OBVIOUS
  <2> HIDE DEF f
  <2>3. total["duration"] = Requests!SumFunction(f)
    BY <1>2, <2>1, <2>2, MetricsSum DEF Summed
  <2> QED
    BY <2>3 DEF f
<1>9. \A h \in Handlers : pc[h] \notin Past
  BY DEF Past
<1> QED
  BY <1>1, <1>4, <1>5, <1>6, <1>7, <1>8, <1>9 DEF MaximumIsLongest

-----------------------------------------------------------------------------
(* A document.                                                             *)

\* The counters that are not loaded yet are the last ones of the order.
LoadingWell ==
  /\ loading \in Seq(Requests!Counters) /\ Len(loading) <= 6
  /\ \A i \in 1..Len(loading) : loading[i] = Requests!LoadOrder[6 - Len(loading) + i]
  /\ document \in [Requests!Counters -> Nat]
  /\ between \in SUBSET Handlers

\* The 404s were loaded before the 4xx.
DocumentOwes ==
  /\ Len(loading) = 4 => document["404"] <= total["4xx"] + Cardinality(between)
  /\ Len(loading) <= 3 => document["404"] <= document["4xx"] + Cardinality(between)

RequestsInvariant == CountersInvariant /\ LoadingWell /\ DocumentOwes

\* A 404 that is not counted as a 4xx yet is of a handler that stands between.
LEMMA NotFoundsAreClientErrors ==
  ASSUME CountersInvariant
  PROVE  total["404"] <= total["4xx"] + Cardinality({h \in Handlers : pc[h] = "4xx"})
<1> DEFINE B == {h \in Handlers : pc[h] = "4xx"}
           one == [h \in Handlers |-> IF pc[h] = "4xx" THEN 1 ELSE 0]
           both == [h \in Handlers |-> Pending("4xx")[h] + one[h]]
           Done(c) == SumFunctionOnSet(Finished(c), Requests!Answers)
           Rest(c) == SumFunctionOnSet(Pending(c), Handlers)
<1>1. HandlersTyped /\ Accounted /\ "404" \in Summed /\ "4xx" \in Summed
  BY DEF CountersInvariant, Summed
<1>2. \A c \in {"404", "4xx"} : total[c] = Done(c) + Rest(c) /\ Done(c) \in Nat /\ Rest(c) \in Nat
  BY <1>1, FinishedType, PendingType, AnswersFinite, HandlersAssumption, SumType DEF Accounted
<1>3. Done("404") <= Done("4xx")
  <2>1. ASSUME NEW a \in Requests!Answers
        PROVE  /\ Finished("404")[a] \in Nat /\ Finished("4xx")[a] \in Nat
               /\ Finished("404")[a] <= Finished("4xx")[a]
    <3>1. Finished("404")[a] \in Nat /\ Finished("4xx")[a] \in Nat
      BY <1>1, FinishedType
    <3>2. answered[a] \in Nat
      BY <1>1 DEF HandlersTyped
    <3>3. /\ Finished("404")[a] = answered[a] * (IF a.status = 404 THEN 1 ELSE 0)
          /\ Finished("4xx")[a] = answered[a] * (IF a.status \in 400..499 THEN 1 ELSE 0)
      BY DEF Finished, Weight
    <3> QED
      BY ONLY <3>1, <3>2, <3>3
  <2> QED
    BY <2>1, AnswersFinite, SumMonotone
<1>4. \A h \in Handlers :
        /\ Pending("404")[h] \in Nat /\ Pending("4xx")[h] \in Nat /\ one[h] \in {0, 1}
        /\ both[h] = Pending("4xx")[h] + one[h] /\ Pending("404")[h] <= both[h]
  <2> SUFFICES ASSUME NEW h \in Handlers
               PROVE  /\ Pending("404")[h] \in Nat /\ Pending("4xx")[h] \in Nat /\ one[h] \in {0, 1}
                      /\ both[h] = Pending("4xx")[h] + one[h] /\ Pending("404")[h] <= both[h]
    OBVIOUS
  <2>1. Pending("404")[h] \in Nat /\ Pending("4xx")[h] \in Nat
    BY <1>1, PendingType
  <2>2. /\ Pending("404")[h] =
             IF pc[h] \in {"4xx", "5xx"} /\ recorder[h].status = 404 THEN 1 ELSE 0
        /\ Pending("4xx")[h] =
             IF pc[h] = "5xx" /\ recorder[h].status \in 400..499 THEN 1 ELSE 0
    <3>1. \A p, t, d :
            /\ Due("404", p, t, d) = IF p \in {"4xx", "5xx"} /\ t = 404 THEN 1 ELSE 0
            /\ Due("4xx", p, t, d) = IF p = "5xx" /\ t \in 400..499 THEN 1 ELSE 0
      BY DEF Due, Added, Weight
    <3>2. /\ Pending("404")[h] = Due("404", pc[h], recorder[h].status, took[h])
          /\ Pending("4xx")[h] = Due("4xx", pc[h], recorder[h].status, took[h])
      BY DEF Pending
    <3> QED
      BY <3>1, <3>2
  <2>3. one[h] = IF pc[h] = "4xx" THEN 1 ELSE 0
    OBVIOUS
  <2>4. both[h] = Pending("4xx")[h] + one[h]
    OBVIOUS
  <2> HIDE DEF one, both
  <2> QED
    BY ONLY <2>1, <2>2, <2>3, <2>4
<1>5. \A h \in Handlers \ B : one[h] = 0
  OBVIOUS
<1>6. B \subseteq Handlers /\ IsFiniteSet(B)
  BY HandlersAssumption, FS_Subset
<1> HIDE DEF one, both, B
<1>7. \A h \in Handlers : one[h] \in Nat /\ both[h] \in Nat
  BY <1>4
<1>8. Rest("404") <= SumFunctionOnSet(both, Handlers)
  BY <1>4, <1>7, HandlersAssumption, SumMonotone
<1>9. SumFunctionOnSet(both, Handlers) = Rest("4xx") + SumFunctionOnSet(one, Handlers)
  BY <1>4, <1>7, HandlersAssumption, SumPlus
<1>10. SumFunctionOnSet(one, Handlers) = SumFunctionOnSet(one, B)
  BY <1>5, <1>6, <1>7, HandlersAssumption, SumSupport
<1>11. SumFunctionOnSet(one, B) <= Cardinality(B) /\ SumFunctionOnSet(one, B) \in Nat
  <2>1. \A h \in B : one[h] \in {0, 1} /\ one[h] \in Nat
    BY <1>4, <1>6, <1>7
  <2> QED
    BY <1>6, <2>1, SumOfOnes, SumType
<1>12. Cardinality(B) \in Nat
  BY <1>6, FS_CardinalityType
<1>13. total["404"] <= total["4xx"] + Cardinality(B)
  <2>1. /\ total["404"] = Done("404") + Rest("404") /\ Done("404") \in Nat /\ Rest("404") \in Nat
        /\ total["4xx"] = Done("4xx") + Rest("4xx") /\ Done("4xx") \in Nat /\ Rest("4xx") \in Nat
    BY <1>2
  <2> HIDE DEF Done, Rest
  <2> QED
    BY ONLY <1>3, <1>8, <1>9, <1>10, <1>11, <1>12, <2>1
<1> QED
  BY <1>13 DEF B

LEMMA CardinalityOfBetween ==
  ASSUME NEW S \in SUBSET Handlers
  PROVE  Requests!Cardinality(S) = Cardinality(S) /\ Cardinality(S) \in Nat
<1>1. Requests!Cardinality(S) = Cardinality(S)
  BY Zenon DEF Requests!Cardinality, Cardinality
<1>2. Cardinality(S) \in Nat
  BY HandlersAssumption, FS_Subset, FS_CardinalityType
<1> QED
  BY <1>1, <1>2

LEMMA LoadStep ==
  ASSUME RequestsInvariant, Requests!Load
  PROVE  RequestsInvariant'
<1> DEFINE n == Len(loading)
           c == Head(loading)
<1>1. /\ loading # <<>> /\ document' = [document EXCEPT ![c] = total[c]]
      /\ between' = IF c = "404" THEN {h \in Handlers : pc[h] = "4xx"} ELSE between
      /\ loading' = Tail(loading)
      /\ UNCHANGED <<total, pc, recorder, took, current, answered>>
  BY DEF Requests!Load, Requests!handlers
<1>2. CountersInvariant /\ LoadingWell /\ DocumentOwes
  BY DEF RequestsInvariant
<1>3. CountersInvariant'
  BY <1>1, <1>2, CountersKept
<1>4. /\ loading \in Seq(Requests!Counters) /\ n \in Nat /\ n <= 6 /\ n # 0
      /\ \A i \in 1..n : loading[i] = Requests!LoadOrder[6 - n + i]
      /\ document \in [Requests!Counters -> Nat] /\ between \in SUBSET Handlers
      /\ total \in [Requests!Counters -> Nat]
  BY <1>1, <1>2, EmptySeq DEF LoadingWell, CountersInvariant, HandlersTyped
<1>5. /\ c = loading[1] /\ c \in Requests!Counters /\ loading' \in Seq(Requests!Counters)
      /\ Len(loading') = n - 1 /\ \A i \in 1..(n - 1) : loading'[i] = loading[i + 1]
  BY <1>1, <1>4, HeadTailProperties
<1> HIDE DEF n, c
<1>15. n \in {1, 2, 3, 4, 5, 6}
  <2>1. n \in Nat /\ n <= 6 /\ n # 0
    BY <1>4
  <2> QED
    BY ONLY <2>1
<1>6. c = Requests!LoadOrder[7 - n]
  <2>1. 1 \in 1..n /\ 6 - n + 1 = 7 - n
    BY ONLY <1>4
  <2>2. loading[1] = Requests!LoadOrder[6 - n + 1]
    BY <1>4, <2>1
  <2> QED
    BY <1>5, <2>1, <2>2
<1>7. \A i \in 1..(n - 1) : loading'[i] = Requests!LoadOrder[6 - (n - 1) + i]
  <2> SUFFICES ASSUME NEW i \in 1..(n - 1)
               PROVE  loading[i + 1] = Requests!LoadOrder[6 - (n - 1) + i]
    BY <1>5
  <2>1. i + 1 \in 1..n /\ 6 - n + (i + 1) = 6 - (n - 1) + i
    BY <1>4
  <2> QED
    BY <1>4, <2>1
<1>8. /\ n = 5 => c = "404"
      /\ n = 4 => c = "4xx"
      /\ n <= 3 => c \notin {"404", "4xx"}
  <2>2. /\ Requests!LoadOrder[2] = "404" /\ Requests!LoadOrder[3] = "4xx"
        /\ Requests!LoadOrder[4] = "5xx" /\ Requests!LoadOrder[5] = "duration"
        /\ Requests!LoadOrder[6] = "max"
    BY DEF Requests!LoadOrder
  <2> QED
    BY ONLY <1>6, <1>15, <2>2
<1>9. /\ document' \in [Requests!Counters -> Nat] /\ document'[c] = total[c]
      /\ \A k \in Requests!Counters \ {c} : document'[k] = document[k]
  BY <1>1, <1>4, <1>5
<1>10. LoadingWell'
  <2>1. Requests!LoadOrder' = Requests!LoadOrder /\ Requests!Counters' = Requests!Counters
    BY DEF Requests!LoadOrder, Requests!Counters
  <2>2. between' \in SUBSET Handlers
    BY <1>1, <1>4
  <2>3. Len(loading') <= 6
    BY ONLY <1>4, <1>5
  <2>4. \A i \in 1..Len(loading') : loading'[i] = Requests!LoadOrder[6 - Len(loading') + i]
    BY <1>5, <1>7
  <2> QED
    BY ONLY <1>5, <1>9, <2>1, <2>2, <2>3, <2>4 DEF LoadingWell
<1>11. ASSUME n = 6 PROVE DocumentOwes'
  BY <1>5, <1>11 DEF DocumentOwes
<1>12. ASSUME n = 5 PROVE DocumentOwes'
  <2>1. document'["404"] = total["404"] /\ between' = {h \in Handlers : pc[h] = "4xx"}
        /\ total' = total
    BY <1>1, <1>8, <1>9, <1>12
  <2>2. document'["404"] <= total'["4xx"] + Cardinality(between')
    BY <1>2, <2>1, NotFoundsAreClientErrors
  <2>3. Len(loading') = 4
    BY <1>5, <1>12
  <2> QED
    BY <2>2, <2>3 DEF DocumentOwes
<1>13. ASSUME n = 4 PROVE DocumentOwes'
  <2>1. /\ document'["4xx"] = total["4xx"] /\ document'["404"] = document["404"]
        /\ between' = between
    BY <1>1, <1>8, <1>9, <1>13 DEF Requests!Counters
  <2>2. document["404"] <= total["4xx"] + Cardinality(between)
    BY <1>2, <1>13 DEF DocumentOwes, n
  <2>3. Len(loading') = 3
    BY <1>5, <1>13
  <2> QED
    BY <2>1, <2>2, <2>3 DEF DocumentOwes
<1>14. ASSUME n <= 3 PROVE DocumentOwes'
  <2>1. /\ document'["4xx"] = document["4xx"] /\ document'["404"] = document["404"]
        /\ between' = between
    BY <1>1, <1>8, <1>9, <1>14 DEF Requests!Counters
  <2>2. document["404"] <= document["4xx"] + Cardinality(between)
    BY <1>2, <1>14 DEF DocumentOwes, n
  <2>3. Len(loading') # 4
    BY <1>4, <1>5, <1>14
  <2> QED
    BY <2>1, <2>2, <2>3 DEF DocumentOwes
<1> QED
  BY <1>3, <1>10, <1>11, <1>12, <1>13, <1>14, <1>15 DEF RequestsInvariant

LEMMA BeginScrapeStep ==
  ASSUME RequestsInvariant, Requests!BeginScrape
  PROVE  RequestsInvariant'
<1>1. /\ loading' = Requests!LoadOrder /\ document' = [k \in Requests!Counters |-> 0]
      /\ between' = {} /\ UNCHANGED <<total, pc, recorder, took, current, answered>>
  BY DEF Requests!BeginScrape, Requests!handlers, Requests!Nothing
<1>2. CountersInvariant'
  BY <1>1, CountersKept DEF RequestsInvariant
<1>3. /\ Requests!LoadOrder \in Seq(Requests!Counters) /\ Len(Requests!LoadOrder) = 6
  BY DEF Requests!LoadOrder, Requests!Counters
<1>4. LoadingWell'
  <2>1. \A i \in 1..6 : loading'[i] = Requests!LoadOrder[6 - 6 + i]
    BY <1>1
  <2> QED
    BY <1>1, <1>3, <2>1 DEF LoadingWell, Requests!LoadOrder, Requests!Counters
<1>5. DocumentOwes'
  BY <1>1, <1>3 DEF DocumentOwes
<1> QED
  BY <1>2, <1>4, <1>5 DEF RequestsInvariant

LEMMA RequestsStep ==
  ASSUME RequestsInvariant, Requests!Next \/ UNCHANGED requestsVars
  PROVE  RequestsInvariant'
<1>1. CountersInvariant /\ LoadingWell /\ DocumentOwes
  BY DEF RequestsInvariant
<1>2. /\ total["4xx"] \in Nat /\ Cardinality(between) \in Nat
      /\ document["404"] \in Nat
  BY <1>1, CardinalityOfBetween
  DEF CountersInvariant, HandlersTyped, LoadingWell, Requests!Counters
<1>3. ASSUME NEW h \in Handlers,
             Requests!Begin(h) \/ Requests!WriteHeader(h) \/ Requests!Write(h) \/ Requests!Step(h)
      PROVE  RequestsInvariant'
  <2>1. CountersInvariant' /\ total'["4xx"] >= total["4xx"]
    BY <1>1, <1>3, HandlerStep
  <2>2. UNCHANGED <<document, loading, between>>
    BY <1>3 DEF Requests!Begin, Requests!WriteHeader, Requests!Write, Requests!Step,
      Requests!AddDuration, Requests!LoadMax, Requests!SwapMax, Requests!CountNotFound,
      Requests!CountClientError, Requests!CountServerError, Requests!Count, Requests!scraper
  <2>3. LoadingWell'
    BY <1>1, <2>2 DEF LoadingWell, Requests!LoadOrder, Requests!Counters
  <2>4. total'["4xx"] \in Nat
    BY <2>1 DEF CountersInvariant, HandlersTyped, Requests!Counters
  <2>5. DocumentOwes'
    BY <1>1, <1>2, <2>1, <2>2, <2>4 DEF DocumentOwes
  <2> QED
    BY <2>1, <2>3, <2>5 DEF RequestsInvariant
<1>4. CASE UNCHANGED requestsVars
  <2>1. UNCHANGED <<total, pc, recorder, took, current, answered, document, loading, between>>
    BY <1>4 DEF requestsVars
  <2>2. CountersInvariant'
    BY <1>1, <2>1, CountersKept
  <2>3. LoadingWell' /\ DocumentOwes'
    BY <1>1, <2>1 DEF LoadingWell, DocumentOwes, Requests!LoadOrder, Requests!Counters
  <2> QED
    BY <2>2, <2>3 DEF RequestsInvariant
<1> QED
  BY <1>3, <1>4, LoadStep, BeginScrapeStep DEF Requests!Next

LEMMA RequestsInit == Requests!Init => RequestsInvariant
<1> SUFFICES ASSUME Requests!Init PROVE RequestsInvariant
  OBVIOUS
<1>1. loading = <<>> /\ document = [k \in Requests!Counters |-> 0] /\ between = {}
  BY DEF Requests!Init, Requests!Nothing
<1>2. LoadingWell
  BY <1>1 DEF LoadingWell, Requests!Counters
<1>3. DocumentOwes
  BY <1>1, FS_EmptySet DEF DocumentOwes, Requests!Counters
<1> QED
  BY <1>2, <1>3, CountersInit DEF RequestsInvariant

\* However many handlers add to the counters, write headers and race for the
\* maximum, and whatever a scrape loads meanwhile: the counters are exact
\* between requests, and a document is off only by the handlers in flight.
THEOREM MetricsStayExact == SelfSpec => []MetricsAddUp
<1>1. SelfInit => RequestsInvariant
  BY RequestsInit DEF SelfInit
<1>2. RequestsInvariant /\ [SelfNext]_allVars => RequestsInvariant'
  <2> SUFFICES ASSUME RequestsInvariant, [SelfNext]_allVars PROVE RequestsInvariant'
    OBVIOUS
  <2>1. Requests!Next \/ UNCHANGED requestsVars
    BY DEF SelfNext, allVars
  <2> QED
    BY <2>1, RequestsStep
<1>3. RequestsInvariant => MetricsAddUp
  <2> SUFFICES ASSUME RequestsInvariant PROVE MetricsAddUp
    OBVIOUS
  <2>1. Requests!ExactWhenIdle
    BY ExactBetweenRequests DEF RequestsInvariant
  <2>2. loading = <<>> => document["404"] <= document["4xx"] + Requests!Cardinality(between)
    <3>1. between \in SUBSET Handlers
      BY DEF RequestsInvariant, LoadingWell
    <3>2. loading = <<>> => Len(loading) = 0
      BY EmptySeq
    <3> QED
      BY <3>1, <3>2, CardinalityOfBetween DEF RequestsInvariant, DocumentOwes
  <2> QED
    BY <2>1, <2>2 DEF MetricsAddUp, Requests!MetricsAddUp, Requests!TornByHandlersOnly
<1> QED
  BY <1>1, <1>2, <1>3, PTL DEF SelfSpec
=============================================================================
