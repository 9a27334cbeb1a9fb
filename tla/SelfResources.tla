---------------------------- MODULE SelfResources ----------------------------
(***************************************************************************)
(* The resources in StatLite's metrics about itself: a snapshot shared by  *)
(* all scrapes of /statlite/metrics for an interval, the CPU usage of the  *)
(* process between two snapshots, and that of the host from the counters   *)
(* of /proc/stat.  A scrape reads the clock before it waits for the lock   *)
(* under which everything else happens, so that scrapes may come to it in  *)
(* another order than their times.  Time is monotonic, as time.Time's is.  *)
(***************************************************************************)
EXTENDS StatliteMetrics

CONSTANTS
  Scrapes,      \* concurrent requests for /statlite/metrics
  Interval,     \* resourceInterval
  Cores,        \* CPU time the process may use in a unit of time
  Capacities,   \* what the operating system may say of memory or a disk
  Totals,       \* values of the request counters, see SelfMetrics
  Word,         \* 2^64: counters of the operating system are uint64
  MaxClock,     \* bound on the time
  MaxHost       \* bound on the counters of /proc/stat

ASSUME CapacitiesAssumption == Capacities \subseteq [total : Nat, available : Nat]
ASSUME TotalsAssumption == Totals \subseteq Nat
ASSUME TimeAssumption ==
  /\ Interval \in Nat \ {0} /\ Cores \in Nat /\ MaxClock \in Nat
ASSUME WordAssumption ==
  /\ Word \in Nat /\ MaxHost \in Nat /\ MaxHost < Word

VARIABLES
  clock,     \* 1 when the process started
  cpu,       \* CPU time the process has used
  host,      \* the counters of /proc/stat: total, idle
  asked,     \* each scrape's sampledAt, 0 while there is none
  snapshot,  \* Server.resourceSnapshot
  sampledAt, \* Server.resourceSampledAt, 0 is the zero time
  lastCPU,   \* Server.lastCPUAt, lastCPUSeconds, lastCPUUsage
  sampler    \* HostSampler: lastTotal, lastIdle, haveCPU

machine == <<clock, cpu, host>>
server == <<snapshot, sampledAt, lastCPU, sampler>>
vars == <<machine, asked, server>>

Zero == Fraction(0, 1)
NoMetrics == [f \in {} |-> Zero]

Init ==
  /\ clock = 1 /\ cpu = 0 /\ host = [total |-> 0, idle |-> 0]
  /\ asked = [s \in Scrapes |-> 0]
  /\ snapshot = NoMetrics /\ sampledAt = 0
  /\ lastCPU = [at |-> 0, seconds |-> 0, usage |-> Zero]
  /\ sampler = [total |-> 0, idle |-> 0, have |-> FALSE]

-----------------------------------------------------------------------------
(* The machine (external).                                                 *)

\* Every field of /proc/stat counts on its own, and may fall: iowait does
\* (proc(5)), and all do where a container's view begins anew.
Tick ==
  /\ clock < MaxClock
  /\ clock' = clock + 1
  /\ \E used \in 0..Cores : cpu' = cpu + used
  /\ \E busy \in {-1, 0, 1}, idle \in {-1, 0, 1} :
       host' = [total |-> host.total + busy + idle, idle |-> host.idle + idle]
  /\ host'.idle \in 0..MaxHost /\ host'.total \in host'.idle..MaxHost
  /\ UNCHANGED <<asked, server>>

-----------------------------------------------------------------------------
(* resources.                                                              *)

\* handleStatliteMetrics takes the time.
Ask(s) ==
  /\ asked[s] = 0
  /\ asked' = [asked EXCEPT ![s] = clock]
  /\ UNCHANGED <<machine, server>>

\* A snapshot of the last interval, and not of a scrape that came to the lock
\* before this one with a later time.
Fresh(s) ==
  /\ sampledAt # 0
  /\ asked[s] - sampledAt \in 0..(Interval - 1)

UseSnapshot(s) ==
  /\ asked[s] # 0 /\ Fresh(s)
  /\ asked' = [asked EXCEPT ![s] = 0]
  /\ UNCHANGED <<machine, server>>

\* Mutant: an interval of less than nothing is divided by.
HasElapsed(now) == now # lastCPU.at

\* processCPUUsage computes a usage.
Measurable(now) == now > lastCPU.at

\* processCPUUsage with the CPU time, which never falls and which the process can
\* always ask for; the first is a baseline, and so is that of a scrape that is
\* not later than the last.
Usage(now) ==
  IF lastCPU.at # 0 /\ Measurable(now)
  THEN Fraction(cpu - lastCPU.seconds, now - lastCPU.at)
  ELSE lastCPU.usage

\* Mutant: idle may pass for more than everything.
NoIntervalCheck(total, idle) ==
  total # 0

\* cpuUsageForInterval: a usage, nothing yet, or an error.
ValidInterval(total, idle) == total # 0 /\ idle <= total

\* cpuUsageFromCounters, in uint64; a counter that fell is a new baseline.
HostUsage ==
  LET total == (host.total - sampler.total) % Word
      idle == (host.idle - sampler.idle) % Word
  IN  IF /\ sampler.have /\ host.total >= sampler.total /\ host.idle >= sampler.idle
         /\ ValidInterval(total, idle)
      THEN [f \in {"host_cpu_usage"} |-> Fraction((total - idle) % Word, total)]
      ELSE NoMetrics

\* hostMemory, diskUsage: what cannot be is an error, and so is a source that
\* cannot be read; errors leave out both.
Capacity(reading, used, total) ==
  IF reading.total # 0 /\ reading.available <= reading.total
  THEN [f \in {used, total} |->
          Fraction(IF f = used THEN reading.total - reading.available ELSE reading.total, 1)]
  ELSE NoMetrics

Joined(f, g) == [x \in DOMAIN f \cup DOMAIN g |-> IF x \in DOMAIN f THEN f[x] ELSE g[x]]

\* A new snapshot: HostSampler.Sample, then processCPUUsage.  /proc/stat may be
\* unreadable, which leaves the sampler alone.
Sample(s) ==
  /\ asked[s] # 0 /\ ~Fresh(s)
  /\ LET now == asked[s]
     IN  /\ \E stat \in BOOLEAN, memory \in Capacities, disk \in Capacities :
              /\ sampler' = IF stat
                            THEN [total |-> host.total, idle |-> host.idle, have |-> TRUE]
                            ELSE sampler
              /\ snapshot' =
                   Joined(IF stat THEN HostUsage ELSE NoMetrics,
                     Joined(Capacity(memory, "host_memory_used_bytes", "host_memory_total_bytes"),
                       Joined(Capacity(disk, "host_disk_used_bytes", "host_disk_total_bytes"),
                         [f \in {"process_cpu_usage"} |-> Usage(now)])))
         /\ lastCPU' = [at |-> now, seconds |-> cpu, usage |-> Usage(now)]
         /\ sampledAt' = now
  /\ asked' = [asked EXCEPT ![s] = 0]
  /\ UNCHANGED machine

Next ==
  \/ Tick
  \/ \E s \in Scrapes : Ask(s) \/ UseSnapshot(s) \/ Sample(s)

Spec == Init /\ [][Next]_vars

-----------------------------------------------------------------------------
(* The document.                                                           *)

CounterFields ==
  {"requests_total", "responses_404_total", "responses_4xx_total", "responses_5xx_total",
   "request_duration_seconds_total"}

\* What handleStatliteMetrics encodes, with n for each of the counters.
SelfDocument(n) ==
  [fetched |-> TRUE, decodes |-> TRUE, schema |-> "statlite-metrics/v1", status |-> "UP",
   database_status |-> "given", started_at |-> "given",
   metrics |-> Joined(snapshot,
                 [f \in CounterFields \cup {"runtime_heap_used_bytes", "uptime_seconds"} |->
                    Fraction(n, 1)])]

-----------------------------------------------------------------------------
(* Properties.                                                             *)

\* docs/statlite-metrics-v1.md: StatLite is a producer of its own profile.
\* Whatever the counters of the host do and whichever readings fail, a StatLite
\* that polls this one takes every value, and has nothing to warn of.
DocumentsCollect ==
  sampledAt # 0 =>
    \A n \in Totals :
      LET result == Collect(SelfDocument(n))
      IN  /\ result.ok /\ result.warnings = {}
          /\ DOMAIN result.samples = DOMAIN SelfDocument(n).metrics

\* A CPU usage is an average over at least the interval, in whatever order the
\* scrapes get the lock.  It exceeds the cores by no more than the process may
\* have used while the scrape waited.
UsageIsAverage ==
  [][lastCPU'.usage # lastCPU.usage =>
       LET elapsed == lastCPU'.at - lastCPU.at
           wait == clock - lastCPU'.at
       IN  /\ elapsed >= Interval
           /\ lastCPU'.usage.num \in 0..(Cores * (elapsed + wait))
           /\ lastCPU'.usage.den = elapsed]_vars
=============================================================================
