# StatLite in TLA+

StatLite is one Go binary that polls applications for metrics, stores what it
collects in SQLite, and serves a dashboard and a JSON API. This directory holds
TLA+ models of it, the TLC runs that check them on small instances, and
theorems about them checked by the TLA+ proof system. Paths below are relative
to `src/` of the repository; `PROJECT.json` gives, for every definition that
models code, the lines it stands for.

## 1. The system

| Component | State it keeps | Operations | Interacts with |
|---|---|---|---|
| Monitor, one per target (`internal/monitor/monitor.go`) | `previous` (baseline of restart detection), `latest`, `status`, `health`; `pollMu` | `Start`/`loop`, `PollNow`, `detectAppRun`, `recordSuccess`, `recordFailure`, `EnableNoPoll` | collector, store; read by HTTP handlers; polled by the loop and by `/debug/poll-now` |
| Storage writes and retention (`internal/storage/write.go`, `retention.go`, `schema.sql`) | tables `targets`, `app_runs`, `polls`, `metric_samples`, `collector_events`; retention cutoff | `EnsureAppRun`, `TouchAppRun`, `SaveCollectionResultWithAppRun`, `DeletePollsBefore`, cleanup loop | all monitors through one connection |
| Storage reads (`query.go`, `series.go`, `dashboard_series.go`, `downsample.go`, `public_metrics.go`) | none | snapshots, series with baselines, endpoint sampling, buckets, public slots | monitor, HTTP handlers |
| Schema and registration (`storage.go`, `migration_v1.go`, `target_identity.go`) | `user_version`, columns, `targets.target_type` | `init`, `initializeFreshSchema`, `migrateV1ToV2`, `checkV2Columns`, `RegisterTargets` | every process that opens the file |
| Collectors (`internal/collector`) | Spring: the selected source. Caddy: the tuples of the last scrape. Quarkus, Micronaut: what is known of the health endpoint, and during a scrape fixed-size sums | `Collect` | the monitored application |
| HTTP server (`internal/server`) | request counters, cached storage verdict, cached resources | API handlers, `/healthz`, `/statlite/metrics`, `Serve`, `Shutdown` | manager, store |
| Manager (`internal/monitor/manager.go`) | the monitors in order | `Start`, `EnableNoPoll`, `Summaries`, lookup | monitors |
| Process (`cmd/statlite/main.go`) | context, goroutines | boot, signal, exit | everything |
| Prometheus client and parser (`internal/prometheus/prometheus.go`) | of one scrape: the limits used up, the last bytes, what was handed over | `Scrape`, `Parse` | four collectors, `inspect` |
| Configuration (`internal/config`, `internal/urlshape`, `internal/app/bootstrap.go`) | the file | `Load`: expansion of the environment, upgrade of retired formats, validation; `newCollector` | the process, `inspect`, the user's editor |
| Inspect (`internal/inspect`, `cmd/statlite/inspect_config.go`) | of one inspection: answers, suggestion | probes, `createInspectionConfig`, `addInspectionTarget` | the application, the configuration file, other such processes |
| StatLite about itself (`internal/server/metrics.go`, `internal/collector/host.go`, `statlite_metrics*.go`) | the cached snapshot, the last CPU readings of process and host | `resources`, `HostSampler.Sample`, and at the other end `StatliteMetricsCollector.Collect` | the operating system; any StatLite that polls this one |
| Dashboard assets | none that lasts | browser code | |

What is hard here, and to test: several goroutines poll one target; three
transactions make one poll, and the process may die between any two; the
cleaner deletes between them; the clock may be set back; scrapes are partial
and may not report the process start time on which run attribution rests; one
collection of an Actuator application is many requests; counters are compared
across polls chosen by SQL; several processes may open one file; request
counters are read while they are written; shutdown may overtake startup; a
response may end anywhere; `inspect` judges an application by several requests
and writes a file that others write too, without a lock.
`PROJECT.json` lists these hazards line by line with the properties that
watch them.

What makes each part correct:

* monitor: a delta never crosses a detected process run; a restart is reported
  once; failures lose neither the baseline nor the published state; every poll
  returns and the loop settles; a restart of StatLite shows what was shown.
* storage reads: one poll shows one delta in whatever window; sampling changes
  no total; nothing from before the retention cutoff is counted; ratios divide
  matching deltas.
* schema and registration: only supported files are written, and a name never
  changes its type.
* collectors: one source per collector; partial answers never look like resets;
  continuity is broken exactly where sums must not be compared; what a document
  yields depends on its samples, not on their order; health is rediscovered
  after a restart and its loss reported.
* Prometheus client: a scrape that succeeds handed over the document, all of it
  and nothing else; limits bite exactly where they are.
* configuration and inspect: what `Load` accepts can be started; what `inspect`
  reports as written stays and loads; what it suggests collects.
* server: counters are exact; documents are nearly so, and its own collector
  takes all of them; CPU usage is an average over the interval of the cache;
  `/healthz` answers with a real verdict; a signal ends the process.

## 2. Modules

| Module | Models | Theorems |
|---|---|---|
| `RunAttribution` | the tables `app_runs` and `polls`, and what attribution promises to those who read them | |
| `Monitor` | one target's monitor, its loop and requests, what it does to these tables, retention, crashes and boots | |
| `RunJournal` | abstract specification: a journal of successful polls and the runs they belong to | |
| `MonitorProperties` | invariants, refinement and liveness of `Monitor` | `MonitorProofs` |
| `Readers` | composes `MonitorProperties` with the readers of the view: `publicStatus` and `Manager.Summaries` | |
| `MonitorHistory` | no code: the inductive invariants that relate the monitor's memory, its tables and the application | `MonitorProofs` |
| `HealthCapability` | health discovery of the Quarkus and Micronaut collectors | `MicrometerProofs` |
| `MicrometerCollector` | composes `HealthCapability` with the streaming evaluation of the metrics document before it | `MicrometerProofs` |
| `SpringCollector` | source selection and the Actuator session | `CollectorsProofs` |
| `CaddyCollector` | label tuples and the counter-boundary baseline | `CollectorsProofs` |
| `CounterSeries` | series, baselines, sampling, buckets, public slots, cutoff | |
| `CounterSeriesProperties` | reference definitions and invariants of `CounterSeries` | `CounterSeriesProofs` |
| `Database` | version loop, migration, registration, with several processes | `ProcessProofs` |
| `Exposition` | one scrape of a Prometheus exposition, as its body arrives | `CollectorsProofs` |
| `Configuration` | operators: `Load`, the collectors built from what it accepts, when a file may be appended to | |
| `Inspection` | operators: requests, verdicts and suggestions of `inspect`, and what a collector then obtains | |
| `Onboarding` | processes of `inspect`, the application they probe and the configuration file they write | `OnboardingProofs` |
| `SelfMetrics` | request counters and their document, one atomic operation at a time | `SelfProofs` |
| `StatliteMetrics` | operators: what the StatLite Metrics collector makes of one response | |
| `SelfResources` | composes `StatliteMetrics` with its producer: the cached resources, process and host CPU, the document | `SelfProofs` |
| `Lifecycle` | main, signal, `Serve`, `Shutdown`, storage check, `/healthz` | `ProcessProofs` |
| `SumTheorems` | no code: induction, and the laws of the sums the models take | itself |

`MCReaders`, `MCDatabase`, `MCMicrometerCollector` and `MCOnboarding` hold the
values TLC gives the constants; other runs need only literals in their `.cfg`.
`MCAttribution`, `MCCollectors`, `MCLive` and `MCSelf` check several instances
in one run: a variable that never changes says which instance a behaviour is of,
the variables of the others keep one value, in `MCLive` one of which fairness
asks nothing. `MCAttribution` has two instances of `Monitor`; its properties are those of `RunAttribution`,
which speaks of the tables alone and is what the theorems state too.
Operators whose comment begins with "Mutant:" are the errors the properties
were tried on: a run with the mutant in the place of the definition that
follows it violates the property (`PROJECT.json`, "mutants").

### Monitor

One action per step of `PollNow` between which another goroutine, the cleaner
or a crash can come: `Lock`, `LoadPrevious`, `Collect`
(`CollectProcessStartTime` for Spring's Actuator source, whose start time is a
request of its own), `DetectAppRun` with the transaction of `EnsureAppRun` or
`TouchAppRun`, `Save`, `Reload` with `recordSuccess` or `recordFailure`. Every
step that calls the store may fail if its name is in `Faults`; a failure takes
the code's early return. `LoadSuccessfulHistory` and `CallPollNow` are the
loop's first poll, follow-up and ticker and the requests; `RetentionCleanup`,
`Boot`, `EnableNoPoll`, `Exit`, `AppRestarts` and `ClockMoves` are the rest.
The fields `seen`, `attempt` and `boot` of a poll are history. `caddy` in a row
of `app_runs` is its `target_type`, as far as attribution reads it.

Abstractions: a poll starts and finishes at one instant; clock units are as
coarse as retention, so the clock moves between polls only; error texts are
left out; a failed collection carries an error event and no samples; for a
Caddy target the stored samples stand for label tuples; each query is atomic
(`SetMaxOpenConns(1)`, `internal/storage/storage.go:34`); a failure to open the
database or to restore no-poll state just ends the process.

### Readers

`publicStatus` is an operator over the state `CurrentState` returns under one
lock. `Summarize` is `Manager.Summaries` for one monitor: `Status()` and
`LatestSnapshot()` are two steps with the monitor's steps in between.

### HealthCapability, MicrometerCollector, SpringCollector, CaddyCollector

Each is the state a collector keeps between scrapes, composed with the
application it scrapes. `HealthCapability` is one module for both frameworks:
the variable `framework` is fixed by the initial state, and the code's
difference between the two is where it is read.
`MicrometerCollector` refines its scrape: every sample the parser hands over is
a step (`AcceptSample`), folded into the sums, the sets of identities and the
flags of `micrometer.go`; the end of the document decides what is published and
which outcome the health part sees, and a document may break off anywhere. The
reference is a bag of the samples read so far. A series stands for its full
set of labels (collisions of the 128-bit fingerprints are ignored), code 0 for
labels the framework's validator rejects, -1 for a value that is not finite and
nonnegative, `MaxTotal` for the largest float; a document comes from one
process.
`SpringCollector` makes every HTTP request of an Actuator collection a step;
the application answers requests and restarts in between; `denied` remembers
that a scrape found the Prometheus endpoint absent or its document unusable,
the only grounds on which automatic selection may settle for Actuator. Gauges are left out:
a collection that yields gauges only counts as one without samples, and has no
counters to compare. A Prometheus document is of one instant. `CaddyCollector`
sums tuples that the model of Caddy serves, loses and reroutes; floats are
integers.

### Exposition

The body arrives piece by piece, three to a line: the start of its text, the
rest, its line feed. `Read` is one call of the reader chain (`finalByteReader`,
`countingReader`) with the turns of `Parse`'s loop it makes possible; the end
of the body, a limit, a dropped connection and the deadline stop the scanner,
which emits what is left without a line feed, possibly a part of a line with
another meaning (`StartOf`). Before that the client follows redirects to the
same origin or is refused. A line is its kind; sizes are counted in pieces.
`ScrapeIsExact` compares what was handed over with what the server serves;
`LimitsAreExact` says that a refusal for a limit has one passed, and a success
none; the run checks both as `ScrapesAreExact`.

### Configuration, Inspection, Onboarding

A URL is where it points to and the parts a check looks at: blanks around it,
credentials, query, fragment. A file holds text, and `Load` expands the
environment in it before anything else. `Environment` is what
`expandEnvironmentVariables` makes of each text, any function that leaves the
words of the program alone; `References` are the texts in which
`hasConfigEnvReference` sees a variable, which need not be all that change. In a
URL a variable stands for a part of the path; one that brings a port, a `#` or
YAML of its own is left out.
`Validate` follows `Load`: upgrade, checks of each target and of each pair,
then what validation changes. `Builds` is `newCollector` and the constructors
of its clients. `Appendable` is `inspectionTargetAppend`, which judges the text
before any of this.

In `Onboarding` every request of an inspection is a step, the application may
be deployed anew or stopped between two, and the deadline may pass; then every
system call on the file is a step: `Open` (`O_EXCL`), `Write`, which may be cut
short, `Remove` after a failed creation, `Read`, `AppendEntry` (`O_APPEND`, on
what is there by then), with kills in between and a user who replaces the file.
The line feed before a new entry, and its indentation, were decided from what
`Read` saw; if the file ends with an entry that was cut short since (`EndsCut`)
the text may no longer parse. What such glued text makes of the two entries
otherwise is not modelled: both stay in it. The path of an untyped inspection
is a base whatever it is (`InputsAssumption`).
`confirmed` and `sound` are history, `raced` marks a confirmation of an append
to a file that was just being created, or whose layout had changed.
Probing only reads the application, so one process at a time is between its
first and last request. There is one host and port; `Normalize` leaves out the
relative database path.

### CounterSeries

The read path is pure: a table of polls, possibly one failed cleanup behind
the cutoff, and operators for what the queries and the Go code make of it.
Polls arrive (`StorePoll`), are pruned, and StatLite restarts; the properties
compare the operators with reference definitions in every state. `masked` is
history: the application restarted and the monitor attributed the next poll to
the old run, because nothing it saw revealed the restart. Gauges count
by their presence; latency is a pair of deltas, not a float quotient; a window
ends at most one unit after now.

### Database

A transaction is one action that commits or changes nothing; `Store.init`'s
reads outside a transaction are actions of their own, because a second process
or another program may change the file in between. A file is its version, whose
tables it holds, which of the version 2 columns, and whether its references are
sound. Rows of `app_runs` with the same target, start and type are one element.
`config.Load` refuses repeated names, so configurations are functions.

### SelfMetrics, StatliteMetrics, SelfResources, Lifecycle

Every atomic operation on a counter is an action, and so is every load of a
scrape; `between` holds the handlers that had counted a 404 but not yet its 4xx
when the document read the 404s. A panic in a handler is not modelled.

`SelfResources` is the other half of `/statlite/metrics`. `Ask` takes the time,
`UseSnapshot` or `Sample` hold `resourceMu`; between the two other scrapes come
to the lock, so `now` may lie before the last snapshot. `Sample` is
`HostSampler.Sample`, each of whose readings may fail, then `processCPUUsage`.
The clock, the CPU time the process uses and the fields of `/proc/stat` move in
`Tick`. `SelfDocument` is what the handler encodes and `Collect`, in
`StatliteMetrics`, what another StatLite makes of it: a number is a fraction,
so that a usage is exact. Memory and disks are told apart only by whether what
the system says can be.

In `Lifecycle` every goroutine
has a program counter; `Ping` may fail at any time, because the one connection
may be busy for longer than the check's timeout.

## 3. Runs

| Run | Instance | Shows |
|---|---|---|
| `readers` | `Monitor` with its readers; every scrape has a start time; load, detect, save faults; 3 attempts, 2 boots, 2 application processes, pruning of all but the present clock unit | published state is one update, is what the API shows, is what no-poll mode restores; the baseline is the newest success; refinement of `RunJournal` |
| `attribution` | two targets: start time, uptime and a counter that come and go, save faults; two Caddy tuples that come, go and fall, all faults; 3 attempts, 2 boots, 2 processes | restart events mark new runs, once each; runs are contiguous; deltas stay in one process; no run hides a reset that uptime or counters reveal; Caddy runs are unbroken |
| `live` | fair; loop and request, separate start-time requests, clock set back, all faults, 3 processes; 1 attempt beside the two the loop starts with, 1 boot; beside it `Lifecycle` with 2 requests | types, mutual exclusion, one start time per run; polls return; startup settles; no unknown verdict; checks stop; signals end the process |
| `micrometer` | both frameworks; any document of 3 samples of a 404, a 500 and a rejected series, limit of 2 identities, sums up to 2; 2 processes | what is published is what the set of samples determines, omissions are warned of; discovery resumes (Micronaut); losses are reported and asked for again |
| `health_quarkus` | health discovery of Quarkus, scrapes with and without start time, 4 processes | *expected violation*: discovery does not resume, section 6 |
| `series` | 3 polls with gaps, resets, failures and missed restarts, 3 times, one failed cleanup at every start | windows agree; sampling keeps totals and the latest point; nothing from before the cutoff; ratios of matching deltas |
| `database` | 2 processes of 2 boots, 2 names, 2 types, any file, a foreign program | writes are supported; ready means usable and registered; refusals have a cause; names keep types, runs keep history |
| `collectors` | any exposition of up to 3 lines, any framing, limits of 8 pieces and 2 samples, 1 redirect; Spring: 3 statuses, 2 processes, 2 collections, any request may fail; Caddy: 3 labels, 2 servers, limit of 2 tuples, 2 resets, 3 collections | a scrape hands over the document and its limits are exact; Spring totals are consistent, without a decrease inside a process, and failures never downgrade; Caddy's deltas are traffic and new tuples join |
| `self` | 2 handlers of up to 2 writes, 2 requests, 1 document; 2 scrapes of the resources, an interval of 2 in 5 units of time, host counters up to 2, capacities that can be and that cannot | counters and maximum exact when idle; the document is off by handlers in flight only; CPU usage is an average over the interval; StatLite collects its documents whole |
| `onboarding` | 2 processes, 9 command lines, 22 applications, 9 files and 24 700 that are only loaded, 5 variables in names, types, hosts and paths, 1 deployment or edit | what is reported as written stays; sound files load; what loads is built and loads again; suggestions hold |
| `duplicate_endpoint` | 1 process, 2 files | *expected violation*: one endpoint is configured twice, section 6 |
| `expanded_names` | 1 process, no file or one, 2 names that are variables | *expected violation*: a name that was checked as text is empty or taken when it is loaded, section 6 |

Bounds and why they are enough. The interesting cases of `Monitor` need a
successful poll, something that goes wrong, and a poll that must cope: three
attempts, to which each boot adds the loop's first poll and its follow-up.
Two boots give a restart in every position; two application processes a
restart, three one that is missed and one that is seen. `MaxLevel` 1 is enough
for a counter to rise, stay and fall; `readers`, whose scrapes always report
the start time, needs no levels. `Retention` 0 prunes whatever is older than
the present clock unit, the harshest an enabled cleaner can be.
`TrailingLimit` 2 stands for the code's 100, low enough to be reached. In
`CounterSeries` three polls make a baseline, a point and its successor, or a
bucket with a poll that sampling skips; the scrapes a poll may store are those
that tell the rules apart: none, all counters, errors without requests, and
requests without errors and time. In `Database` two processes let one act
between two reads of the other. In `MicrometerCollector` three samples make
a count, its sum and one that repeats, mismatches, overflows or exceeds the
limit of two identities. In `SelfMetrics` two handlers contend for one
compare-and-swap. In `SelfResources` an interval of 2 tells an older snapshot
from a fresh one, five units give two intervals between three snapshots, and two
scrapes come to the lock in either order; counters up to 2 rise, stand still
and fall, and `Word` 8 lets a difference wrap. In `Exposition` a line, its end,
the end of the document and one byte more than a limit are all within a few
pieces. In `Onboarding` two
processes make every race of the file, because its steps commute with those of
others unless they write; the applications pair each answer a recognizer tells
apart with each place `inspect` asks, and the files each exception of the
upgrade with each field it concerns; a variable is set or not, is seen by
`inspect` or not, and hides a name, a type, a host or a path. Deadlock checking is off everywhere:
StatLite may be down for good, and every bound ends in a state without steps.

Fairness. `live`: the loop's own steps, its startup timer and every step inside
`PollNow` are weakly fair because goroutines run; `Lock` is strongly fair
because `sync.Mutex` hands itself to a waiter within bounded time (starvation
mode). Ticks, requests, boots, exits, pruning and the application owe nothing.
Of `Lifecycle`: the steps of main, `Serve` and `Shutdown`; signals, ticks,
requests and listener failures owe nothing, and `Serve` owes its return only
once `Shutdown` was called.

## 4. Proofs

Theorems hold for every value of the constants that meets the `ASSUME`s of the
module, which TLC evaluates in every run.

* `MonitorProofs`: `TypeCorrect` (types, and one goroutine inside `PollNow`) and
  `RunsHaveOneStart` (a poll that reported a start time is in the run of that
  start time). Neither is inductive alone. `IInv` adds that `polls` is finite
  with attempts as a bound on its ids, and `Attribution`: polls about to be
  stored are attributed already, and a snapshot that may serve as baseline still
  knows its run's start time. The crux is the step in which `detectAppRun` keeps
  the baseline's run: it does so only if the scrape's start time is missing or
  the one of the baseline (`KeptRunStart`), and rows of `app_runs` are never
  deleted and never change their start time, whatever the cleaner, a crash or
  another goroutine does.

  Its second half is about what the monitor remembers, shows and stores, for any
  number of pollers, values of the samples, prunings, crashes and restarts. Each
  part of `MonitorHistory` is inductive given those before it; `readers` and
  `attribution` check the properties that follow.
  - `Memory`: the baseline is the newest stored success or one pruned since. It
    must cover every moment of a poll: what is stored but not read back
    (`Unread`) is newer than all else, ids and times agree (`IdsFollowTime`),
    and a poll without a baseline has looked for one (`BaselineIsNewest`). From
    it `BaselineStaysCurrent`.
  - `View`: status, view and health are of the newest attempt, stored or not;
    hence `RestartShowsTheSame`. `SummaryOK` adds a reader between its two
    reads; hence `OneStateShown`.
  - `Observing`: what the application shows never goes back within a process,
    and a start time is that of the process whose counters came with it
    (`StartsAreSeen`). The latter alone gives `DeltasAreOfOneProcess`, whose
    only hypothesis is that one document carries both.
  - `Attempting` and `Opening`: which failures the monitor has counted, and that
    the run opened for a collection is new, or one that waits for its first poll
    since a save that failed (`CarriedRun`).
  - `RunOrder`, from all of these: `RunsStayContiguous`, `ResetsAreNotMasked`,
    `RestartEventsOpenRuns`. The crux is an old run found again by its start
    time: it would have to start where a later process is already observed
    (`RunsAreLeftBehind`). `CaddyRunsStayUnbroken` instead counts attempts.
  - `JournalImplemented`: with start times in every response, each step of
    `Monitor` is a step of `RunJournal` or a stutter. `Save` appends, `Cleanup`
    prunes, and what the journal calls `last` is the baseline or, while none is
    loaded, the newest success in the table (`NewestExists`).
* `MicrometerProofs`: `MicronautRediscovers`, which is `MicronautResumes`. The invariant says that the remembered start time is the
  one last reported, which a pending health request will not replace; this is
  the guard the Quarkus collector lacks. `LossReported`, for both collectors: a
  start time that is kept is the one last observed, at worst it is forgotten, so
  nothing but an observed restart can turn what has answered into unknown
  (`KnownSinceAnswer`). `EvaluationStaysExact`: after every sample, the
  collector's records are a function of the bag read so far, not of its order.
  `Identities`: until the matching limit is passed the identities are the
  document's series, and it is passed exactly by a document with too many; what
  is duplicate or invalid is so in the document. `Summed`: a total is the
  document's sum while no series repeated, or was given up because that sum is
  too large; sums only grow, so a total once given up stays so, whatever comes
  after. `RuntimeIsRead` says the same of the process's gauges, of which all but
  the heap must come once. `CollectorImplementsHealth` carries
  `MicronautRediscovers` and `LossReported` over to the whole collector.
* `CollectorsProofs`, three collectors that share a run:
  - Spring: `NeverDowngrade`. The invariant adds the program counter: requests
    of an Actuator collection are only made once Actuator is selected, and it is
    selected only where a scrape has found the grounds. `TotalsStayConsistent`:
    the 404s of one collection are among its 4xx because both totals sum the
    same session's answers (`AnswersAreShared`). That no total decreases while
    the application counts on during a collection needs a witness, some counts
    `g` the application had between two collections (`CountedBetween`):
    everything reported before sums to no more than `g`, every answer since is
    no less, and a status that is missing from the list was 0 in `g`.
  - Caddy: `DeltasStayServed`. The witness is what had been served when the
    baseline was collected: no tuple has gained more since than was served of
    its label (`ServedSince`), a lost one that counts anew included, and while
    nothing was reset exactly that (`AllServedSince`). Where no tuple of the
    baseline is gone or smaller, the sums over tuples become sums over labels
    (`PerLabel`) and the delta lies within the traffic, or is all of it.
  - `Exposition`: `ScrapesStayExact`. After every piece that arrives the parser
    has handed over the samples of the first `n` whole lines, once and in order,
    with `n` what was received (`HandedOf`); a scrape then ends in one of the
    ways `LimitsAreExact` allows.
* `SelfProofs`: `MetricsStayExact`, the accounting of requests in flight. Every
  counter is what the finished requests add up to plus what each handler has
  already added where it stands (`Accounted`); the maximum is the longest
  duration of those past it, and whoever has yet to swap holds a longer one than
  it compared with (`MaximumIsLongest`). With no handler in flight the second
  sum is 0, which is `ExactWhenIdle`; and 404s exceed 4xx by the handlers
  between the two additions, each of which adds at most 1. `UsageAveraged`
  follows from `Clocked` (the time of the last CPU reading is that of the
  snapshot and is past, so a scrape that finds the snapshot stale is early,
  which computes nothing, or an interval late). `DocumentsCollected` follows
  from `Sound`: values and pairs of the snapshot are what the collector accepts,
  because differences of counters that did not fall do not wrap (`NoWrap`) and
  the parts of a snapshot share no field (`SnapshotSound`).
* `SumTheorems`: the sums of the models are folds, whose recursive function must
  first be shown to exist (`SumsExist`). Library theorems on induction take an
  operator, which the provers cannot instantiate; here induction is stated of a
  set, the numbers or the subsets of a finite set for which something holds
  (`NumberInduction`, `SubsetInduction`), from the well-foundedness of the
  natural numbers. From these come the laws used above: a sum is a number, it is
  monotone, it splits over disjoint sets and over a pointwise sum, it ignores
  zeros (`SumSupport`), and renaming its indices keeps it (`SumBijection`).
* `CounterSeriesProofs`: the four properties of the read path, for any history,
  windows, strides, counters and limits on points. They are about operators, so
  most of the proof is lemmas that take the stored polls as they are; the
  invariant says what is stored (`HistoryIsSound`): rows in the order of their
  ids, one run after the other, and counters that never fall, nor grow faster
  than the requests, within a run, unless a restart was masked (`RunsGrow`). It
  also bounds the application's present counters (`LevelAbove`), from which the
  next poll gets its own. `PointsIn` says what a reading in order yields: a
  point has, for each counter, the newest row that was read before it or came as
  a baseline. For the native series these are all earlier polls of the table,
  whatever the window; hence `EveryWindowAgrees`, and `ReadersStartAtTheCutoff`,
  where a window that starts at the cutoff has its first poll as its baseline. A
  ratio divides deltas that `matchingCounterBaseline` allowed for one baseline,
  so that `PublishedRatiosMatch` follows from `RunsGrow` and from sums being
  monotone. The crux is `SamplingLosesNothing`. A poll that is neither the first
  nor the last of its bucket and run lies between two of both, and leaving it
  out merges two deltas into the one across it (`DeltaSplits`); this needs
  `RunsGrow`, since after a masked reset one of the two would be missing. The
  endpoints then keep the totals by induction over the polls left out, each of
  which is still between endpoints when it goes.
* `ProcessProofs`, about `Database`: what a monitoring process relies on
  survives every other process. `IInv` is `Shape`, `Progress` (past the version
  check the file has version 2, past the column check the columns, and no
  transaction changes such a file) and the three registration invariants, which
  hold together: a bound name is never rebound, hence a registered configuration
  stays registered. `HistoryKept` and `WritesAreSupported` follow step by step.
  They in turn make causes of a refusal last, from which `RefusalHasCause`
  follows with `KnowsWhatItRead`: unless it was disturbed, what a process read
  last is so.
* `ProcessProofs`, about `Lifecycle`: `NoUnknownAnswer` (requests come after the
  first verdict) and `ChecksStopped` (the cancel function is in the server, in
  one goroutine's hands, or called).
* `OnboardingProofs`: `ConfirmedStay`, `SoundLoad`, `AcceptedBuilds` and
  `SuggestionsRight`. The first part is about the operators:
  `AppendedLoads`, that a file with a suggested target appended loads exactly
  when the target's expanded name is not empty and not taken, for any
  environment that leaves its URL alone; `AppendStaysAccepted`, that the checks
  made on the text therefore suffice for `Load` where the environment changes no
  name and no URL (`Literal`), without which they do not (section 6); and
  `AcceptedBuild`, that an accepted target builds (`ValidBuilds`) and is
  settled (`NormalSettles`). The second is the invariant: a process past its
  suggestion holds one that was validated alone; one about to append holds a
  file it was appendable to; and one process at most creates the file, during
  which the file is not sound and every confirmation is marked raced
  (`OneCreator`). Without `OneCreator` the removal after a failed creation could
  take a confirmed target with it. The third is about suggestions:
  `SuggestionsRight`. While the application stays the same and the deadline is
  not past, the answers a process holds are those the application gives, and
  each label says what they must have told to get there (`Knows`, in
  `AnswersHold`): no integration at `direct`, Spring alone at `prometheus`, an
  exposition that cannot be read or is absent at `index`, nothing compatible at
  the URL itself at `fallback`. The loaded target asks what inspection asked
  (`SuggestedLoads`, `SpringCollects`), because `AsksIndex` and the fallback of
  automatic selection agree; and after a suggestion only a deployment can make
  it wrong, which clears `steady`.

The hypotheses of the theorems on `MonitorHistory` are the code's, not the
prover's: each is a case of section 6 or a fault after which the property fails,
as TLC shows at once without it. `~ClockMayStepBack` is on all theorems that
compare polls by time; `"reload" \notin Faults` where a success recorded as a
failure would be seen; `OneDocument` where start time and counters must be of
one process. Caddy, which reports no start time, needs only the first.

`CollectorImplementsHealth` needs `Scrapes` to hold the three ways a scrape
ends. The other theorems have no hypotheses beside the `ASSUME`s. These say of
the constants what every execution provides: finitely many handlers, durations
and label tuples, three counters of a poll, codes from 100 to 599, bounds that
are numbers, counters of the host that fit their word.

Every invariant and every action property of a passing run is stated by a
theorem. Only model-checked are the liveness properties `PollsReturn`,
`StartupSettles` and `SignalEndsProcess`: fairness is stated with `ENABLED`,
which is beyond the provers.

## 5. Not modelled

Request parsing, JSON, HTML and browser code; the grammar of one exposition
line; the parsing of `/proc`, and how macOS and Windows are read; the server,
storage and polling sections of a configuration (one flag), its loopback
warning and variables whose values are not plain text of one value; flags and texts of the command
line; several monitors sharing the manager's target lookup; event queries. They
keep no state that outlives a call, or only gauges nothing depends on. Examples
and scripts are not part of the program.

Smaller differences, none of which a property can tell:

* `Monitor`: the four queries of `LatestSnapshot`
  (`internal/storage/query.go:101-177`) are read at once; one connection serves
  them, and between two of them only the cleaner can write to this target, whose
  polls `pollMu` keeps apart; it would have to delete the newest poll. Where a
  collection failed by an error event alone, `PollNow` returns the newest
  snapshot and no error (`internal/monitor/monitor.go:246`), and `Return` passes
  none. That snapshot is the failed poll's, which asks for no follow-up, unless
  the clock was set back; then the loop may poll once more.
* `CounterSeries`: `DeletePollsBefore` and the tracker's `Set`
  (`internal/storage/retention.go:69-75`) are one step. Latency also asks for a
  positive request delta (`series.go:309`); that differs after a masked reset
  only, which `RatiosMatch` excludes.
* `Exposition`: a comment that begins with `# EOF` and goes on
  (`internal/prometheus/prometheus.go:257`), and a gzip header too large for the
  limit (`:152`), which takes limits far below the defaults.
* `Database`: the three pragma reads of `checkV2Columns`
  (`internal/storage/migration_v1.go:121`) are one read of the columns.
* `Inspection`: an index of metrics that names none counts as `index`, as in
  `recognizesSpringMetricsIndex` (`internal/inspect/inspect.go:351`); that a
  collector then finds no metric is left out.
* `SelfResources`: the reading of the process's own CPU time does not fail
  (`internal/server/health.go:127`).

Requests in progress at shutdown are cut off: `Serve` returns when `Shutdown`
begins, main returns on that, and nobody waits for the ten-second drain
(`cmd/statlite/main.go:261-288`). `Lifecycle` models this; nothing in the
repository promises otherwise.

## 6. Where code and documents disagree

Three runs find one each; `PROJECT.json` quotes them in full. `health_quarkus`: a
scrape without a start time makes a Quarkus collector forget the start time it
compares with, so that discovery does not resume after a restart
(`internal/collector/quarkus.go:134`; `docs/targets/quarkus.md:63`).
`internal/collector/micronaut.go:153` guards against exactly this.
`duplicate_endpoint`: `inspect --add-to-config` compares the endpoints in the
text of the file, so that it appends a target at an endpoint that is already
configured with a trailing slash or in a retired format
(`cmd/statlite/inspect_config.go:262`; `docs/configuration.md:118`).
`expanded_names`: `inspect` validates and compares the name it is given as text
and looks for variables in the existing targets only
(`inspect_config.go:222`), while `Load` expands the text of the whole file
(`internal/config/config.go:96`). One process, undisturbed, with
`--name '$UNSET'` or, where `SHOP` is the name of another target,
`--name '$SHOP'`, writes a file that `Load` refuses; the comment on `Validate`
(`config.go:141`) says that it checks what is enough for a normal startup and is
used on generated snippets. A URL with a variable is likewise loaded as another
one than was probed, and in existing targets `$-` is expanded but not noticed
(`inspect_config.go:255`). `SoundFilesLoad` and `SuggestionsHold` therefore ask
about names and URLs the environment leaves alone.

The others were met while modelling. The runs exclude them by a constant or by
a hypothesis that a property states; without it the property fails at once.

* `internal/monitor/monitor.go:234`, `internal/storage/query.go:117`: after the
  wall clock is set back, the poll that `PollNow` reloads as the newest is an
  older one (`BaselineIsCurrent` in `Readers.cfg` with
  `ClockMayStepBack = TRUE`; the comment at `monitor.go:265` promises one
  completed update).
* `monitor.go:234`: when the reload after a committed save fails, the next poll
  reports the same restart again (`RestartEventsMarkNewRuns` in
  `MCAttribution` with `Faults <- {"reload"}`; the comment at
  `monitor.go:45`).
* `internal/collector/spring.go:246`: an application that restarts between the
  counters and the start time of an Actuator collection is stored with the old
  counters and the new start time (`DeltasStayInOneProcess` in
  `MCAttribution` with `OneDocument <- FALSE`; `docs/product.md:328`,
  "Counter deltas do not cross detected process runs").
* `monitor.go:435`: the failures that turn a drop of one counter into a restart
  are counted in memory and forgotten when StatLite restarts
  (`docs/product.md:324`). `NoMaskedReset` asks no more than the code can know.
* `internal/server/api.go:131`: after a failed cleanup, where the first
  retained poll lacks a counter, a clamped dashboard window counts from before
  the cutoff (`ClampedWindowStartsAfresh` without `Complete`; the comment at
  `internal/server/request.go:108`).
* `internal/storage/public_metrics.go:62`: a restart that no signal revealed,
  after which the counters passed their old values, can make a 5xx rate above 1
  (`RatiosMatch` without `~masked`; `docs/api.md:163`, "a fraction
  from 0 to 1").
* `internal/server/metrics.go:55`, `server.go:210-223`: a request is counted
  when it begins and its status when it ends, the 404 before the 4xx. A document
  may show one more 404 than 4xx responses (`docs/statlite-metrics-v1.md:106`),
  and between two documents more errors than requests. `MetricsAddUp`
  bounds both by the handlers in flight.
* `internal/collector/micronaut.go:258`: a count series that is repeated omits
  the duration too, under a warning that names only the request and status
  counters (`docs/targets/micronaut.md:84`, "record focused warnings").
  `OmissionsAreReported` asks for some warning of the HTTP metrics.
* `cmd/statlite/inspect_config.go:162`: two processes that append the same
  target, each checked against the file before the other wrote, leave a file
  with a name twice, which `Load` refuses. `SoundFilesLoad` is about processes
  that append to what they read.
* `inspect_config.go:121`: a creation that fails removes the path, and with it
  what another process appended to the file meanwhile and reported as written
  (the exception `raced` of `ConfirmedTargetsStay`).
* `inspect_config.go:138`: an append that is cut short leaves the part it wrote;
  the file may then not load, or name a URL that was never suggested.

## 7. Plan

Done, in this order: `Monitor` with its properties, refinement and first
proofs; `HealthCapability`; `CounterSeries`; `Database`; `SpringCollector`;
`CaddyCollector`; `SelfMetrics`; `Lifecycle`; `Readers`; `MicrometerCollector`;
`Exposition`; `Configuration`, `Inspection` and `Onboarding` with their proofs;
`StatliteMetrics` and `SelfResources`.

Each run answers one question on an instance that finishes in a minute or two;
larger ones (four attempts, three boots, four polls) are for longer sessions.

Next, proving: the theorems of one target for a manager of several (below);
progress, with provers that handle `ENABLED`.

Next, modelling:

1. A manager of several targets over one store: `ResolveTarget`'s two passes
   while monitors poll, retention across targets, one connection.
2. Failure grouping of a Spring session (`addMetricFetchFailure`) against a
   reference definition, and gauges with their validity ranges.
