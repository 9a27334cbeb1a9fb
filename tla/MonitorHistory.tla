---------------------------- MODULE MonitorHistory ----------------------------
(***************************************************************************)
(* What the monitor's memory and its tables have in common in every state: *)
(* the strengthening of the properties of MonitorProperties and Readers    *)
(* that is inductive, proved so in MonitorProofs.  The wall clock is       *)
(* never set back here.                                                    *)
(***************************************************************************)
EXTENDS Readers

\* The labels at which a goroutine carries a result not yet published.
Carrying == {"start_time", "detect", "save", "reload"}

\* Polls committed but not yet read back by the goroutine that stored them, and
\* the others.
Unread == {pollID[g] : g \in {h \in Pollers : pc[h] = "reload"}}
Settled == DOMAIN polls \ Unread
SettledOk == OkPolls \ Unread

-----------------------------------------------------------------------------
(* The monitor's memory.                                                   *)

\* Only a polling StatLite has goroutines, and only a running one has memory.
MemoryFollowsMode ==
  /\ mode # "polling" => pollMu = {} /\ pc = [g \in Pollers |-> "idle"]
  /\ mode = "down" =>
       /\ previous = NoSnapshot /\ status = NoStatus
       /\ latest = NoSnapshot /\ health = NoHealth

\* Ids and times agree on the order of polls, and no poll is of the future.
IdsFollowTime ==
  /\ 0 \notin DOMAIN polls
  /\ now # 0
  /\ \A p \in DOMAIN polls : polls[p].at # 0 /\ polls[p].at <= now
  /\ \A p, q \in DOMAIN polls : p < q => polls[p].at <= polls[q].at

\* A collection in progress is of this instant, and was stored last.
CarriedIsNow ==
  \A g \in Pollers :
    /\ pc[g] \in Carrying => result[g].at = now
    /\ pc[g] = "reload" =>
         /\ pollID[g] \in DOMAIN polls
         /\ polls[pollID[g]] = result[g]
         /\ \A p \in DOMAIN polls : p <= pollID[g]

\* Whether the baseline in memory is known to be the newest success: a poll that
\* could not be read back after it was stored counts as failed.
Current == "reload" \notin Faults \/ (status.failures = 0 /\ status.lastSuccessAt # 0)

\* The baseline is a stored success or one pruned since, and none is newer.
BaselineIsNewest ==
  /\ previous # NoSnapshot =>
       /\ previous.id # 0 /\ previous.result.ok
       /\ previous.result.at # 0 /\ previous.result.at <= now
       /\ \A g \in Pollers : pc[g] # "load"
  /\ previous # NoSnapshot /\ Current =>
       \A p \in SettledOk : p <= previous.id /\ polls[p].at <= previous.result.at
  /\ previous # NoSnapshot /\ Current /\ SettledOk # {} =>
       previous.id \in SettledOk /\ previous = Snapshot(previous.id)
  /\ previous = NoSnapshot =>
       \A g \in Pollers : pc[g] \in Carrying \cup {"collect"} => SettledOk = {}

\* The status speaks of the baseline and of the newest attempt.
StatusIsOfBaseline ==
  /\ status.lastSuccessStored = 0 <=> status.lastSuccessAt = 0
  /\ status.lastSuccessStored # 0 =>
       /\ previous.id = status.lastSuccessStored
       /\ previous.result.at = status.lastSuccessAt

StatusIsOfNewestAttempt ==
  /\ status.lastPollAt <= now
  /\ status.lastPollAt = 0 => status = NoStatus /\ health = NoHealth
  /\ status.lastPollAt # 0 =>
       /\ \A p \in Settled : polls[p].at <= status.lastPollAt
       /\ previous # NoSnapshot => previous.result.at <= status.lastPollAt
       /\ status.failures = 0 => status.lastSuccessAt = status.lastPollAt
       /\ status.failures # 0 => status.lastFailedAt = status.lastPollAt
       /\ health # NoHealth => health.at = status.lastPollAt

\* A stored attempt is what the view shows.
LatestIsOfNewestAttempt ==
  /\ latest.result.at <= now
  /\ status.lastStored # 0 => status.lastPollAt <= latest.result.at
  /\ status.lastStored \in Settled =>
       /\ \A p \in Settled : p <= status.lastStored
       /\ latest = Snapshot(status.lastStored)
       /\ status.lastPollAt = polls[status.lastStored].at
       /\ health = HealthObservation(polls[status.lastStored])
       /\ status.failures = 0 <=> polls[status.lastStored].ok

Memory ==
  /\ MemoryFollowsMode /\ IdsFollowTime /\ CarriedIsNow /\ BaselineIsNewest
  /\ StatusIsOfBaseline

View == StatusIsOfNewestAttempt /\ LatestIsOfNewestAttempt

\* A summary in progress belongs to a running process, and its status names no
\* poll newer than the snapshot that goes with it.
SummaryOK ==
  /\ summary \in [step : {"none", "status", "done"}, status : Statuses, latest : Snapshots]
  /\ mode = "down" => summary.step = "none"
  /\ summary.step = "status" /\ summary.status.lastStored # 0 =>
       summary.status.lastPollAt <= latest.result.at
  /\ SummaryNotBehind

-----------------------------------------------------------------------------
(* Attempts: which boot made them, and which of them failed.               *)

AttemptsAreOfBoots ==
  /\ \A p \in DOMAIN polls : polls[p].boot <= boots
  /\ \A g \in Pollers : pc[g] \in Carrying =>
       result[g].boot = boots /\ result[g].attempt = attempts

\* The failed polls since the baseline are of earlier boots unless counted.
FailuresAreCounted ==
  mode = "polling" /\ status.failures = 0 =>
    \A p \in Settled \ OkPolls : previous.id < p => polls[p].boot # boots

\* After a success and no failure since, the baseline is the newest poll and of
\* the attempt before the one in progress.
SuccessIsLast ==
  mode = "polling" /\ status.failures = 0 /\ status.lastSuccessAt # 0 =>
    /\ previous # NoSnapshot
    /\ \A p \in Settled : p <= previous.id
    /\ previous.result.boot = boots
    /\ attempts = previous.result.attempt + (IF pollMu = {} THEN 0 ELSE 1)

\* The tuples Caddy's breaks are judged by are those of the collection in
\* progress, or of the baseline.
CaddyBaseline ==
  Caddy =>
    /\ \A g \in Pollers : pc[g] \in Carrying /\ result[g].ok => baseline = result[g].samples
    /\ mode = "polling" /\ status.failures = 0 /\ status.lastSuccessAt # 0 =>
         /\ (\A g \in Pollers : pc[g] \notin Carrying) => baseline = previous.result.samples
         /\ \A g \in Pollers : pc[g] \in Carrying /\ result[g].ok /\ ~result[g].break =>
              \A s \in DOMAIN previous.result.samples :
                ~Decreased(s, previous.result.samples, result[g].samples)

Attempting ==
  AttemptsAreOfBoots /\ FailuresAreCounted /\ SuccessIsLast /\ CaddyBaseline

-----------------------------------------------------------------------------
(* Observations of the process: a start time and counters that never go    *)
(* back, when one response carries both.                                   *)

\* No more than the process has counted.
Counted(c, counting) ==
  /\ c.seen <= counting.incarnation
  /\ c.seen = counting.incarnation =>
       \A s \in DOMAIN c.samples : c.samples[s] <= counting.level[s]

\* d was observed after c.
Follows(c, d) ==
  /\ c.seen <= d.seen
  /\ c.seen = d.seen =>
       \A s \in DOMAIN c.samples \cap DOMAIN d.samples : c.samples[s] <= d.samples[s]

ObservationsAreOrdered ==
  /\ \A p \in OkPolls : Counted(polls[p], app)
  /\ \A p, q \in OkPolls : p < q => polls[p].seen <= polls[q].seen
  /\ previous # NoSnapshot => Counted(previous.result, app)
  /\ \A g \in Pollers : pc[g] \in Carrying /\ result[g].ok =>
       /\ Counted(result[g], app)
       /\ previous # NoSnapshot => Follows(previous.result, result[g])
       /\ \A p \in OkPolls : polls[p].seen <= result[g].seen

\* A start time is that of the process whose counters were read.
StartsAreSeen ==
  /\ \A p \in DOMAIN polls : polls[p].start \in {0, polls[p].seen}
  /\ \A g \in Pollers : pc[g] # "start_time" /\ result[g].start \in {0, result[g].seen}

\* When every response tells the start time, every success knows it.
StartsAreKnown ==
  /\ app.incarnation # 0
  /\ \A p \in OkPolls : polls[p].start # 0
  /\ \A g \in Pollers : pc[g] \in Carrying /\ result[g].ok => result[g].start # 0
  /\ previous # NoSnapshot => previous.runStart # 0

-----------------------------------------------------------------------------
(* App runs.                                                               *)

\* The runs are of this target, and Caddy reports no start time.
RunsAreOfTarget ==
  /\ 0 \notin DOMAIN runs
  /\ \A r \in DOMAIN runs : runs[r].caddy = Caddy
  /\ Caddy => \A r \in DOMAIN runs : runs[r].start = 0

\* A run starts no later than what is in it.
RunsStartBefore ==
  /\ \A p \in OkPolls : polls[p].run # 0 /\ runs[polls[p].run].start <= polls[p].seen
  /\ previous # NoSnapshot =>
       HasRun(previous) /\ previous.runStart <= previous.result.seen

\* A collection about to be stored is in the run of the baseline exactly when
\* nothing speaks against it; a run opened for it is new, or waits for its start
\* time since a poll that was never stored.
CarriedRun ==
  \A g \in Pollers : pc[g] = "save" /\ result[g].ok =>
    /\ result[g].run # 0
    /\ result[g].restart <=> RestartDetected(result[g])
    /\ ~NeedsNewRun(result[g]) => result[g].run = previous.result.run
    /\ NeedsNewRun(result[g]) =>
         /\ runs[result[g].run].start = result[g].start
         /\ result[g].start = 0 => \A p \in DOMAIN polls : polls[p].run # result[g].run

\* What is stored outside a run after a poll of it is of a later process.
RunsAreLeftBehind ==
  \A p, q \in OkPolls :
    p < q /\ polls[p].run # polls[q].run /\ runs[polls[p].run].start # 0 =>
      runs[polls[p].run].start < polls[q].seen

\* A restart event opens its run.
EventsOpenRuns ==
  \A p, q \in OkPolls : p < q /\ polls[q].restart => polls[p].run # polls[q].run

StartChangesAreEvents ==
  \A p, q \in OkPolls :
    /\ Successive(p, q)
    /\ polls[p].start # 0 /\ polls[q].start # 0 /\ polls[p].start # polls[q].start
    => polls[q].restart

Opening == RunsAreOfTarget /\ CarriedRun
Observing == ObservationsAreOrdered /\ StartsAreSeen
RunOrder ==
  /\ RunsStartBefore /\ RunsAreLeftBehind /\ EventsOpenRuns /\ StartChangesAreEvents
  /\ RunsAreContiguous /\ NoMaskedReset
=============================================================================
