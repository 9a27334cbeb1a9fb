------------------------------- MODULE Monitor -------------------------------
(***************************************************************************)
(* One target's monitor: the polling loop, the HTTP callers of             *)
(* /debug/poll-now, the SQLite rows they share with the retention cleaner, *)
(* and the crashes, restarts and storage errors in between.                *)
(*                                                                         *)
(* A poll (PollNow) is split where another actor can get in: waiting for   *)
(* pollMu, each database transaction, and the scrape.  Everything the code *)
(* does between two such points is one action.                             *)
(*                                                                         *)
(* Time is counted in units of the retention granularity (days), so the    *)
(* clock moves only between polls; PollStartedAt and PollFinishedAt are    *)
(* one instant.  0 stands for a nil time, a NULL id and a missing process  *)
(* start time.                                                             *)
(***************************************************************************)
EXTENDS FiniteSets, RunAttribution

CONSTANTS
  Loop,             \* the goroutine started by Monitor.Start
  Callers,          \* goroutines serving /debug/poll-now
  Caddy,            \* TRUE when the collector is the Caddy one
  OneDocument,      \* TRUE when one response carries every sample and the start time
  Exposures,        \* the sets of signals a scrape may find, "start" among them
  MaxLevel,         \* cumulative values run through 0..MaxLevel
  Health,           \* the health values a collection may report, "" for none
  Faults,           \* where storage may fail: "load", "detect", "save", "reload"
  ClockMayStepBack, \* TRUE when the wall clock can be set back
  Retention,        \* clock units a poll is kept after the one it started in
  TrailingLimit,    \* trailingFailedPollLimit
  MaxIncarnation, MaxClock, MaxAttempts, MaxBoots  \* bounds

ASSUME LoopAssumption == Loop \notin Callers
ASSUME BooleanAssumption == Caddy \in BOOLEAN /\ OneDocument \in BOOLEAN
ASSUME BoundAssumption ==
  /\ MaxLevel \in Nat /\ Retention \in Nat /\ TrailingLimit \in Nat \ {0}
  /\ MaxIncarnation \in Nat \ {0} /\ MaxClock \in Nat \ {0}
  /\ MaxAttempts \in Nat /\ MaxBoots \in Nat

Pollers == {Loop} \cup Callers

\* The samples restart detection compares, and the counters among them.
Signals == (UNION Exposures) \ {"start"}
Counters == Signals \ {"process_uptime"}
Levels == 0..MaxLevel
NoSamples == [s \in {} |-> 0]

VARIABLES
  now,       \* the wall clock
  app,       \* the monitored process: incarnation and levels at the last scrape
  mode,      \* "down", "polling" or "no_poll": the StatLite process
  boots,     \* how many times it was started
  attempts,  \* how many polls were begun, over all boots
  pollMu,    \* the goroutines holding Monitor.pollMu
  pc,        \* where each goroutine is in PollNow
  result,    \* each goroutine's CollectionResult
  pollID,    \* the id SaveCollectionResultWithAppRun returned to it
  baseline,  \* CaddyCollector.previous
  previous,  \* Monitor.previous
  status,    \* Monitor.status
  latest,    \* Monitor.latest
  health,    \* Monitor.health
  loopAt,    \* where the loop is outside PollNow
  history    \* what loadSuccessfulHistory returned to the loop

environment == <<now, app>>
process == <<mode, boots>>
database == <<polls, runs>>
view == <<previous, status, latest, health>>
loop == <<loopAt, history>>
vars == <<now, app, mode, boots, attempts, polls, runs, pollMu, pc, result,
          pollID, baseline, previous, status, latest, health, loopAt, history>>

-----------------------------------------------------------------------------
(* Values.                                                                 *)

\* One collection, as stored in polls, metric_samples and collector_events.
\* "seen", "attempt" and "boot" are history: the incarnation whose counters
\* were read, and which attempt of which StatLite process this was.
NoResult ==
  [at |-> 0, ok |-> FALSE, start |-> 0, samples |-> NoSamples, health |-> "",
   break |-> FALSE, run |-> 0, restart |-> FALSE,
   seen |-> 0, attempt |-> 0, boot |-> 0]

NoSnapshot == [id |-> 0, result |-> NoResult, runStart |-> 0]
NoHistory == [loaded |-> FALSE, snapshot |-> NoSnapshot]
NoHealth == [value |-> "", at |-> 0]
NoStatus ==
  [lastPollAt |-> 0, lastSuccessAt |-> 0, lastFailedAt |-> 0, failures |-> 0,
   lastStored |-> 0, lastSuccessStored |-> 0]

HealthObservation(r) ==
  IF r.health = "" THEN NoHealth ELSE [value |-> r.health, at |-> r.at]

-----------------------------------------------------------------------------
(* Storage.                                                                *)

\* SQLite's rowid for a new row of an INTEGER PRIMARY KEY table: one more
\* than the largest one present.
IsFreshId(id, table) ==
  /\ \A i \in DOMAIN table : i < id
  /\ id = 1 \/ id - 1 \in DOMAIN table

Insert(table, id, row) ==
  [i \in DOMAIN table \cup {id} |-> IF i = id THEN row ELSE table[i]]

Before(p, q) ==
  \/ polls[p].at < polls[q].at
  \/ polls[p].at = polls[q].at /\ p < q

\* Mutant: ORDER BY without its tie-break.
NewestWithoutId(S) == {p \in S : \A q \in S : polls[q].at <= polls[p].at}

\* ORDER BY started_at DESC, id DESC LIMIT 1
Newest(S) == {p \in S : \A q \in S \ {p} : Before(q, p)}

\* The process start time of a loaded snapshot is the one of its app run.
Snapshot(p) ==
  [id |-> p, result |-> polls[p],
   runStart |-> IF polls[p].run = 0 THEN 0 ELSE runs[polls[p].run].start]

\* Mutant: the query without WHERE status.
LatestSnapshotAsSuccessful ==
  IF polls = <<>> THEN {NoSnapshot} ELSE {Snapshot(p) : p \in Newest(DOMAIN polls)}

LatestSuccessfulSnapshot ==
  IF OkPolls = {} THEN {NoSnapshot} ELSE {Snapshot(p) : p \in Newest(OkPolls)}

\* The failed polls newer than every successful one; the query reads at most
\* TrailingLimit rows.
TrailingFailedPolls ==
  LET trailing == Cardinality({p \in DOMAIN polls : \A q \in OkPolls : Before(q, p)})
  IN  IF trailing > TrailingLimit THEN TrailingLimit ELSE trailing

NewRun(start, at) == [start |-> start, caddy |-> Caddy, first |-> at, last |-> at]

\* Mutant: a NULL process start time conflicts like any other.
EnsureAppRunMatchingNull(id, start, at) ==
  \/ /\ id \in DOMAIN runs
     /\ runs[id].start = start
     /\ runs' = [runs EXCEPT ![id].last = at]
  \/ /\ \A r \in DOMAIN runs : runs[r].start # start
     /\ IsFreshId(id, runs)
     /\ runs' = Insert(runs, id, NewRun(start, at))

\* A known process start time is a key of app_runs: the row is reused.
EnsureAppRun(id, start, at) ==
  \/ /\ start # 0
     /\ id \in DOMAIN runs
     /\ runs[id].start = start
     /\ runs' = [runs EXCEPT ![id].last = at]
  \/ /\ \A r \in DOMAIN runs : start = 0 \/ runs[r].start # start
     /\ IsFreshId(id, runs)
     /\ runs' = Insert(runs, id, NewRun(start, at))

TouchAppRun(id, at) ==
  /\ id \in DOMAIN runs
  /\ runs' = [runs EXCEPT ![id].last = at]

-----------------------------------------------------------------------------
(* Restart detection.                                                      *)

HasRun(snapshot) == snapshot # NoSnapshot /\ snapshot.result.run # 0

\* Mutant: only an earlier start time is a change.
ProcessStartEarlier(r) ==
  previous.runStart # 0 /\ r.start # 0 /\ r.start < previous.runStart

ProcessStartChanged(r) ==
  previous.runStart # 0 /\ r.start # 0 /\ r.start # previous.runStart

\* Mutant: one failed poll before a drop is not enough.
RestartDetectedAfterTwoFailures(r) ==
  LET before == previous.result.samples
      drops  == DecreasedCoreCounters(before, r.samples)
  IN  /\ ~Caddy
      /\ HasRun(previous)
      /\ \/ ProcessStartChanged(r)
         \/ Decreased("process_uptime", before, r.samples)
         \/ drops = CoreCounters
         \/ status.failures > 1 /\ drops # {}

RestartDetected(r) ==
  LET before == previous.result.samples
      drops  == DecreasedCoreCounters(before, r.samples)
  IN  /\ ~Caddy
      /\ HasRun(previous)
      /\ \/ ProcessStartChanged(r)
         \/ Decreased("process_uptime", before, r.samples)
         \/ drops = CoreCounters
         \/ status.failures > 0 /\ drops # {}

\* Mutant: a start time reported for the first time stays in the anonymous run.
NeedsNewRunUnlessAnonymous(r) ==
  \/ ~HasRun(previous)
  \/ RestartDetected(r)
  \/ Caddy /\ (status.lastSuccessAt = 0 \/ status.failures > 0 \/ r.break)

\* Mutant: a Caddy run survives a failed attempt.
NeedsNewRunDespiteFailures(r) ==
  \/ ~HasRun(previous)
  \/ RestartDetected(r)
  \/ ~Caddy /\ r.start # 0 /\ previous.runStart = 0
  \/ Caddy /\ (status.lastSuccessAt = 0 \/ r.break)

\* Caddy runs are counter boundaries: history loaded from storage, a failed
\* attempt or a break in the scraped tuples ends the run.
NeedsNewRun(r) ==
  \/ ~HasRun(previous)
  \/ RestartDetected(r)
  \/ ~Caddy /\ r.start # 0 /\ previous.runStart = 0
  \/ Caddy /\ (status.lastSuccessAt = 0 \/ status.failures > 0 \/ r.break)

-----------------------------------------------------------------------------
(* The startup follow-up poll.                                             *)

CounterSamples(snapshot) == Counters \cap DOMAIN snapshot.result.samples

NeedsStartupFollowUp(before, current) ==
  /\ current.result.ok
  /\ CounterSamples(current) # {}
  /\ \/ before = NoSnapshot
     \/ before.result.run # current.result.run
     \/ ~(CounterSamples(current) \subseteq CounterSamples(before))

-----------------------------------------------------------------------------
(* What every poll ends with.                                              *)

\* Mutant: the baseline stays.
RecordSuccessKeepingPrevious(at, id, snapshot) ==
  /\ latest' = snapshot
  /\ health' = HealthObservation(snapshot.result)
  /\ status' = [status EXCEPT
       !.lastPollAt = at, !.lastSuccessAt = at, !.failures = 0,
       !.lastStored = id, !.lastSuccessStored = id]
  /\ UNCHANGED previous

RecordSuccess(at, id, snapshot) ==
  /\ latest' = snapshot
  /\ previous' = snapshot
  /\ health' = HealthObservation(snapshot.result)
  /\ status' = [status EXCEPT
       !.lastPollAt = at, !.lastSuccessAt = at, !.failures = 0,
       !.lastStored = id, !.lastSuccessStored = id]

\* Mutant: a failed attempt without health keeps the health shown before.
RecordFailureKeepingHealth(at, id, snapshot, observation) ==
  /\ latest' = IF snapshot = NoSnapshot THEN latest ELSE snapshot
  /\ health' = IF observation = NoHealth THEN health ELSE observation
  /\ status' = [status EXCEPT
       !.lastPollAt = at, !.lastFailedAt = at, !.failures = @ + 1,
       !.lastStored = id]
  /\ UNCHANGED previous

RecordFailure(at, id, snapshot, observation) ==
  /\ latest' = IF snapshot = NoSnapshot THEN latest ELSE snapshot
  /\ health' = observation
  /\ status' = [status EXCEPT
       !.lastPollAt = at, !.lastFailedAt = at, !.failures = @ + 1,
       !.lastStored = id]
  /\ UNCHANGED previous

\* Mutant: an error returns without the unlock.
ReturnLocked(g, returned) ==
  /\ pc' = [pc EXCEPT ![g] = "idle"]
  /\ pollMu' = IF returned = NoSnapshot THEN pollMu ELSE pollMu \ {g}
  /\ result' = [result EXCEPT ![g] = NoResult]
  /\ pollID' = [pollID EXCEPT ![g] = 0]
  /\ IF g = Loop
       THEN loopAt' = "ticker" /\ history' = NoHistory
       ELSE UNCHANGED loop

\* Mutant: the loop gives up when its first poll fails.
ReturnGivingUp(g, returned) ==
  /\ pc' = [pc EXCEPT ![g] = "idle"]
  /\ pollMu' = pollMu \ {g}
  /\ result' = [result EXCEPT ![g] = NoResult]
  /\ pollID' = [pollID EXCEPT ![g] = 0]
  /\ IF g = Loop /\ returned # NoSnapshot
       THEN loopAt' = "ticker" /\ history' = NoHistory
       ELSE UNCHANGED loop

\* PollNow returns: pollMu is released, and the loop moves on.  "returned" is
\* the snapshot the loop judges, NoSnapshot when PollNow returns an error.
Return(g, returned) ==
  /\ pc' = [pc EXCEPT ![g] = "idle"]
  /\ pollMu' = pollMu \ {g}
  /\ result' = [result EXCEPT ![g] = NoResult]
  /\ pollID' = [pollID EXCEPT ![g] = 0]
  /\ IF g = Loop
       THEN /\ loopAt' = IF /\ loopAt = "first"
                            /\ history.loaded
                            /\ NeedsStartupFollowUp(history.snapshot, returned)
                           THEN "wait" ELSE "ticker"
            /\ history' = NoHistory
       ELSE UNCHANGED loop

Goto(g, label) ==
  /\ pc' = [pc EXCEPT ![g] = label]
  /\ UNCHANGED <<pollMu, loop>>

-----------------------------------------------------------------------------
(* The loop, and who calls PollNow.                                        *)

\* loadSuccessfulHistory, under pollMu, then the call of the first poll.
LoadSuccessfulHistory ==
  /\ mode = "polling" /\ loopAt = "history" /\ pollMu = {}
  /\ \/ /\ previous' \in IF previous # NoSnapshot THEN {previous}
                                                  ELSE LatestSuccessfulSnapshot
        /\ history' = [loaded |-> TRUE, snapshot |-> previous']
     \/ /\ "load" \in Faults /\ previous = NoSnapshot
        /\ UNCHANGED <<previous, history>>
  /\ loopAt' = "first"
  /\ pc' = [pc EXCEPT ![Loop] = "lock"]
  /\ UNCHANGED <<environment, process, attempts, database, pollMu, result,
                 pollID, baseline, status, latest, health>>

\* The startup timer or the ticker fires, or a request arrives.
CallPollNow(g) ==
  /\ mode = "polling" /\ pc[g] = "idle"
  /\ IF g = Loop
       THEN \/ loopAt = "wait" /\ loopAt' = "follow_up"
            \/ loopAt = "ticker" /\ attempts < MaxAttempts /\ UNCHANGED loopAt
       ELSE attempts < MaxAttempts /\ UNCHANGED loopAt
  /\ pc' = [pc EXCEPT ![g] = "lock"]
  /\ UNCHANGED <<environment, process, attempts, database, pollMu, result,
                 pollID, baseline, view, history>>

-----------------------------------------------------------------------------
(* PollNow.                                                                *)

\* Mutant: no mutual exclusion.
LockShared(g) ==
  /\ pc[g] = "lock"
  /\ pollMu' = pollMu \cup {g}
  /\ attempts' = attempts + 1
  /\ pc' = [pc EXCEPT ![g] = IF previous = NoSnapshot THEN "load" ELSE "collect"]
  /\ UNCHANGED <<environment, process, database, result, pollID, baseline,
                 view, loop>>

Lock(g) ==
  /\ pc[g] = "lock" /\ pollMu = {}
  /\ pollMu' = {g}
  /\ attempts' = attempts + 1
  /\ pc' = [pc EXCEPT ![g] = IF previous = NoSnapshot THEN "load" ELSE "collect"]
  /\ UNCHANGED <<environment, process, database, result, pollID, baseline,
                 view, loop>>

LoadPrevious(g) ==
  /\ pc[g] = "load"
  /\ \/ /\ previous' \in LatestSuccessfulSnapshot
        /\ Goto(g, "collect")
        /\ UNCHANGED <<status, latest, health, result, pollID>>
     \/ /\ "load" \in Faults
        /\ RecordFailure(now, 0, NoSnapshot, NoHealth)
        /\ Return(g, NoSnapshot)
  /\ UNCHANGED <<environment, process, attempts, database, baseline>>

\* The result of an attempt before any sample is in it.
Begun(h) ==
  [NoResult EXCEPT !.at = now, !.health = h, !.attempt = attempts, !.boot = boots]

\* A tuple of the previous Caddy scrape vanished or decreased, or there was none.
Breaks(samples) ==
  \/ baseline = NoSamples
  \/ \E s \in DOMAIN baseline :
       s \notin DOMAIN samples \/ Decreased(s, baseline, samples)

Scraped(begun, signals, samples) ==
  [begun EXCEPT
     !.ok = TRUE, !.samples = samples, !.seen = app.incarnation,
     !.start = IF "start" \in signals /\ ~Caddy THEN app.incarnation ELSE 0,
     !.break = Caddy /\ Breaks(samples)]

\* A failed scrape clears Caddy's baseline.  The result is stored all the same.
CollectFails(g, begun) ==
  /\ result' = [result EXCEPT ![g] = begun]
  /\ baseline' = NoSamples
  /\ Goto(g, "save")
  /\ UNCHANGED app

\* Within an incarnation the samples only grow.
CollectSamples(g, begun, signals, levels) ==
  LET samples == [s \in signals \ {"start"} |-> levels[s]]
  IN  /\ \A s \in Signals : app.level[s] <= levels[s]
      /\ app' = [app EXCEPT !.level = levels]
      /\ result' = [result EXCEPT ![g] = Scraped(begun, signals, samples)]
      /\ baseline' = IF Caddy THEN samples ELSE NoSamples
      /\ Goto(g, IF OneDocument THEN "detect" ELSE "start_time")

Collect(g) ==
  /\ pc[g] = "collect"
  /\ \E h \in Health :
       \/ CollectFails(g, Begun(h))
       \/ \E signals \in Exposures, levels \in [Signals -> Levels] :
            CollectSamples(g, Begun(h), signals, levels)
  /\ UNCHANGED <<now, process, attempts, database, pollID, view>>

\* Spring's Actuator source fetches process.start.time last, in a request of
\* its own.
CollectProcessStartTime(g) ==
  /\ pc[g] = "start_time"
  /\ result' = [result EXCEPT ![g].start = IF @ = 0 THEN 0 ELSE app.incarnation]
  /\ Goto(g, "detect")
  /\ UNCHANGED <<environment, process, attempts, database, pollID, baseline, view>>

\* detectAppRun and its own transaction.
DetectAppRun(g) ==
  /\ pc[g] = "detect"
  /\ \/ \E id \in DOMAIN runs \cup 1..attempts :
          /\ IF NeedsNewRun(result[g])
               THEN EnsureAppRun(id, result[g].start, result[g].at)
               ELSE id = previous.result.run /\ TouchAppRun(id, result[g].at)
          /\ result' = [result EXCEPT ![g].run = id,
                                      ![g].restart = RestartDetected(result[g])]
          /\ Goto(g, "save")
          /\ UNCHANGED <<pollID, view>>
     \/ /\ "detect" \in Faults
        /\ RecordFailure(result[g].at, 0, NoSnapshot, HealthObservation(result[g]))
        /\ Return(g, NoSnapshot)
        /\ UNCHANGED runs
  /\ UNCHANGED <<environment, process, attempts, polls, baseline>>

\* SaveCollectionResultWithAppRun commits the poll with its samples and events.
Save(g) ==
  /\ pc[g] = "save"
  /\ \/ \E id \in 1..attempts :
          /\ IsFreshId(id, polls)
          /\ polls' = Insert(polls, id, result[g])
          /\ pollID' = [pollID EXCEPT ![g] = id]
          /\ Goto(g, "reload")
          /\ UNCHANGED <<result, view>>
     \/ /\ "save" \in Faults
        /\ RecordFailure(result[g].at, 0, NoSnapshot, HealthObservation(result[g]))
        /\ Return(g, NoSnapshot)
        /\ UNCHANGED polls
  /\ UNCHANGED <<environment, process, attempts, runs, baseline>>

\* LatestSnapshot, whatever poll that is, and the published outcome.
Reload(g) ==
  /\ pc[g] = "reload"
  /\ \/ \E p \in Newest(DOMAIN polls) :
          IF result[g].ok
            THEN RecordSuccess(result[g].at, pollID[g], Snapshot(p)) /\ Return(g, Snapshot(p))
            ELSE /\ RecordFailure(result[g].at, pollID[g], Snapshot(p), HealthObservation(result[g]))
                 /\ Return(g, NoSnapshot)
     \/ /\ "reload" \in Faults \/ polls = <<>>
        /\ RecordFailure(result[g].at, pollID[g], NoSnapshot, HealthObservation(result[g]))
        /\ Return(g, NoSnapshot)
  /\ UNCHANGED <<environment, process, attempts, database, baseline>>

-----------------------------------------------------------------------------
(* The process, the cleaner and the environment.                           *)

\* DeletePollsBefore: samples and events go with their poll, app runs stay.
Retained == {p \in DOMAIN polls : polls[p].at + Retention >= now}

DeletePollsBefore == polls' = [p \in Retained |-> polls[p]]

RetentionCleanup ==
  /\ mode = "polling" /\ Retained # DOMAIN polls
  /\ DeletePollsBefore
  /\ UNCHANGED <<environment, process, attempts, runs, pollMu, pc, result,
                 pollID, baseline, view, loop>>

\* The first cleanup runs before any monitor starts; its failure is only logged.
Boot ==
  /\ mode = "down" /\ boots < MaxBoots
  /\ mode' = "polling" /\ boots' = boots + 1
  /\ DeletePollsBefore \/ UNCHANGED polls
  /\ UNCHANGED <<environment, attempts, runs, pollMu, pc, result, pollID,
                 baseline, view, loop>>

\* What EnableNoPoll makes of the stored polls, successful being the newest
\* successful one.
RestoredStatus(newest, successful) ==
  LET failed == Newest(DOMAIN polls \ OkPolls)
  IN  [lastPollAt |-> newest.result.at,
       lastStored |-> newest.id,
       lastSuccessAt |-> successful.result.at,
       lastSuccessStored |-> successful.id,
       lastFailedAt |-> IF failed = {} THEN 0 ELSE polls[CHOOSE p \in failed : TRUE].at,
       failures |-> IF newest.result.ok THEN 0 ELSE TrailingFailedPolls]

\* statlite --no-poll
EnableNoPoll ==
  /\ mode = "down" /\ boots < MaxBoots
  /\ mode' = "no_poll" /\ boots' = boots + 1
  /\ IF polls = <<>> THEN UNCHANGED view
       ELSE \E p \in Newest(DOMAIN polls), successful \in LatestSuccessfulSnapshot :
              /\ latest' = Snapshot(p)
              /\ health' = HealthObservation(polls[p])
              /\ previous' = successful
              /\ status' = RestoredStatus(Snapshot(p), successful)
  /\ UNCHANGED <<environment, attempts, database, pollMu, pc, result, pollID,
                 baseline, loop>>

\* A crash, or an exit: runMonitor returns without waiting for the goroutines.
\* Everything kept in memory is gone.
Exit ==
  /\ mode # "down"
  /\ mode' = "down"
  /\ pollMu' = {} /\ pc' = [g \in Pollers |-> "idle"]
  /\ result' = [g \in Pollers |-> NoResult] /\ pollID' = [g \in Pollers |-> 0]
  /\ baseline' = NoSamples /\ previous' = NoSnapshot /\ status' = NoStatus
  /\ latest' = NoSnapshot /\ health' = NoHealth /\ loopAt' = "history" /\ history' = NoHistory
  /\ UNCHANGED <<environment, boots, attempts, database>>

AppRestarts ==
  /\ app.incarnation < MaxIncarnation
  /\ app' = [incarnation |-> app.incarnation + 1, level |-> [s \in Signals |-> 0]]
  /\ UNCHANGED <<now, process, attempts, database, pollMu, pc, result, pollID,
                 baseline, view, loop>>

ClockMoves ==
  /\ pollMu = {}
  /\ \/ now < MaxClock /\ now' = now + 1
     \/ ClockMayStepBack /\ now > 1 /\ now' = now - 1
  /\ UNCHANGED <<app, process, attempts, database, pollMu, pc, result, pollID,
                 baseline, view, loop>>

-----------------------------------------------------------------------------
Init ==
  /\ now = 1 /\ app = [incarnation |-> 1, level |-> [s \in Signals |-> 0]]
  /\ mode = "down" /\ boots = 0 /\ attempts = 0
  /\ polls = <<>> /\ runs = <<>>
  /\ pollMu = {} /\ pc = [g \in Pollers |-> "idle"]
  /\ result = [g \in Pollers |-> NoResult] /\ pollID = [g \in Pollers |-> 0]
  /\ baseline = NoSamples /\ previous = NoSnapshot /\ status = NoStatus
  /\ latest = NoSnapshot /\ health = NoHealth /\ loopAt = "history" /\ history = NoHistory

Step(g) ==
  \/ Lock(g) \/ LoadPrevious(g) \/ Collect(g) \/ CollectProcessStartTime(g)
  \/ DetectAppRun(g) \/ Save(g) \/ Reload(g)

Next ==
  \/ LoadSuccessfulHistory
  \/ \E g \in Pollers : CallPollNow(g) \/ Step(g)
  \/ RetentionCleanup
  \/ Boot \/ EnableNoPoll \/ Exit
  \/ AppRestarts \/ ClockMoves

Spec == Init /\ [][Next]_vars
=============================================================================
