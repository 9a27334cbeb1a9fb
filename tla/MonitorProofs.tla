---------------------------- MODULE MonitorProofs ----------------------------
(***************************************************************************)
(* The monitor, for every value of the constants: its types, and which run *)
(* a poll is attributed to; then that what it remembers is what its tables *)
(* hold, what it shows is one state of it, and the runs it stores are      *)
(* those RunAttribution and RunJournal describe: MonitorHistory's          *)
(* invariants are inductive, and the properties of MonitorProperties,      *)
(* Readers and RunAttribution follow from them.                            *)
(*                                                                         *)
(* Memory     the baseline is the newest stored success                    *)
(* View       what is published is the newest attempt                      *)
(* SummaryOK  and so is what a reader is shown in two steps                *)
(* Observing  what is observed of the application never goes back          *)
(* Attempting which attempts are of this StatLite process, and failed      *)
(* Opening    a run opened for a collection is new                         *)
(* RunOrder   runs, restarts and events in the order of the polls          *)
(*                                                                         *)
(* Each part is proved by one lemma per action that can disturb it.        *)
(***************************************************************************)
EXTENDS MonitorHistory, FiniteSetTheorems, TLAPS

-----------------------------------------------------------------------------
(* Types and attribution.                                                  *)

\* The inductive invariant: types and mutual exclusion, a finite table (so that
\* a newest poll can be counted), and who is attributed to which run.
IInv == TypeOK /\ IsFiniteSet(DOMAIN polls) /\ Attribution

\* No sample at all is a set of samples.
LEMMA NoSamplesType == NoSamples \in Samples
<1>1. {} \in SUBSET Signals
  OBVIOUS
<1>2. NoSamples \in [{} -> Levels]
  BY DEF NoSamples
<1> QED
  BY <1>1, <1>2 DEF Samples

\* The result of no collection is a result.
LEMMA NoResultType == NoResult \in Results
  BY NoSamplesType, BoundAssumption DEF NoResult, Results, Times, Incarnations

\* The missing snapshot is a snapshot.
LEMMA NoSnapshotType == NoSnapshot \in Snapshots
  BY NoResultType, BoundAssumption DEF NoSnapshot, Snapshots, Incarnations

\* The missing health is an observation.
LEMMA NoHealthType == NoHealth \in Observations
  BY BoundAssumption DEF NoHealth, Observations, Times

\* The status before any poll is a status.
LEMMA NoStatusType == NoStatus \in Statuses
  BY BoundAssumption DEF NoStatus, Statuses, Times

\* What a collection says of health is an observation.
LEMMA HealthObservationType ==
  ASSUME NEW r \in Results
  PROVE  HealthObservation(r) \in Observations
  BY NoHealthType DEF HealthObservation, Observations, Results

\* A snapshot of a stored poll.
LEMMA SnapshotType ==
  ASSUME TablesOK, PollsAttributed, NEW p \in DOMAIN polls
  PROVE  /\ Snapshot(p) \in Snapshots
         /\ Snapshot(p).result = polls[p]
         /\ KnowsItsRun(Snapshot(p), runs)
<1>1. p \in Nat /\ polls[p] \in Results
  BY DEF TablesOK
<1>2. polls[p].run # 0 => polls[p].run \in DOMAIN runs /\ runs[polls[p].run] \in RunRows
  BY DEF PollsAttributed, Attributed, TablesOK
<1>3. (IF polls[p].run = 0 THEN 0 ELSE runs[polls[p].run].start) \in Incarnations
  BY <1>2, BoundAssumption DEF RunRows, Incarnations
<1> QED
  BY <1>1, <1>2, <1>3 DEF Snapshot, Snapshots, HasRun, KnowsItsRun

\* Whatever LatestSuccessfulSnapshot returns can serve as the baseline.
LEMMA LatestSuccessfulType ==
  ASSUME TablesOK, PollsAttributed, NEW s \in LatestSuccessfulSnapshot
  PROVE  s \in Snapshots /\ KnowsItsRun(s, runs)
<1>1. CASE s = NoSnapshot
  BY <1>1, NoSnapshotType DEF HasRun, KnowsItsRun
<1>2. CASE \E p \in DOMAIN polls : s = Snapshot(p)
  BY <1>2, SnapshotType
<1> QED
  BY <1>1, <1>2 DEF LatestSuccessfulSnapshot, Newest, OkPolls

-----------------------------------------------------------------------------
(* The parts every poll is made of.                                        *)

\* recordFailure keeps the types of what is published.
LEMMA RecordFailureType ==
  ASSUME ViewOK, NEW at \in Times, NEW id \in Nat, NEW s \in Snapshots,
         NEW observation \in Observations, RecordFailure(at, id, s, observation)
  PROVE  ViewOK'
<1>1. s.id \in Nat
  BY DEF Snapshots
<1>2. status \in Statuses /\ status.failures + 1 \in Nat
  BY DEF ViewOK, Statuses
<1>3. status' = [status EXCEPT
        !.lastPollAt = at, !.lastFailedAt = at, !.failures = status.failures + 1,
        !.lastStored = id]
  BY DEF RecordFailure
<1>4. status' \in Statuses
  BY <1>2, <1>3 DEF Statuses
<1> QED
  BY <1>1, <1>4 DEF ViewOK, RecordFailure

\* recordSuccess keeps the types of what is published.
LEMMA RecordSuccessType ==
  ASSUME ViewOK, NEW at \in Times, NEW id \in Nat, NEW s \in Snapshots,
         RecordSuccess(at, id, s)
  PROVE  ViewOK'
<1>1. s.id \in Nat /\ s.result \in Results
  BY DEF Snapshots
<1>2. status' \in Statuses
  BY DEF ViewOK, RecordSuccess, Statuses
<1> QED
  BY <1>1, <1>2, HealthObservationType DEF ViewOK, RecordSuccess

\* A goroutine that returns from PollNow releases pollMu and nothing else moves.
LEMMA ReturnType ==
  ASSUME ControlOK, WorkOK, NEW g \in pollMu, NEW s, Return(g, s), UNCHANGED baseline
  PROVE  ControlOK' /\ WorkOK'
<1>1. NoHistory \in [loaded : BOOLEAN, snapshot : Snapshots]
  BY NoSnapshotType DEF NoHistory
<1>2. g \in Pollers
  BY DEF ControlOK
<1>3. pollMu' \in SUBSET Pollers /\ pc' \in [Pollers -> Labels]
  BY <1>2 DEF ControlOK, Return, Labels
<1>4. \A h \in Pollers : h \in pollMu' <=> pc'[h] \in InPoll
  BY <1>2 DEF ControlOK, Return, Labels, InPoll
<1>5. /\ loopAt' \in {"history", "first", "wait", "follow_up", "ticker"}
      /\ history' \in [loaded : BOOLEAN, snapshot : Snapshots]
  BY <1>1 DEF ControlOK, Return, loop
<1>6. WorkOK'
  BY <1>2, NoResultType DEF WorkOK, Return
<1> QED
  BY <1>3, <1>4, <1>5, <1>6 DEF ControlOK, Return

\* A goroutine that goes on inside PollNow keeps pollMu.
LEMMA GotoType ==
  ASSUME ControlOK, NEW g \in pollMu, NEW label \in InPoll, Goto(g, label)
  PROVE  ControlOK'
  BY DEF ControlOK, Goto, loop, InPoll, Labels

-----------------------------------------------------------------------------
(* Rows of app_runs are never deleted and keep their start time.           *)

RunsKept ==
  \A r \in DOMAIN runs : r \in DOMAIN runs' /\ runs'[r].start = runs[r].start

RunsOK ==
  /\ runs = [r \in DOMAIN runs |-> runs[r]]
  /\ \A r \in DOMAIN runs : r \in Nat /\ runs[r] \in RunRows

\* EnsureAppRun adds or touches one row and returns the row of the start time.
LEMMA EnsureAppRunType ==
  ASSUME RunsOK, NEW id \in Nat, NEW start \in Incarnations, NEW at \in Times,
         EnsureAppRun(id, start, at)
  PROVE  RunsOK' /\ RunsKept /\ id \in DOMAIN runs' /\ runs'[id].start = start
<1>1. CASE id \in DOMAIN runs /\ runs[id].start = start /\ runs' = [runs EXCEPT ![id].last = at]
  BY <1>1 DEF RunsOK, RunsKept, RunRows
<1>2. CASE IsFreshId(id, runs) /\ runs' = Insert(runs, id, NewRun(start, at))
  <2>1. id \notin DOMAIN runs
    BY <1>2 DEF IsFreshId, RunsOK
  <2>2. NewRun(start, at) \in RunRows /\ NewRun(start, at).start = start
    BY BooleanAssumption DEF RunRows, NewRun
  <2>3. DOMAIN runs' = DOMAIN runs \cup {id}
    BY <1>2 DEF Insert
  <2> QED
    BY <1>2, <2>1, <2>2, <2>3 DEF RunsOK, RunsKept, Insert
<1> QED
  BY <1>1, <1>2 DEF EnsureAppRun

\* TouchAppRun changes no start time and drops no row.
LEMMA TouchAppRunType ==
  ASSUME RunsOK, NEW id \in Nat, NEW at \in Times, TouchAppRun(id, at)
  PROVE  RunsOK' /\ RunsKept /\ id \in DOMAIN runs'
  BY DEF RunsOK, RunsKept, RunRows, TouchAppRun

\* A collection attributed to a run stays so while rows keep their start times.
LEMMA AttributedKept ==
  ASSUME RunsKept, NEW c, Attributed(c, runs)
  PROVE  Attributed(c, runs')
  BY DEF RunsKept, Attributed

\* So does a snapshot that knows the start time of its run.
LEMMA KnowsItsRunKept ==
  ASSUME RunsKept, NEW s, KnowsItsRun(s, runs)
  PROVE  KnowsItsRun(s, runs')
  BY DEF RunsKept, KnowsItsRun

\* A poll that returns leaves the other goroutines' work as it was.
LEMMA ReturnAttribution ==
  ASSUME ControlOK, WorkOK, WorkAttributed, NEW g \in pollMu, NEW s, Return(g, s), RunsKept
  PROVE  WorkAttributed'
<1> SUFFICES ASSUME NEW h \in Pollers
             PROVE  /\ pc'[h] \in {"save", "reload"} => Attributed(result'[h], runs')
                    /\ Caddy => result'[h].start = 0
  BY DEF WorkAttributed
<1>1. g \in Pollers
  BY DEF ControlOK
<1>2. CASE h = g
  BY <1>1, <1>2 DEF ControlOK, WorkOK, Return, NoResult
<1>3. CASE h # g
  BY <1>1, <1>3, AttributedKept DEF ControlOK, WorkOK, Return, WorkAttributed
<1> QED
  BY <1>2, <1>3

\* A poll that goes on keeps or sets its own result only.
LEMMA GotoAttribution ==
  ASSUME ControlOK, WorkOK, WorkAttributed, NEW g \in pollMu, NEW label, Goto(g, label),
         NEW c, result' = [result EXCEPT ![g] = c], RunsKept,
         label \in {"save", "reload"} => Attributed(c, runs'),
         Caddy => c.start = 0
  PROVE  WorkAttributed'
<1> SUFFICES ASSUME NEW h \in Pollers
             PROVE  /\ pc'[h] \in {"save", "reload"} => Attributed(result'[h], runs')
                    /\ Caddy => result'[h].start = 0
  BY DEF WorkAttributed
<1>1. g \in Pollers
  BY DEF ControlOK
<1>2. CASE h = g
  BY <1>1, <1>2 DEF ControlOK, WorkOK, Goto
<1>3. CASE h # g
  BY <1>1, <1>3, AttributedKept DEF ControlOK, WorkOK, Goto, WorkAttributed
<1> QED
  BY <1>2, <1>3

-----------------------------------------------------------------------------
\* The invariant holds before the first boot.
THEOREM InitIInv == Init => IInv
<1> SUFFICES ASSUME Init PROVE IInv
  OBVIOUS
<1>1. DOMAIN polls = {} /\ DOMAIN runs = {}
  BY DEF Init
<1>2. TypeOK
  <2>1. EnvironmentOK /\ TablesOK
    BY <1>1, BoundAssumption DEF Init, EnvironmentOK, TablesOK, Times, Incarnations, Levels
  <2>2. ControlOK
    BY NoSnapshotType DEF Init, ControlOK, NoHistory, Labels, InPoll
  <2>3. WorkOK /\ ViewOK
    BY NoResultType, NoSamplesType, NoSnapshotType, NoHealthType, NoStatusType
       DEF Init, WorkOK, ViewOK
  <2> QED
    BY <2>1, <2>2, <2>3 DEF TypeOK
<1>3. Attribution
  BY <1>1 DEF Init, Attribution, PollsAttributed, WorkAttributed, KnowsItsRun, HasRun, NoResult
<1> QED
  BY <1>1, <1>2, <1>3, FS_EmptySet DEF IInv

-----------------------------------------------------------------------------
(* Each action keeps the invariant.                                        *)

\* What a step that leaves the tables alone has to show.
LEMMA TablesUnchanged ==
  ASSUME IInv, UNCHANGED database
  PROVE  TablesOK' /\ IsFiniteSet(DOMAIN polls)' /\ PollsAttributed' /\ RunsKept
  BY DEF IInv, TypeOK, TablesOK, Attribution, PollsAttributed, database, RunsKept

\* A goroutine that moves outside DetectAppRun .. Save leaves the work alone.
LEMMA MoveAttribution ==
  ASSUME ControlOK, WorkOK, WorkAttributed, NEW g \in Pollers,
         NEW label, label \notin {"save", "reload"}, pc' = [pc EXCEPT ![g] = label],
         UNCHANGED <<result, runs>>
  PROVE  WorkAttributed'
  BY DEF ControlOK, WorkOK, WorkAttributed

\* Reading the history keeps the invariant: a stored snapshot knows its run.
LEMMA StepLoadHistory ==
  ASSUME IInv, LoadSuccessfulHistory
  PROVE  IInv'
<1> USE DEF environment, process, database
<1>1. TablesOK' /\ IsFiniteSet(DOMAIN polls)' /\ PollsAttributed'
  BY TablesUnchanged DEF LoadSuccessfulHistory
<1>2. EnvironmentOK'
  BY DEF IInv, TypeOK, EnvironmentOK, LoadSuccessfulHistory
<1>3. previous' \in Snapshots /\ KnowsItsRun(previous', runs)
  BY LatestSuccessfulType
     DEF IInv, TypeOK, ViewOK, Attribution, LoadSuccessfulHistory
<1>4. history' \in [loaded : BOOLEAN, snapshot : Snapshots]
  <2>1. CASE history' = [loaded |-> TRUE, snapshot |-> previous']
    BY <1>3, <2>1
  <2>2. CASE UNCHANGED history
    BY <2>2 DEF IInv, TypeOK, ControlOK
  <2> QED
    BY <2>1, <2>2 DEF LoadSuccessfulHistory
<1>5. ControlOK'
  <2>1. Loop \in Pollers
    BY DEF Pollers
  <2>2. pc' \in [Pollers -> Labels]
    BY <2>1 DEF IInv, TypeOK, ControlOK, Labels, LoadSuccessfulHistory
  <2>3. \A h \in Pollers : h \in pollMu' <=> pc'[h] \in InPoll
    BY <2>1 DEF IInv, TypeOK, ControlOK, Labels, InPoll, LoadSuccessfulHistory
  <2> QED
    BY <1>4, <2>2, <2>3 DEF IInv, TypeOK, ControlOK, LoadSuccessfulHistory
<1>6. WorkOK' /\ ViewOK'
  BY <1>3 DEF IInv, TypeOK, WorkOK, ViewOK, LoadSuccessfulHistory
<1>7. WorkAttributed'
  BY MoveAttribution DEF IInv, TypeOK, Attribution, LoadSuccessfulHistory, Pollers
<1>8. KnowsItsRun(previous, runs)'
  BY <1>3 DEF LoadSuccessfulHistory, KnowsItsRun
<1> QED
  BY <1>1, <1>2, <1>5, <1>6, <1>7, <1>8 DEF IInv, TypeOK, Attribution

\* Calling PollNow keeps the invariant.
LEMMA StepCall ==
  ASSUME IInv, NEW g \in Pollers, CallPollNow(g)
  PROVE  IInv'
<1> USE DEF environment, process, database, view
<1>1. TablesOK' /\ IsFiniteSet(DOMAIN polls)' /\ PollsAttributed'
  BY TablesUnchanged DEF CallPollNow
<1>2. EnvironmentOK' /\ WorkOK' /\ ViewOK'
  BY DEF IInv, TypeOK, EnvironmentOK, WorkOK, ViewOK, CallPollNow
<1>3. ControlOK'
  <2>1. pc' \in [Pollers -> Labels]
    BY DEF IInv, TypeOK, ControlOK, Labels, CallPollNow
  <2>2. \A h \in Pollers : h \in pollMu' <=> pc'[h] \in InPoll
    BY DEF IInv, TypeOK, ControlOK, Labels, InPoll, CallPollNow
  <2> QED
    BY <2>1, <2>2 DEF IInv, TypeOK, ControlOK, CallPollNow
<1>4. WorkAttributed'
  BY MoveAttribution DEF IInv, TypeOK, Attribution, CallPollNow
<1>5. KnowsItsRun(previous, runs)'
  BY DEF IInv, Attribution, KnowsItsRun, HasRun, CallPollNow
<1> QED
  BY <1>1, <1>2, <1>3, <1>4, <1>5 DEF IInv, TypeOK, Attribution

\* Taking pollMu keeps the invariant: it was free.
LEMMA StepLock ==
  ASSUME IInv, NEW g \in Pollers, Lock(g)
  PROVE  IInv'
<1> USE DEF environment, process, database, view, loop
<1>1. TablesOK' /\ IsFiniteSet(DOMAIN polls)' /\ PollsAttributed'
  BY TablesUnchanged DEF Lock
<1>2. EnvironmentOK' /\ WorkOK' /\ ViewOK'
  BY DEF IInv, TypeOK, EnvironmentOK, WorkOK, ViewOK, Lock
<1>3. ControlOK'
  <2>1. pc' \in [Pollers -> Labels]
    BY DEF IInv, TypeOK, ControlOK, Labels, Lock
  <2>2. \A h \in Pollers : h \in pollMu' <=> pc'[h] \in InPoll
    BY DEF IInv, TypeOK, ControlOK, Labels, InPoll, Lock
  <2> QED
    BY <2>1, <2>2 DEF IInv, TypeOK, ControlOK, Lock
<1>4. WorkAttributed'
  <2>1. (IF previous = NoSnapshot THEN "load" ELSE "collect") \notin {"save", "reload"}
    OBVIOUS
  <2> QED
    BY <2>1, MoveAttribution DEF IInv, TypeOK, Attribution, Lock
<1>5. KnowsItsRun(previous, runs)'
  BY DEF IInv, Attribution, KnowsItsRun, HasRun, Lock
<1> QED
  BY <1>1, <1>2, <1>3, <1>4, <1>5 DEF IInv, TypeOK, Attribution

\* Who is inside PollNow holds pollMu.
LEMMA InsideHolds ==
  ASSUME ControlOK, NEW g \in Pollers, pc[g] \in InPoll
  PROVE  g \in pollMu
  BY DEF ControlOK

\* PollNow ending in an error: nothing stored, the failure recorded.
LEMMA StepFailure ==
  ASSUME IInv, NEW g \in pollMu, NEW at \in Times, NEW id \in Nat, NEW s \in Snapshots,
         NEW observation \in Observations, NEW returned,
         RecordFailure(at, id, s, observation), Return(g, returned),
         UNCHANGED <<environment, process, attempts, database, baseline>>
  PROVE  IInv'
<1> USE DEF environment, process, database
<1>1. TablesOK' /\ IsFiniteSet(DOMAIN polls)' /\ PollsAttributed' /\ RunsKept
  BY TablesUnchanged
<1>2. EnvironmentOK'
  BY DEF IInv, TypeOK, EnvironmentOK
<1>3. ControlOK' /\ WorkOK'
  BY ReturnType DEF IInv, TypeOK
<1>4. ViewOK'
  BY RecordFailureType DEF IInv, TypeOK
<1>5. WorkAttributed'
  BY <1>1, ReturnAttribution DEF IInv, TypeOK, Attribution
<1>6. KnowsItsRun(previous, runs)'
  BY DEF IInv, Attribution, RecordFailure, KnowsItsRun, HasRun
<1> QED
  BY <1>1, <1>2, <1>3, <1>4, <1>5, <1>6 DEF IInv, TypeOK, Attribution

\* Loading the baseline keeps the invariant.
LEMMA StepLoadPrevious ==
  ASSUME IInv, NEW g \in Pollers, LoadPrevious(g)
  PROVE  IInv'
<1>1. g \in pollMu
  BY InsideHolds DEF IInv, TypeOK, InPoll, Labels, LoadPrevious
<1>2. CASE /\ previous' \in LatestSuccessfulSnapshot
           /\ Goto(g, "collect")
           /\ UNCHANGED <<status, latest, health, result, pollID>>
           /\ UNCHANGED <<environment, process, attempts, database, baseline>>
  <2> USE DEF environment, process, database
  <2>1. TablesOK' /\ IsFiniteSet(DOMAIN polls)' /\ PollsAttributed' /\ RunsKept
    BY <1>2, TablesUnchanged
  <2>2. EnvironmentOK' /\ WorkOK'
    BY <1>2 DEF IInv, TypeOK, EnvironmentOK, WorkOK
  <2>3. ControlOK'
    BY <1>1, <1>2, GotoType DEF IInv, TypeOK, InPoll, Labels
  <2>4. previous' \in Snapshots /\ KnowsItsRun(previous', runs)
    BY <1>2, LatestSuccessfulType DEF IInv, TypeOK, Attribution
  <2>5. ViewOK'
    BY <1>2, <2>4 DEF IInv, TypeOK, ViewOK
  <2>6. WorkAttributed'
    BY <1>2, MoveAttribution DEF IInv, TypeOK, Attribution, Goto
  <2>7. KnowsItsRun(previous, runs)'
    BY <1>2, <2>4 DEF KnowsItsRun
  <2> QED
    BY <2>1, <2>2, <2>3, <2>5, <2>6, <2>7 DEF IInv, TypeOK, Attribution
<1>3. CASE /\ RecordFailure(now, 0, NoSnapshot, NoHealth)
           /\ Return(g, NoSnapshot)
           /\ UNCHANGED <<environment, process, attempts, database, baseline>>
  <2>1. now \in Times
    BY DEF IInv, TypeOK, EnvironmentOK
  <2> QED
    BY <1>1, <1>3, <2>1, StepFailure, NoSnapshotType, NoHealthType
<1> QED
  BY <1>2, <1>3 DEF LoadPrevious

\* A scrape, failed or not, leaves a result without a run in the hands of g.
LEMMA BegunType ==
  ASSUME EnvironmentOK, NEW h \in Health
  PROVE  Begun(h) \in Results /\ Begun(h).start = 0 /\ Begun(h).run = 0
  BY NoResultType DEF Begun, NoResult, Results, EnvironmentOK

\* Leaving a scrape with a result that has no run yet keeps the invariant.
LEMMA StepScrape ==
  ASSUME IInv, NEW g \in pollMu, NEW c \in Results, c.run = 0,
         Caddy => c.start = 0,
         NEW label \in {"save", "detect", "start_time"}, label = "save" => c.start = 0,
         result' = [result EXCEPT ![g] = c], Goto(g, label),
         baseline' \in Samples,
         app' \in [incarnation : Incarnations, level : [Signals -> Levels]],
         UNCHANGED <<now, process, attempts, database, pollID, view>>
  PROVE  IInv'
<1> USE DEF process, database, view
<1>1. TablesOK' /\ IsFiniteSet(DOMAIN polls)' /\ PollsAttributed' /\ RunsKept
  BY TablesUnchanged
<1>2. EnvironmentOK' /\ ViewOK'
  BY DEF IInv, TypeOK, EnvironmentOK, ViewOK
<1>3. ControlOK'
  BY GotoType DEF IInv, TypeOK, InPoll, Labels
<1>4. WorkOK'
  BY DEF IInv, TypeOK, WorkOK
<1>5. WorkAttributed'
  <2>1. label \in {"save", "reload"} => Attributed(c, runs')
    BY DEF Attributed
  <2> QED
    BY <1>1, <2>1, GotoAttribution DEF IInv, TypeOK, Attribution
<1>6. KnowsItsRun(previous, runs)'
  BY DEF IInv, Attribution, KnowsItsRun, HasRun
<1> QED
  BY <1>1, <1>2, <1>3, <1>4, <1>5, <1>6 DEF IInv, TypeOK, Attribution

\* A successful scrape is a result, with a start time unless the target is Caddy.
LEMMA ScrapedType ==
  ASSUME EnvironmentOK, NEW begun \in Results, begun.run = 0, NEW signals,
         NEW samples \in Samples
  PROVE  /\ Scraped(begun, signals, samples) \in Results
         /\ Scraped(begun, signals, samples).run = 0
         /\ Caddy => Scraped(begun, signals, samples).start = 0
<1>1. app.incarnation \in Incarnations /\ 0 \in Incarnations
  BY BoundAssumption DEF EnvironmentOK, Incarnations
<1>2. (Caddy /\ Breaks(samples)) \in BOOLEAN
  OBVIOUS
<1>3. (IF "start" \in signals /\ ~Caddy THEN app.incarnation ELSE 0) \in Incarnations
  BY <1>1
<1> DEFINE break == Caddy /\ Breaks(samples)
           start == IF "start" \in signals /\ ~Caddy THEN app.incarnation ELSE 0
           c     == [begun EXCEPT !.ok = TRUE, !.samples = samples,
                       !.seen = app.incarnation, !.start = start, !.break = break]
<1>4. Scraped(begun, signals, samples) = c
  BY DEF Scraped
<1>5. Caddy => start = 0
  OBVIOUS
<1>6. break \in BOOLEAN /\ start \in Incarnations
  BY <1>2, <1>3
<1> HIDE DEF break, start
<1>7. c \in Results /\ c.run = 0 /\ c.start = start
  BY <1>1, <1>6 DEF Results
<1> QED
  BY <1>4, <1>5, <1>7

\* Both outcomes of a collection keep the invariant.
LEMMA StepCollect ==
  ASSUME IInv, NEW g \in Pollers, Collect(g)
  PROVE  IInv'
<1>1. g \in pollMu
  BY InsideHolds DEF IInv, TypeOK, InPoll, Labels, Collect
<1>2. PICK h \in Health :
        /\ \/ CollectFails(g, Begun(h))
           \/ \E signals \in Exposures, levels \in [Signals -> Levels] :
                CollectSamples(g, Begun(h), signals, levels)
        /\ UNCHANGED <<now, process, attempts, database, pollID, view>>
  BY DEF Collect
<1>3. Begun(h) \in Results /\ Begun(h).start = 0 /\ Begun(h).run = 0
  BY BegunType DEF IInv, TypeOK
<1>4. app \in [incarnation : Incarnations, level : [Signals -> Levels]]
  BY DEF IInv, TypeOK, EnvironmentOK
<1>5. CASE CollectFails(g, Begun(h))
  BY <1>1, <1>2, <1>3, <1>4, <1>5, StepScrape, NoSamplesType DEF CollectFails
<1>6. ASSUME NEW signals \in Exposures, NEW levels \in [Signals -> Levels],
             CollectSamples(g, Begun(h), signals, levels)
      PROVE  IInv'
  <2> DEFINE samples == [s \in signals \ {"start"} |-> levels[s]]
             c       == Scraped(Begun(h), signals, samples)
             label   == IF OneDocument THEN "detect" ELSE "start_time"
  <2>1. samples \in Samples
    <3>1. signals \ {"start"} \in SUBSET Signals
      BY DEF Signals
    <3>2. samples \in [signals \ {"start"} -> Levels]
      BY <3>1
    <3> QED
      BY <3>1, <3>2 DEF Samples
  <2>2. c \in Results /\ c.run = 0 /\ (Caddy => c.start = 0)
    BY <1>3, <2>1, ScrapedType DEF IInv, TypeOK
  <2>3. /\ app' = [app EXCEPT !.level = levels]
        /\ result' = [result EXCEPT ![g] = c]
        /\ baseline' = IF Caddy THEN samples ELSE NoSamples
        /\ Goto(g, label)
    BY <1>6 DEF CollectSamples
  <2>4. label \in {"save", "detect", "start_time"} /\ label # "save"
    OBVIOUS
  <2> HIDE DEF samples, c, label
  <2>5. baseline' \in Samples
    BY <2>1, <2>3, NoSamplesType
  <2>6. app' \in [incarnation : Incarnations, level : [Signals -> Levels]]
    BY <1>4, <2>3
  <2> QED
    BY <1>1, <1>2, <2>2, <2>3, <2>4, <2>5, <2>6, StepScrape
<1> QED
  BY <1>2, <1>5, <1>6

\* The separate start-time request keeps the invariant.
LEMMA StepStartTime ==
  ASSUME IInv, NEW g \in Pollers, CollectProcessStartTime(g)
  PROVE  IInv'
<1> USE DEF environment, process, database, view
<1>1. g \in pollMu
  BY InsideHolds DEF IInv, TypeOK, InPoll, Labels, CollectProcessStartTime
<1> DEFINE start == IF result[g].start = 0 THEN 0 ELSE app.incarnation
           c     == [result[g] EXCEPT !.start = start]
<1>2. result[g] \in Results
  BY DEF IInv, TypeOK, WorkOK
<1>3. start \in Incarnations /\ (Caddy => start = 0)
  BY <1>2, BoundAssumption
     DEF IInv, TypeOK, EnvironmentOK, Incarnations, Attribution, WorkAttributed
<1>4. result' = [result EXCEPT ![g] = c]
  BY <1>2 DEF CollectProcessStartTime, Results
<1> HIDE DEF start
<1>5. c \in Results /\ c.start = start
  BY <1>2, <1>3 DEF Results
<1> HIDE DEF c
<1>6. Goto(g, "detect") /\ UNCHANGED <<environment, process, attempts, database, pollID, baseline, view>>
  BY DEF CollectProcessStartTime
<1>7. TablesOK' /\ IsFiniteSet(DOMAIN polls)' /\ PollsAttributed' /\ RunsKept
  BY <1>6, TablesUnchanged
<1>8. EnvironmentOK' /\ ViewOK'
  BY <1>6 DEF IInv, TypeOK, EnvironmentOK, ViewOK
<1>9. ControlOK'
  BY <1>1, <1>6, GotoType DEF IInv, TypeOK, InPoll, Labels
<1>10. WorkOK'
  BY <1>4, <1>5, <1>6 DEF IInv, TypeOK, WorkOK
<1>11. WorkAttributed'
  <2>1. "detect" \in {"save", "reload"} => Attributed(c, runs')
    OBVIOUS
  <2> QED
    BY <1>1, <1>3, <1>4, <1>5, <1>6, <1>7, <2>1, GotoAttribution
       DEF IInv, TypeOK, Attribution
<1>12. KnowsItsRun(previous, runs)'
  BY <1>6 DEF IInv, Attribution, KnowsItsRun, HasRun
<1> QED
  BY <1>7, <1>8, <1>9, <1>10, <1>11, <1>12 DEF IInv, TypeOK, Attribution

\* Keeping the run of the baseline keeps its start time, because a start time
\* that differs, or that the run lacks, opens a new run.
LEMMA KeptRunStart ==
  ASSUME NEW r \in Results, previous \in Snapshots, ~NeedsNewRun(r), Caddy => r.start = 0
  PROVE  HasRun(previous) /\ (r.start # 0 => r.start = previous.runStart)
<1>1. HasRun(previous) /\ ~RestartDetected(r)
  BY DEF NeedsNewRun
<1>2. ASSUME r.start # 0, r.start # previous.runStart
      PROVE  FALSE
  <2>1. ~Caddy
    BY <1>2
  <2>2. previous.runStart # 0
    BY <1>2, <2>1 DEF NeedsNewRun
  <2>3. ProcessStartChanged(r)
    BY <1>2, <2>2 DEF ProcessStartChanged
  <2> QED
    BY <1>1, <2>1, <2>3 DEF RestartDetected
<1> QED
  BY <1>1, <1>2

\* Run attribution keeps the invariant: a new run has the start time, a kept one had it.
LEMMA StepDetect ==
  ASSUME IInv, NEW g \in Pollers, DetectAppRun(g)
  PROVE  IInv'
<1>1. g \in pollMu
  BY InsideHolds DEF IInv, TypeOK, InPoll, Labels, DetectAppRun
<1>2. /\ result[g] \in Results
      /\ result[g].at \in Times
      /\ result[g].start \in Incarnations
      /\ Caddy => result[g].start = 0
      /\ attempts \in Nat
  BY DEF IInv, TypeOK, WorkOK, EnvironmentOK, Results, Attribution, WorkAttributed
<1>3. UNCHANGED <<environment, process, attempts, polls, baseline>>
  BY DEF DetectAppRun
<1>4. ASSUME NEW id \in DOMAIN runs \cup 1..attempts,
             IF NeedsNewRun(result[g])
               THEN EnsureAppRun(id, result[g].start, result[g].at)
               ELSE id = previous.result.run /\ TouchAppRun(id, result[g].at),
             result' = [result EXCEPT ![g].run = id,
                                      ![g].restart = RestartDetected(result[g])],
             Goto(g, "save"),
             UNCHANGED <<pollID, view>>
      PROVE  IInv'
  <2> USE DEF environment, process, view
  <2>1. id \in Nat
    BY <1>2 DEF IInv, TypeOK, TablesOK
  <2>2. RunsOK
    BY DEF IInv, TypeOK, TablesOK, RunsOK
  <2>3. /\ RunsOK' /\ RunsKept /\ id \in DOMAIN runs'
        /\ result[g].start # 0 => runs'[id].start = result[g].start
    <3>1. CASE NeedsNewRun(result[g])
      BY <1>2, <1>4, <2>1, <2>2, <3>1, EnsureAppRunType
    <3>2. CASE ~NeedsNewRun(result[g])
      <4>1. RunsOK' /\ RunsKept /\ id \in DOMAIN runs'
        BY <1>2, <1>4, <2>1, <2>2, <3>2, TouchAppRunType
      <4>2. previous \in Snapshots /\ KnowsItsRun(previous, runs)
        BY DEF IInv, TypeOK, ViewOK, Attribution
      <4>3. HasRun(previous) /\ (result[g].start # 0 => result[g].start = previous.runStart)
        BY <1>2, <3>2, <4>2, KeptRunStart
      <4>4. id \in DOMAIN runs /\ previous.runStart = runs[id].start
        BY <1>4, <3>2, <4>2, <4>3 DEF KnowsItsRun
      <4> QED
        BY <4>1, <4>3, <4>4 DEF RunsKept
    <3> QED
      BY <3>1, <3>2
  <2> DEFINE restart == RestartDetected(result[g])
             c       == [result[g] EXCEPT !.run = id, !.restart = restart]
  <2>4. restart \in BOOLEAN
    BY DEF RestartDetected
  <2>5. result' = [result EXCEPT ![g] = c]
    BY <1>1, <1>2, <1>4 DEF IInv, TypeOK, ControlOK, WorkOK, Results
  <2> HIDE DEF restart
  <2>6. c \in Results /\ c.run = id /\ c.start = result[g].start
    BY <1>2, <2>1, <2>4 DEF Results
  <2> HIDE DEF c
  <2>7. TablesOK' /\ IsFiniteSet(DOMAIN polls)'
    BY <1>3, <2>3 DEF IInv, TypeOK, TablesOK, RunsOK
  <2>8. EnvironmentOK' /\ ViewOK'
    BY <1>3, <1>4 DEF IInv, TypeOK, EnvironmentOK, ViewOK
  <2>9. ControlOK'
    BY <1>1, <1>4, GotoType DEF IInv, TypeOK, InPoll, Labels
  <2>10. WorkOK'
    BY <1>3, <1>4, <2>5, <2>6 DEF IInv, TypeOK, WorkOK
  <2>11. PollsAttributed'
    BY <1>3, <2>3, AttributedKept DEF IInv, Attribution, PollsAttributed
  <2>12. WorkAttributed'
    <3>1. "save" \in {"save", "reload"} => Attributed(c, runs')
      BY <2>3, <2>6 DEF Attributed
    <3> QED
      BY <1>1, <1>2, <1>4, <2>3, <2>5, <2>6, <3>1, GotoAttribution
         DEF IInv, TypeOK, Attribution
  <2>13. KnowsItsRun(previous, runs)'
    BY <1>4, <2>3, KnowsItsRunKept DEF IInv, Attribution, KnowsItsRun, HasRun
  <2> QED
    BY <2>7, <2>8, <2>9, <2>10, <2>11, <2>12, <2>13 DEF IInv, TypeOK, Attribution
<1>5. CASE /\ RecordFailure(result[g].at, 0, NoSnapshot, HealthObservation(result[g]))
           /\ Return(g, NoSnapshot)
           /\ UNCHANGED runs
  BY <1>1, <1>2, <1>3, <1>5, StepFailure, NoSnapshotType, HealthObservationType DEF database
<1> QED
  BY <1>4, <1>5 DEF DetectAppRun

\* Storing the poll keeps the invariant: it was attributed before.
LEMMA StepSave ==
  ASSUME IInv, NEW g \in Pollers, Save(g)
  PROVE  IInv'
<1>1. g \in pollMu
  BY InsideHolds DEF IInv, TypeOK, InPoll, Labels, Save
<1>2. /\ result[g] \in Results
      /\ result[g].at \in Times
      /\ Attributed(result[g], runs)
      /\ attempts \in Nat
  BY DEF IInv, TypeOK, WorkOK, EnvironmentOK, Results, Attribution, WorkAttributed, Save
<1>3. UNCHANGED <<environment, process, attempts, runs, baseline>>
  BY DEF Save
<1>4. ASSUME NEW id \in 1..attempts,
             polls' = Insert(polls, id, result[g]),
             pollID' = [pollID EXCEPT ![g] = id],
             Goto(g, "reload"),
             UNCHANGED <<result, view>>
      PROVE  IInv'
  <2> USE DEF environment, process, view
  <2>1. id \in Nat
    BY <1>2
  <2>2. /\ DOMAIN polls' = DOMAIN polls \cup {id}
        /\ \A p \in DOMAIN polls' : polls'[p] = IF p = id THEN result[g] ELSE polls[p]
    BY <1>4 DEF Insert
  <2>3. TablesOK'
    BY <1>2, <1>3, <1>4, <2>1, <2>2 DEF IInv, TypeOK, TablesOK, Insert
  <2>4. IsFiniteSet(DOMAIN polls)'
    BY <2>2, FS_AddElement DEF IInv
  <2>5. EnvironmentOK' /\ ViewOK'
    BY <1>3, <1>4 DEF IInv, TypeOK, EnvironmentOK, ViewOK
  <2>6. ControlOK'
    BY <1>1, <1>4, GotoType DEF IInv, TypeOK, InPoll, Labels
  <2>7. WorkOK'
    BY <1>3, <1>4, <2>1 DEF IInv, TypeOK, WorkOK
  <2>8. PollsAttributed'
    BY <1>2, <1>3, <2>2 DEF IInv, Attribution, PollsAttributed, Attributed
  <2>9. WorkAttributed'
    BY <1>1, <1>2, <1>3, <1>4 DEF IInv, TypeOK, ControlOK, Attribution, WorkAttributed, Goto
  <2>10. KnowsItsRun(previous, runs)'
    BY <1>3, <1>4 DEF IInv, Attribution, KnowsItsRun, HasRun
  <2> QED
    BY <2>3, <2>4, <2>5, <2>6, <2>7, <2>8, <2>9, <2>10 DEF IInv, TypeOK, Attribution
<1>5. CASE /\ RecordFailure(result[g].at, 0, NoSnapshot, HealthObservation(result[g]))
           /\ Return(g, NoSnapshot)
           /\ UNCHANGED polls
  BY <1>1, <1>2, <1>3, <1>5, StepFailure, NoSnapshotType, HealthObservationType DEF database
<1> QED
  BY <1>4, <1>5 DEF Save

\* Reloading and publishing keeps the invariant.
LEMMA StepReload ==
  ASSUME IInv, NEW g \in Pollers, Reload(g)
  PROVE  IInv'
<1>1. g \in pollMu
  BY InsideHolds DEF IInv, TypeOK, InPoll, Labels, Reload
<1>2. /\ result[g] \in Results
      /\ result[g].at \in Times
      /\ pollID[g] \in Nat
      /\ HealthObservation(result[g]) \in Observations
  BY HealthObservationType DEF IInv, TypeOK, WorkOK, Results
<1>3. UNCHANGED <<environment, process, attempts, database, baseline>>
  BY DEF Reload
<1>4. ASSUME NEW p \in DOMAIN polls,
             RecordSuccess(result[g].at, pollID[g], Snapshot(p)),
             Return(g, Snapshot(p))
      PROVE  IInv'
  <2>1. Snapshot(p) \in Snapshots /\ KnowsItsRun(Snapshot(p), runs)
    BY SnapshotType DEF IInv, TypeOK, Attribution
  <2>2. TablesOK' /\ IsFiniteSet(DOMAIN polls)' /\ PollsAttributed' /\ RunsKept
    BY <1>3, TablesUnchanged
  <2>3. EnvironmentOK'
    BY <1>3 DEF IInv, TypeOK, EnvironmentOK, environment, process
  <2>4. ControlOK' /\ WorkOK'
    BY <1>1, <1>3, <1>4, ReturnType DEF IInv, TypeOK
  <2>5. ViewOK'
    BY <1>2, <1>4, <2>1, RecordSuccessType DEF IInv, TypeOK
  <2>6. WorkAttributed'
    BY <1>1, <1>4, <2>2, ReturnAttribution DEF IInv, TypeOK, Attribution
  <2>7. KnowsItsRun(previous, runs)'
    BY <1>3, <1>4, <2>1 DEF RecordSuccess, KnowsItsRun, database
  <2> QED
    BY <2>2, <2>3, <2>4, <2>5, <2>6, <2>7 DEF IInv, TypeOK, Attribution
<1>5. ASSUME NEW p \in DOMAIN polls,
             RecordFailure(result[g].at, pollID[g], Snapshot(p), HealthObservation(result[g])),
             Return(g, NoSnapshot)
      PROVE  IInv'
  <2>1. Snapshot(p) \in Snapshots
    BY SnapshotType DEF IInv, TypeOK, Attribution
  <2> QED
    BY <1>1, <1>2, <1>3, <1>5, <2>1, StepFailure
<1>6. CASE /\ RecordFailure(result[g].at, pollID[g], NoSnapshot, HealthObservation(result[g]))
           /\ Return(g, NoSnapshot)
  BY <1>1, <1>2, <1>3, <1>6, StepFailure, NoSnapshotType
<1> QED
  BY <1>4, <1>5, <1>6 DEF Reload, Newest

\* Deleting polls disturbs only what is said of every poll.
LEMMA CleanedTables ==
  ASSUME IInv, DeletePollsBefore, UNCHANGED runs
  PROVE  TablesOK' /\ IsFiniteSet(DOMAIN polls)' /\ PollsAttributed'
<1>1. Retained \subseteq DOMAIN polls
  BY DEF Retained
<1>2. polls' = [p \in Retained |-> polls[p]]
  BY DEF DeletePollsBefore
<1>3. DOMAIN polls' = Retained /\ \A p \in DOMAIN polls' : polls'[p] = polls[p]
  BY <1>2
<1>4. TablesOK'
  BY <1>1, <1>2, <1>3 DEF IInv, TypeOK, TablesOK
<1>5. IsFiniteSet(DOMAIN polls)'
  BY <1>1, <1>3, FS_Subset DEF IInv
<1>6. PollsAttributed'
  BY <1>1, <1>3 DEF IInv, Attribution, PollsAttributed, Attributed
<1> QED
  BY <1>4, <1>5, <1>6

\* The rest of the invariant does not look at polls.
LEMMA OutsideTables ==
  ASSUME IInv, TablesOK', IsFiniteSet(DOMAIN polls)', PollsAttributed', EnvironmentOK',
         UNCHANGED <<runs, pollMu, pc, result, pollID, baseline, view, loop>>
  PROVE  IInv'
<1> USE DEF view, loop
<1>1. ControlOK' /\ WorkOK' /\ ViewOK'
  BY DEF IInv, TypeOK, ControlOK, WorkOK, ViewOK
<1>2. WorkAttributed'
  BY DEF IInv, Attribution, WorkAttributed, Attributed
<1>3. KnowsItsRun(previous, runs)'
  BY DEF IInv, Attribution, KnowsItsRun, HasRun
<1> QED
  BY <1>1, <1>2, <1>3 DEF IInv, TypeOK, Attribution

\* Retention keeps the invariant: it deletes polls, never runs.
LEMMA StepCleanup ==
  ASSUME IInv, RetentionCleanup
  PROVE  IInv'
<1>1. EnvironmentOK'
  BY DEF IInv, TypeOK, EnvironmentOK, RetentionCleanup, environment, process
<1> QED
  BY <1>1, CleanedTables, OutsideTables DEF RetentionCleanup

\* A start of StatLite, with its cleanup, keeps the invariant.
LEMMA StepBoot ==
  ASSUME IInv, Boot
  PROVE  IInv'
<1>1. EnvironmentOK'
  BY DEF IInv, TypeOK, EnvironmentOK, Boot, environment
<1>2. TablesOK' /\ IsFiniteSet(DOMAIN polls)' /\ PollsAttributed'
  <2>1. CASE DeletePollsBefore
    BY <2>1, CleanedTables DEF Boot
  <2>2. CASE UNCHANGED polls
    BY <2>2, TablesUnchanged DEF Boot, database
  <2> QED
    BY <2>1, <2>2 DEF Boot
<1> QED
  BY <1>1, <1>2, OutsideTables DEF Boot

\* The status restored for --no-poll is a status.
LEMMA RestoredStatusType ==
  ASSUME IInv, NEW newest \in Snapshots, NEW successful \in Snapshots
  PROVE  RestoredStatus(newest, successful) \in Statuses
<1> DEFINE failed == Newest(DOMAIN polls \ OkPolls)
           failedAt == IF failed = {} THEN 0 ELSE polls[CHOOSE p \in failed : TRUE].at
           trailing == {p \in DOMAIN polls : \A q \in OkPolls : Before(q, p)}
           failures == IF newest.result.ok THEN 0 ELSE TrailingFailedPolls
<1>1. failedAt \in Times
  <2>1. failed \subseteq DOMAIN polls
    BY DEF Newest
  <2>2. \A p \in DOMAIN polls : polls[p].at \in Times
    BY DEF IInv, TypeOK, TablesOK, Results
  <2>3. 0 \in Times
    BY BoundAssumption DEF Times
  <2>4. CASE failed = {}
    BY <2>3, <2>4
  <2>5. CASE failed # {}
    <3>1. (CHOOSE p \in failed : TRUE) \in failed
      BY <2>5
    <3>2. polls[CHOOSE p \in failed : TRUE].at \in Times
      <4> HIDE DEF failed
      <4> QED
        BY <2>1, <2>2, <3>1
    <3> QED
      BY <2>5, <3>2
  <2> QED
    BY <2>4, <2>5
<1>2. Cardinality(trailing) \in Nat
  <2>1. IsFiniteSet(trailing)
    BY FS_Subset DEF IInv
  <2> QED
    BY <2>1, FS_CardinalityType
<1>3. failures \in Nat
  BY <1>2, BoundAssumption DEF TrailingFailedPolls
<1>4. /\ newest.id \in Nat /\ newest.result.at \in Times
      /\ successful.id \in Nat /\ successful.result.at \in Times
  BY DEF Snapshots, Results
<1>5. RestoredStatus(newest, successful) =
        [lastPollAt |-> newest.result.at, lastStored |-> newest.id,
         lastSuccessAt |-> successful.result.at, lastSuccessStored |-> successful.id,
         lastFailedAt |-> failedAt, failures |-> failures]
  BY DEF RestoredStatus
<1> HIDE DEF failedAt, failures
<1> QED
  BY <1>1, <1>3, <1>4, <1>5 DEF Statuses

\* A start with --no-poll keeps the invariant.
LEMMA StepEnableNoPoll ==
  ASSUME IInv, EnableNoPoll
  PROVE  IInv'
<1>1. EnvironmentOK'
  BY DEF IInv, TypeOK, EnvironmentOK, EnableNoPoll, environment
<1>2. TablesOK' /\ IsFiniteSet(DOMAIN polls)' /\ PollsAttributed' /\ UNCHANGED runs
  BY TablesUnchanged DEF EnableNoPoll, database
<1>3. CASE polls = <<>>
  BY <1>1, <1>2, <1>3, OutsideTables DEF EnableNoPoll
<1>4. ASSUME NEW p \in Newest(DOMAIN polls), NEW successful \in LatestSuccessfulSnapshot,
             latest' = Snapshot(p),
             health' = HealthObservation(polls[p]),
             previous' = successful,
             status' = RestoredStatus(Snapshot(p), successful)
      PROVE  IInv'
  <2>1. p \in DOMAIN polls /\ p \in Nat /\ polls[p] \in Results
    BY DEF Newest, IInv, TypeOK, TablesOK
  <2>2. /\ Snapshot(p) \in Snapshots
        /\ successful \in Snapshots /\ KnowsItsRun(successful, runs)
    BY <2>1, SnapshotType, LatestSuccessfulType DEF IInv, TypeOK, Attribution
  <2>3. ViewOK'
    BY <1>4, <2>1, <2>2, HealthObservationType, RestoredStatusType DEF ViewOK
  <2>4. UNCHANGED <<runs, pollMu, pc, result, pollID, baseline, loop>>
    BY <1>2 DEF EnableNoPoll
  <2>5. ControlOK' /\ WorkOK'
    BY <2>4 DEF IInv, TypeOK, ControlOK, WorkOK, loop
  <2>6. WorkAttributed'
    BY <2>4 DEF IInv, Attribution, WorkAttributed, Attributed
  <2>7. KnowsItsRun(previous, runs)'
    BY <1>4, <2>2, <2>4 DEF KnowsItsRun
  <2> QED
    BY <1>1, <1>2, <2>3, <2>5, <2>6, <2>7 DEF IInv, TypeOK, Attribution
<1> QED
  BY <1>3, <1>4 DEF EnableNoPoll

\* A crash keeps the invariant: the tables survive, the memory is reset.
LEMMA StepExit ==
  ASSUME IInv, Exit
  PROVE  IInv'
<1>1. TablesOK' /\ IsFiniteSet(DOMAIN polls)' /\ PollsAttributed'
  BY TablesUnchanged DEF Exit
<1>2. EnvironmentOK'
  BY DEF IInv, TypeOK, EnvironmentOK, Exit, environment
<1>3. ControlOK'
  BY NoSnapshotType DEF Exit, ControlOK, NoHistory, Labels, InPoll
<1>4. WorkOK' /\ ViewOK'
  BY NoResultType, NoSamplesType, NoSnapshotType, NoHealthType, NoStatusType
     DEF Exit, WorkOK, ViewOK
<1>5. WorkAttributed' /\ KnowsItsRun(previous, runs)'
  BY DEF Exit, WorkAttributed, KnowsItsRun, HasRun, NoResult
<1> QED
  BY <1>1, <1>2, <1>3, <1>4, <1>5 DEF IInv, TypeOK, Attribution

\* A restart of the application keeps the invariant.
LEMMA StepAppRestarts ==
  ASSUME IInv, AppRestarts
  PROVE  IInv'
<1>1. TablesOK' /\ IsFiniteSet(DOMAIN polls)' /\ PollsAttributed'
  BY TablesUnchanged DEF AppRestarts
<1>2. app.incarnation + 1 \in Incarnations
  BY BoundAssumption DEF IInv, TypeOK, EnvironmentOK, Incarnations, AppRestarts
<1>3. [s \in Signals |-> 0] \in [Signals -> Levels]
  BY BoundAssumption DEF Levels
<1>4. EnvironmentOK'
  BY <1>2, <1>3 DEF IInv, TypeOK, EnvironmentOK, AppRestarts, process
<1> QED
  BY <1>1, <1>4, OutsideTables DEF AppRestarts, database

\* The clock keeps the invariant, whichever way it moves.
LEMMA StepClock ==
  ASSUME IInv, ClockMoves
  PROVE  IInv'
<1>1. TablesOK' /\ IsFiniteSet(DOMAIN polls)' /\ PollsAttributed'
  BY TablesUnchanged DEF ClockMoves
<1>2. now' \in Times
  BY BoundAssumption DEF IInv, TypeOK, EnvironmentOK, Times, ClockMoves
<1>3. EnvironmentOK'
  BY <1>2 DEF IInv, TypeOK, EnvironmentOK, ClockMoves, process
<1> QED
  BY <1>1, <1>3, OutsideTables DEF ClockMoves, database

-----------------------------------------------------------------------------
\* Every step of the monitor, its storage, the cleaner and the environment
\* keeps the types, the finiteness of the polls table and the attribution.
THEOREM StepIInv == IInv /\ [Next]_vars => IInv'
<1> SUFFICES ASSUME IInv, [Next]_vars PROVE IInv'
  OBVIOUS
<1>1. CASE LoadSuccessfulHistory
  BY <1>1, StepLoadHistory
<1>2. ASSUME NEW g \in Pollers, CallPollNow(g) PROVE IInv'
  BY <1>2, StepCall
<1>3. ASSUME NEW g \in Pollers, Step(g) PROVE IInv'
  BY <1>3, StepLock, StepLoadPrevious, StepCollect, StepStartTime, StepDetect,
     StepSave, StepReload DEF Step
<1>4. CASE RetentionCleanup
  BY <1>4, StepCleanup
<1>5. CASE Boot \/ EnableNoPoll \/ Exit
  BY <1>5, StepBoot, StepEnableNoPoll, StepExit
<1>6. CASE AppRestarts \/ ClockMoves
  BY <1>6, StepAppRestarts, StepClock
<1>7. CASE UNCHANGED vars
  <2>1. TablesOK' /\ IsFiniteSet(DOMAIN polls)' /\ PollsAttributed'
    BY <1>7, TablesUnchanged DEF vars, database
  <2>2. EnvironmentOK'
    BY <1>7 DEF vars, IInv, TypeOK, EnvironmentOK
  <2> QED
    BY <1>7, <2>1, <2>2, OutsideTables DEF vars, view, loop
<1> QED
  BY <1>1, <1>2, <1>3, <1>4, <1>5, <1>6, <1>7 DEF Next

\* Every variable keeps its type, and one goroutine at a time is in PollNow,
\* exactly while it holds pollMu.
THEOREM TypeCorrect == Spec => []TypeOK
<1>1. IInv => TypeOK
  BY DEF IInv
<1> QED
  BY <1>1, InitIInv, StepIInv, PTL DEF Spec

\* A stored poll that reported a process start time is in the app run of that
\* start time, whatever crashed, failed or interleaved.
THEOREM RunsHaveOneStart == Spec => []OneStartPerRun
<1>1. IInv => OneStartPerRun
  BY DEF IInv, Attribution, PollsAttributed, Attributed, OneStartPerRun
<1> QED
  BY <1>1, InitIInv, StepIInv, PTL DEF Spec

-----------------------------------------------------------------------------
(* Facts about one state.                                                  *)

\* The fields of a result that are compared.
LEMMA ResultType ==
  ASSUME NEW c \in Results
  PROVE  /\ c.at \in Nat /\ c.at \in Times /\ c.ok \in BOOLEAN
         /\ c.start \in Nat /\ c.seen \in Nat /\ c.run \in Nat
         /\ c.attempt \in Nat /\ c.boot \in Nat
<1>1. /\ c.at \in Times /\ c.ok \in BOOLEAN
      /\ c.start \in Incarnations /\ c.seen \in Incarnations /\ c.run \in Nat
      /\ c.attempt \in Nat /\ c.boot \in Nat
  BY DEF Results
<1>2. Times \subseteq Nat /\ Incarnations \subseteq Nat
  BY BoundAssumption DEF Times, Incarnations
<1> QED
  BY <1>1, <1>2

\* A row of the polls table.
LEMMA PollType ==
  ASSUME TablesOK, NEW p \in DOMAIN polls
  PROVE  p \in Nat /\ polls[p] \in Results /\ polls[p].at \in Nat
<1>1. p \in Nat /\ polls[p] \in Results
  BY DEF TablesOK
<1> QED
  BY <1>1, ResultType

\* Beside the goroutine inside PollNow the others are idle or wait for pollMu.
LEMMA OthersOutside ==
  ASSUME ControlOK, NEW g \in Pollers, pc[g] \in InPoll, NEW h \in Pollers, h # g
  PROVE  pc[h] \in {"idle", "lock"}
  BY DEF ControlOK, Labels, InPoll

\* A goroutine that is not idle belongs to a polling StatLite.
LEMMA BusyIsPolling ==
  ASSUME MemoryFollowsMode, NEW g \in Pollers, pc[g] # "idle"
  PROVE  mode = "polling"
  BY DEF MemoryFollowsMode

\* Nothing is unread while the goroutine inside PollNow has stored nothing yet.
LEMMA NothingUnread ==
  ASSUME ControlOK, NEW g \in Pollers, pc[g] \in InPoll, pc[g] # "reload"
  PROVE  Unread = {} /\ Settled = DOMAIN polls /\ SettledOk = OkPolls
<1>1. \A h \in Pollers : pc[h] # "reload"
  BY OthersOutside
<1> QED
  BY <1>1 DEF Unread, Settled, SettledOk

\* Nothing is unread while nobody is inside PollNow.
LEMMA NobodyUnread ==
  ASSUME ControlOK, pollMu = {}
  PROVE  Unread = {} /\ Settled = DOMAIN polls /\ SettledOk = OkPolls
<1>1. \A h \in Pollers : pc[h] # "reload"
  BY DEF ControlOK, InPoll, Labels
<1> QED
  BY <1>1 DEF Unread, Settled, SettledOk

\* The goroutine about to reload has the one unread poll.
LEMMA OneUnread ==
  ASSUME ControlOK, NEW g \in Pollers, pc[g] = "reload"
  PROVE  Unread = {pollID[g]}
<1>1. \A h \in Pollers : h # g => pc[h] # "reload"
  BY OthersOutside DEF InPoll, Labels
<1> QED
  BY <1>1 DEF Unread

\* The newest of some polls, by time and id, is the one with the largest id.
LEMMA NewestIsLast ==
  ASSUME TablesOK, IdsFollowTime, NEW S \in SUBSET DOMAIN polls, NEW p \in Newest(S)
  PROVE  p \in S /\ \A q \in S : q <= p
<1> SUFFICES ASSUME NEW q \in S PROVE p \in S /\ q <= p
  BY DEF Newest
<1>1. p \in S /\ (q # p => Before(q, p))
  BY DEF Newest
<1>2. p \in Nat /\ q \in Nat /\ polls[p].at \in Nat /\ polls[q].at \in Nat
  BY <1>1, PollType
<1>3. p < q => polls[p].at <= polls[q].at
  BY <1>1 DEF IdsFollowTime
<1> QED
  BY <1>1, <1>2, <1>3 DEF Before

\* The newest poll is the only one.
LEMMA NewestIsUnique ==
  ASSUME TablesOK, IdsFollowTime, NEW S \in SUBSET DOMAIN polls, NEW p \in S,
         \A q \in S : q <= p
  PROVE  Newest(S) = {p}
<1>1. p \in Newest(S)
  <2> SUFFICES ASSUME NEW q \in S \ {p} PROVE Before(q, p)
    BY DEF Newest
  <2>1. p \in Nat /\ q \in Nat /\ polls[p].at \in Nat /\ polls[q].at \in Nat
    BY PollType
  <2>2. q < p
    BY <2>1
  <2> QED
    BY <2>1, <2>2 DEF Before, IdsFollowTime
<1>2. ASSUME NEW q \in Newest(S) PROVE q = p
  <2>1. q \in S /\ p <= q
    BY <1>2, NewestIsLast
  <2> QED
    BY <2>1, PollType
<1> QED
  BY <1>1, <1>2

\* A snapshot of a poll that stays does not change: rows of app_runs are kept.
LEMMA SnapshotKept ==
  ASSUME PollsAttributed, RunsKept,
         NEW p \in DOMAIN polls, p \in DOMAIN polls', polls'[p] = polls[p]
  PROVE  Snapshot(p)' = Snapshot(p)
  BY DEF PollsAttributed, Attributed, RunsKept, Snapshot

\* What retention deletes is older than everything it keeps.
LEMMA PruneFacts ==
  ASSUME TablesOK, IdsFollowTime, EnvironmentOK, DeletePollsBefore
  PROVE  /\ DOMAIN polls' \subseteq DOMAIN polls
         /\ \A p \in DOMAIN polls' : polls'[p] = polls[p]
         /\ \A p \in DOMAIN polls', q \in DOMAIN polls : p <= q => q \in DOMAIN polls'
         /\ \A p \in DOMAIN polls : polls[p].at = now => p \in DOMAIN polls'
<1>1. DOMAIN polls' = Retained /\ \A p \in Retained : polls'[p] = polls[p]
  BY DEF DeletePollsBefore
<1>2. \A p \in DOMAIN polls : p \in Nat /\ polls[p].at \in Nat
  BY PollType
<1>3. ASSUME NEW p \in Retained, NEW q \in DOMAIN polls, p <= q
      PROVE  q \in Retained
  <2>1. p \in DOMAIN polls /\ polls[p].at + Retention >= now
    BY DEF Retained
  <2>2. polls[p].at <= polls[q].at
    BY <1>2, <1>3, <2>1 DEF IdsFollowTime
  <2> QED
    BY <1>2, <2>1, <2>2, BoundAssumption DEF Retained, EnvironmentOK, Times
<1>4. \A p \in DOMAIN polls : polls[p].at = now => p \in Retained
  BY BoundAssumption DEF Retained, EnvironmentOK, Times
<1> QED
  BY <1>1, <1>3, <1>4 DEF Retained

-----------------------------------------------------------------------------
(* Before the first boot.                                                  *)

\* Nothing is stored and nothing is remembered.
LEMMA InitMemory == Init => Memory
<1> SUFFICES ASSUME Init PROVE Memory
  OBVIOUS
<1>1. \A g \in Pollers : pc[g] = "idle"
  BY DEF Init
<1>2. DOMAIN polls = {} /\ now = 1
  BY DEF Init
<1>3. MemoryFollowsMode /\ IdsFollowTime
  BY <1>2 DEF Init, MemoryFollowsMode, IdsFollowTime
<1>4. CarriedIsNow /\ BaselineIsNewest /\ StatusIsOfBaseline
  BY <1>1 DEF Init, CarriedIsNow, BaselineIsNewest, StatusIsOfBaseline, Carrying, NoStatus
<1> QED
  BY <1>3, <1>4 DEF Memory

-----------------------------------------------------------------------------
(* Each action keeps the memory.                                           *)

\* What a step has to show that leaves the polls, the baseline and the status
\* alone and stores and publishes nothing.
LEMMA MemoryFrame ==
  ASSUME IInv, Memory, RunsKept, UNCHANGED <<now, polls, previous, status>>,
         Unread' = Unread,
         \A h \in Pollers : pc'[h] \in Carrying => result'[h].at = now,
         \A h \in Pollers : pc'[h] = "reload" =>
           pc[h] = "reload" /\ pollID'[h] = pollID[h] /\ result'[h] = result[h],
         \A h \in Pollers : pc'[h] = "load" => previous = NoSnapshot,
         previous = NoSnapshot =>
           \A h \in Pollers : pc'[h] \in Carrying \cup {"collect"} => SettledOk = {}
  PROVE  IdsFollowTime' /\ CarriedIsNow' /\ BaselineIsNewest' /\ StatusIsOfBaseline'
<1>1. IdsFollowTime' /\ StatusIsOfBaseline'
  BY DEF Memory, IdsFollowTime, StatusIsOfBaseline
<1>2. CarriedIsNow'
  BY DEF Memory, CarriedIsNow
<1>3. SettledOk' = SettledOk /\ (Current' <=> Current)
  BY DEF SettledOk, OkPolls, Current
<1>4. previous # NoSnapshot /\ Current /\ SettledOk # {} =>
        previous.id \in SettledOk /\ previous = Snapshot(previous.id)'
  BY SnapshotKept DEF Memory, BaselineIsNewest, SettledOk, OkPolls, IInv, Attribution
<1>5. BaselineIsNewest'
  BY <1>3, <1>4 DEF Memory, BaselineIsNewest
<1> QED
  BY <1>1, <1>2, <1>5

\* A poll that ends in a recorded failure keeps the memory: the baseline is
\* untouched, and if it is still known to be the newest success then nothing
\* successful has just been stored.
LEMMA MemoryFailure ==
  ASSUME IInv, Memory, NEW g \in Pollers, pc[g] \in InPoll,
         NEW id, NEW s, NEW observation, NEW returned,
         RecordFailure(now, id, s, observation), Return(g, returned),
         UNCHANGED <<environment, process, database>>,
         pc[g] = "reload" => ~result[g].ok \/ "reload" \in Faults
  PROVE  Memory'
<1> USE DEF environment, process, database
<1>1. mode = "polling" /\ MemoryFollowsMode'
  BY BusyIsPolling DEF InPoll, Labels, Memory, MemoryFollowsMode
<1>2. \A h \in Pollers : pc'[h] \in {"idle", "lock"}
  BY OthersOutside DEF IInv, TypeOK, ControlOK, Return
<1>3. Unread' = {} /\ SettledOk' = OkPolls
  BY <1>2 DEF Unread, SettledOk, OkPolls
<1>4. CarriedIsNow'
  BY <1>2 DEF CarriedIsNow, Carrying
<1>5. IdsFollowTime'
  BY DEF Memory, IdsFollowTime
<1>6. /\ status'.lastSuccessAt = status.lastSuccessAt
      /\ status'.lastSuccessStored = status.lastSuccessStored
      /\ status'.failures # 0
      /\ UNCHANGED previous
  BY DEF RecordFailure, IInv, TypeOK, ViewOK, Statuses
<1>7. StatusIsOfBaseline'
  BY <1>6 DEF Memory, StatusIsOfBaseline
<1>8. Current' => Current /\ SettledOk = OkPolls
  <2> SUFFICES ASSUME Current' PROVE Current /\ SettledOk = OkPolls
    OBVIOUS
  <2>1. "reload" \notin Faults
    BY <1>6 DEF Current
  <2>2. CASE pc[g] = "reload"
    <3>1. pollID[g] \notin OkPolls
      BY <2>1, <2>2 DEF OkPolls, Memory, CarriedIsNow
    <3>2. Unread = {pollID[g]}
      BY <2>2, OneUnread DEF IInv, TypeOK
    <3> QED
      BY <2>1, <3>1, <3>2 DEF SettledOk, Current
  <2>3. CASE pc[g] # "reload"
    BY <2>1, <2>3, NothingUnread DEF Current, IInv, TypeOK
  <2> QED
    BY <2>2, <2>3
<1>9. \A p \in OkPolls : Snapshot(p)' = Snapshot(p) /\ p \in OkPolls'
  BY DEF Snapshot, OkPolls
<1>10. BaselineIsNewest'
  BY <1>2, <1>3, <1>6, <1>8, <1>9 DEF Memory, BaselineIsNewest, Carrying
<1> QED
  BY <1>1, <1>4, <1>5, <1>7, <1>10 DEF Memory

\* What is read from storage as the baseline is the newest stored success.
LEMMA LoadedBaseline ==
  ASSUME IInv, IdsFollowTime, NEW s \in LatestSuccessfulSnapshot
  PROVE  /\ s = NoSnapshot => OkPolls = {} /\ s.id = 0 /\ s.result.at = 0
         /\ s # NoSnapshot =>
              /\ s.id \in OkPolls /\ s = Snapshot(s.id) /\ s.result = polls[s.id]
              /\ s.id # 0 /\ s.result.ok /\ s.result.at # 0 /\ s.result.at <= now
              /\ \A p \in OkPolls : p <= s.id /\ polls[p].at <= s.result.at
<1>1. CASE OkPolls = {}
  <2>1. s = NoSnapshot
    BY <1>1 DEF LatestSuccessfulSnapshot
  <2>2. NoSnapshot.id = 0 /\ NoSnapshot.result.at = 0
    BY DEF NoSnapshot, NoResult
  <2> QED
    BY <1>1, <2>1, <2>2
<1>2. CASE OkPolls # {}
  <2>1. OkPolls \subseteq DOMAIN polls
    BY DEF OkPolls
  <2>2. PICK p \in Newest(OkPolls) : s = Snapshot(p)
    BY <1>2 DEF LatestSuccessfulSnapshot
  <2>3. p \in OkPolls /\ \A q \in OkPolls : q <= p
    BY <2>1, NewestIsLast DEF IInv, TypeOK
  <2>4. s.id = p /\ s.result = polls[p]
    BY <2>2 DEF Snapshot
  <2>5. p # 0 /\ polls[p].ok /\ polls[p].at # 0 /\ polls[p].at <= now
    BY <2>1, <2>3 DEF IdsFollowTime, OkPolls
  <2>6. ASSUME NEW q \in OkPolls PROVE polls[q].at <= polls[p].at
    <3>1. p \in Nat /\ q \in Nat /\ polls[p].at \in Nat
      BY <2>1, <2>3, PollType DEF IInv, TypeOK
    <3> QED
      BY <2>1, <2>3, <3>1 DEF IdsFollowTime
  <2>7. s # NoSnapshot
    BY <2>4, <2>5 DEF NoSnapshot
  <2> QED
    BY <2>2, <2>3, <2>4, <2>5, <2>6, <2>7
<1> QED
  BY <1>1, <1>2

\* Reading the history loads the newest success, or keeps the one known.
LEMMA MemoryLoadHistory ==
  ASSUME IInv, Memory, LoadSuccessfulHistory
  PROVE  Memory'
<1> USE DEF environment, process, database
<1>1. Unread = {} /\ Settled = DOMAIN polls /\ SettledOk = OkPolls
  BY NobodyUnread DEF LoadSuccessfulHistory, IInv, TypeOK
<1>2. \A h \in Pollers : pc'[h] \in {"idle", "lock"}
  BY DEF LoadSuccessfulHistory, IInv, TypeOK, ControlOK, Labels, InPoll
<1>3. Unread' = {} /\ SettledOk' = OkPolls
  BY <1>2 DEF Unread, SettledOk, OkPolls, LoadSuccessfulHistory
<1>4. MemoryFollowsMode' /\ IdsFollowTime'
  BY DEF LoadSuccessfulHistory, Memory, MemoryFollowsMode, IdsFollowTime
<1>5. CarriedIsNow'
  BY <1>2 DEF CarriedIsNow, Carrying
<1>6. \A s : Snapshot(s)' = Snapshot(s)
  BY DEF Snapshot, LoadSuccessfulHistory
<1>7. UNCHANGED <<now, polls, status>> /\ (Current' <=> Current)
  BY DEF Current, LoadSuccessfulHistory
<1>8. CASE previous' = previous
  <2>1. BaselineIsNewest'
    BY <1>1, <1>2, <1>3, <1>6, <1>7, <1>8 DEF Memory, BaselineIsNewest, Carrying
  <2> QED
    BY <1>4, <1>5, <1>7, <1>8, <2>1 DEF Memory, StatusIsOfBaseline
<1>9. CASE previous = NoSnapshot /\ previous' \in LatestSuccessfulSnapshot
  <2>1. BaselineIsNewest'
    BY <1>2, <1>3, <1>6, <1>7, <1>9, LoadedBaseline DEF Memory, BaselineIsNewest, Carrying
  <2>2. status.lastSuccessStored = 0
    BY <1>9 DEF Memory, StatusIsOfBaseline, BaselineIsNewest, NoSnapshot
  <2> QED
    BY <1>4, <1>5, <1>7, <2>1, <2>2 DEF Memory, StatusIsOfBaseline
<1> QED
  BY <1>8, <1>9 DEF LoadSuccessfulHistory

\* So does a poll that finds no baseline in memory.
LEMMA MemoryLoadPrevious ==
  ASSUME IInv, Memory, NEW g \in Pollers, LoadPrevious(g)
  PROVE  Memory'
<1> USE DEF environment, process, database
<1>1. pc[g] \in InPoll /\ pc[g] # "reload" /\ previous = NoSnapshot
  BY DEF LoadPrevious, InPoll, Labels, Memory, BaselineIsNewest
<1>2. CASE /\ previous' \in LatestSuccessfulSnapshot
           /\ Goto(g, "collect")
           /\ UNCHANGED <<status, latest, health, result, pollID>>
  <2>1. Unread = {} /\ SettledOk = OkPolls
    BY <1>1, NothingUnread DEF IInv, TypeOK
  <2>2. \A h \in Pollers : pc'[h] \in {"idle", "lock", "collect"}
    BY <1>1, <1>2, OthersOutside DEF IInv, TypeOK, ControlOK, Goto
  <2>3. UNCHANGED <<now, polls, status>> /\ (Current' <=> Current)
    BY <1>2 DEF Current, LoadPrevious
  <2>4. Unread' = {} /\ SettledOk' = OkPolls
    BY <2>2, <2>3 DEF Unread, SettledOk, OkPolls
  <2>5. mode = "polling" /\ UNCHANGED mode
    BY <1>1, BusyIsPolling DEF InPoll, Labels, Memory, LoadPrevious
  <2>6. MemoryFollowsMode' /\ IdsFollowTime' /\ CarriedIsNow'
    BY <2>2, <2>3, <2>5 DEF Memory, MemoryFollowsMode, IdsFollowTime, CarriedIsNow, Carrying
  <2>7. \A s : Snapshot(s)' = Snapshot(s)
    BY DEF Snapshot, LoadPrevious
  <2>8. BaselineIsNewest'
    BY <1>2, <2>2, <2>3, <2>4, <2>7, LoadedBaseline
       DEF Memory, BaselineIsNewest, Carrying
  <2>9. status.lastSuccessStored = 0
    BY <1>1 DEF Memory, StatusIsOfBaseline, BaselineIsNewest, NoSnapshot
  <2>10. StatusIsOfBaseline'
    BY <2>3, <2>9 DEF Memory, StatusIsOfBaseline
  <2> QED
    BY <2>6, <2>8, <2>10 DEF Memory
<1>3. CASE RecordFailure(now, 0, NoSnapshot, NoHealth) /\ Return(g, NoSnapshot)
  BY <1>1, <1>3, MemoryFailure DEF LoadPrevious
<1> QED
  BY <1>2, <1>3 DEF LoadPrevious

\* Calling PollNow moves one goroutine to the lock.
LEMMA MemoryCall ==
  ASSUME IInv, Memory, NEW g \in Pollers, CallPollNow(g)
  PROVE  Memory'
<1> USE DEF environment, process, database, view
<1>1. \A h \in Pollers : pc'[h] = IF h = g THEN "lock" ELSE pc[h]
  BY DEF CallPollNow, IInv, TypeOK, ControlOK
<1>2. pc[g] = "idle" /\ UNCHANGED <<now, polls, runs, previous, status, result, pollID, mode>>
  BY DEF CallPollNow
<1>3. {h \in Pollers : pc'[h] = "reload"} = {h \in Pollers : pc[h] = "reload"}
  BY <1>1, <1>2
<1>4. Unread' = Unread
  BY <1>2, <1>3 DEF Unread
<1>5. MemoryFollowsMode'
  BY <1>2 DEF CallPollNow, Memory, MemoryFollowsMode
<1>6. \A h \in Pollers : pc'[h] \in Carrying => result'[h].at = now
  BY <1>1, <1>2 DEF Memory, CarriedIsNow, Carrying
<1>7. previous = NoSnapshot =>
        \A h \in Pollers : pc'[h] \in Carrying \cup {"collect"} => SettledOk = {}
  BY <1>1, <1>2 DEF Memory, BaselineIsNewest, Carrying
<1>8. \A h \in Pollers : pc'[h] = "load" => previous = NoSnapshot
  BY <1>1, <1>2 DEF Memory, BaselineIsNewest
<1> QED
  BY <1>1, <1>2, <1>4, <1>5, <1>6, <1>7, <1>8, MemoryFrame DEF RunsKept, Memory

\* A goroutine that goes on inside PollNow, with the baseline it has, to a label
\* before "reload".
LEMMA MemoryMove ==
  ASSUME IInv, Memory, RunsKept, NEW g \in Pollers, pc[g] \in InPoll \cup {"lock"},
         pc[g] # "reload", \A h \in Pollers \ {g} : pc[h] \in {"idle", "lock"},
         NEW label \in InPoll, label # "reload",
         \A h \in Pollers : pc'[h] = IF h = g THEN label ELSE pc[h],
         \A h \in Pollers \ {g} : result'[h] = result[h],
         label \in Carrying => result'[g].at = now,
         label = "load" => previous = NoSnapshot,
         label \in Carrying \cup {"collect"} =>
           previous # NoSnapshot \/ pc[g] \in Carrying \cup {"collect"},
         UNCHANGED <<now, mode, polls, previous, status, pollID>>
  PROVE  Memory'
<1>1. \A h \in Pollers : pc[h] # "reload" /\ pc'[h] # "reload"
  OBVIOUS
<1>2. Unread' = Unread
  BY <1>1 DEF Unread
<1>3. mode = "polling" /\ MemoryFollowsMode'
  BY BusyIsPolling DEF InPoll, Labels, Memory, MemoryFollowsMode
<1>4. \A h \in Pollers : pc'[h] \in Carrying => result'[h].at = now
  BY DEF Carrying
<1>5. previous = NoSnapshot =>
        \A h \in Pollers : pc'[h] \in Carrying \cup {"collect"} => SettledOk = {}
  BY DEF Memory, BaselineIsNewest, Carrying
<1>6. \A h \in Pollers : pc'[h] = "load" => previous = NoSnapshot
  OBVIOUS
<1> QED
  BY <1>1, <1>2, <1>3, <1>4, <1>5, <1>6, MemoryFrame DEF Memory

\* Taking pollMu leads to the collection when there is a baseline.
LEMMA MemoryLock ==
  ASSUME IInv, Memory, NEW g \in Pollers, Lock(g)
  PROVE  Memory'
<1> USE DEF environment, process, database, view
<1> DEFINE label == IF previous = NoSnapshot THEN "load" ELSE "collect"
<1>1. label \in InPoll /\ label # "reload" /\ label \notin Carrying
  BY DEF InPoll, Labels, Carrying
<1>2. \A h \in Pollers : pc'[h] = IF h = g THEN label ELSE pc[h]
  BY DEF Lock, IInv, TypeOK, ControlOK
<1>3. pc[g] = "lock" /\ \A h \in Pollers \ {g} : pc[h] \in {"idle", "lock"}
  BY DEF Lock, IInv, TypeOK, ControlOK, InPoll, Labels
<1>4. RunsKept /\ UNCHANGED <<now, mode, polls, previous, status, pollID, result>>
  BY DEF Lock, RunsKept
<1>5. /\ label = "load" => previous = NoSnapshot
      /\ label = "collect" => previous # NoSnapshot
  OBVIOUS
<1> HIDE DEF label
<1> QED
  BY <1>1, <1>2, <1>3, <1>4, <1>5, MemoryMove

\* A collection is of this instant.
LEMMA MemoryCollect ==
  ASSUME IInv, Memory, NEW g \in Pollers, Collect(g)
  PROVE  Memory'
<1> USE DEF environment, process, database, view
<1>1. pc[g] = "collect" /\ pc[g] \in InPoll
  BY DEF Collect, InPoll, Labels
<1>2. \A h \in Pollers \ {g} : pc[h] \in {"idle", "lock"}
  BY <1>1, OthersOutside DEF IInv, TypeOK
<1>3. RunsKept /\ UNCHANGED <<now, mode, polls, previous, status, pollID>>
  BY DEF Collect, RunsKept
<1>4. ASSUME NEW label \in {"save", "detect", "start_time"}, NEW c, c.at = now,
             Goto(g, label), result' = [result EXCEPT ![g] = c]
      PROVE  Memory'
  <2>1. \A h \in Pollers : pc'[h] = IF h = g THEN label ELSE pc[h]
    BY <1>4 DEF Goto, IInv, TypeOK, ControlOK
  <2>2. \A h \in Pollers : result'[h] = IF h = g THEN c ELSE result[h]
    BY <1>4 DEF IInv, TypeOK, WorkOK
  <2>3. label \in InPoll /\ label # "reload"
    BY DEF InPoll, Labels
  <2> QED
    BY <1>1, <1>2, <1>3, <1>4, <2>1, <2>2, <2>3, MemoryMove
<1>5. \A h : Begun(h).at = now
  BY DEF Begun, NoResult
<1>6. \A h, signals, samples : Scraped(Begun(h), signals, samples).at = now
  BY DEF Scraped, Begun, NoResult
<1>7. ASSUME NEW h \in Health, CollectFails(g, Begun(h)) PROVE Memory'
  BY <1>4, <1>5, <1>7 DEF CollectFails
<1>8. ASSUME NEW h \in Health, NEW signals, NEW levels,
             CollectSamples(g, Begun(h), signals, levels)
      PROVE  Memory'
  BY <1>4, <1>6, <1>8 DEF CollectSamples
<1> QED
  BY <1>7, <1>8 DEF Collect

\* The separate request for the start time changes only that.
LEMMA MemoryStartTime ==
  ASSUME IInv, Memory, NEW g \in Pollers, CollectProcessStartTime(g)
  PROVE  Memory'
<1> USE DEF environment, process, database, view
<1>1. pc[g] = "start_time" /\ pc[g] \in InPoll /\ "detect" \in InPoll
  BY DEF CollectProcessStartTime, InPoll, Labels
<1>2. \A h \in Pollers \ {g} : pc[h] \in {"idle", "lock"}
  BY <1>1, OthersOutside DEF IInv, TypeOK
<1>3. RunsKept /\ UNCHANGED <<now, mode, polls, previous, status, pollID>>
  BY DEF CollectProcessStartTime, RunsKept
<1>4. \A h \in Pollers : pc'[h] = IF h = g THEN "detect" ELSE pc[h]
  BY DEF CollectProcessStartTime, Goto, IInv, TypeOK, ControlOK
<1>5. result[g].at = now
  BY <1>1 DEF Memory, CarriedIsNow, Carrying
<1>6. result'[g].at = now /\ \A h \in Pollers \ {g} : result'[h] = result[h]
  BY <1>5 DEF CollectProcessStartTime, IInv, TypeOK, WorkOK, Results
<1> QED
  BY <1>1, <1>2, <1>3, <1>4, <1>6, MemoryMove DEF Carrying

\* What restart detection does to app_runs, when it does anything.
LEMMA DetectKeepsRuns ==
  ASSUME IInv, NEW g \in Pollers, pc[g] = "detect", NEW id,
         IF NeedsNewRun(result[g])
           THEN EnsureAppRun(id, result[g].start, result[g].at)
           ELSE id = previous.result.run /\ TouchAppRun(id, result[g].at),
         id \in DOMAIN runs \cup 1..attempts
  PROVE  RunsKept /\ id \in Nat
<1>1. id \in Nat /\ RunsOK
  BY DEF IInv, TypeOK, TablesOK, EnvironmentOK, RunsOK
<1>2. result[g].start \in Incarnations /\ result[g].at \in Times
  BY DEF IInv, TypeOK, WorkOK, Results
<1> QED
  BY <1>1, <1>2, EnsureAppRunType, TouchAppRunType

\* Restart detection changes a run and names it in the result.
LEMMA MemoryDetect ==
  ASSUME IInv, Memory, NEW g \in Pollers, DetectAppRun(g)
  PROVE  Memory'
<1> USE DEF environment, process, view
<1>1. pc[g] = "detect" /\ pc[g] \in InPoll /\ "save" \in InPoll
  BY DEF DetectAppRun, InPoll, Labels
<1>2. \A h \in Pollers \ {g} : pc[h] \in {"idle", "lock"}
  BY <1>1, OthersOutside DEF IInv, TypeOK
<1>3. result[g].at = now
  BY <1>1 DEF Memory, CarriedIsNow, Carrying
<1>4. ASSUME NEW id \in DOMAIN runs \cup 1..attempts,
             IF NeedsNewRun(result[g])
               THEN EnsureAppRun(id, result[g].start, result[g].at)
               ELSE id = previous.result.run /\ TouchAppRun(id, result[g].at),
             result' = [result EXCEPT ![g].run = id,
                                      ![g].restart = RestartDetected(result[g])],
             Goto(g, "save"), UNCHANGED <<pollID, view>>
      PROVE  Memory'
  <2>1. RunsKept
    BY <1>1, <1>4, DetectKeepsRuns
  <2>2. \A h \in Pollers : pc'[h] = IF h = g THEN "save" ELSE pc[h]
    BY <1>4 DEF Goto, IInv, TypeOK, ControlOK
  <2>3. result'[g].at = now /\ \A h \in Pollers \ {g} : result'[h] = result[h]
    BY <1>3, <1>4 DEF IInv, TypeOK, WorkOK, Results
  <2>4. UNCHANGED <<now, mode, polls, previous, status, pollID>>
    BY <1>4 DEF DetectAppRun
  <2> QED
    BY <1>1, <1>2, <2>1, <2>2, <2>3, <2>4, MemoryMove DEF Carrying
<1>5. CASE /\ RecordFailure(result[g].at, 0, NoSnapshot, HealthObservation(result[g]))
           /\ Return(g, NoSnapshot)
           /\ UNCHANGED runs
  BY <1>1, <1>3, <1>5, MemoryFailure DEF DetectAppRun, database
<1> QED
  BY <1>4, <1>5 DEF DetectAppRun

\* What storing a poll does to the tables: it is the last one, and unread.
LEMMA SaveFacts ==
  ASSUME IInv, Memory, NEW g \in Pollers, pc[g] = "save", NEW id \in 1..attempts,
         IsFreshId(id, polls), polls' = Insert(polls, id, result[g]),
         pollID' = [pollID EXCEPT ![g] = id], Goto(g, "reload")
  PROVE  /\ id \in Nat /\ id # 0 /\ id \notin DOMAIN polls
         /\ \A p \in DOMAIN polls : p < id
         /\ DOMAIN polls' = DOMAIN polls \cup {id}
         /\ polls'[id] = result[g] /\ \A p \in DOMAIN polls : polls'[p] = polls[p]
         /\ Unread' = {id} /\ pollID'[g] = id
         /\ Settled' = DOMAIN polls /\ SettledOk' = OkPolls
         /\ \A h \in Pollers : pc'[h] = IF h = g THEN "reload" ELSE pc[h]
         /\ \A h \in Pollers \ {g} : pc[h] \in {"idle", "lock"}
<1>1. id \in Nat /\ id # 0 /\ id \notin DOMAIN polls /\ \A p \in DOMAIN polls : p < id
  BY PollType DEF IsFreshId, IInv, TypeOK, EnvironmentOK
<1>2. /\ DOMAIN polls' = DOMAIN polls \cup {id}
      /\ polls'[id] = result[g] /\ \A p \in DOMAIN polls : polls'[p] = polls[p]
  BY <1>1 DEF Insert
<1>3. \A h \in Pollers \ {g} : pc[h] \in {"idle", "lock"}
  BY OthersOutside DEF IInv, TypeOK, InPoll, Labels
<1>4. \A h \in Pollers : pc'[h] = IF h = g THEN "reload" ELSE pc[h]
  BY DEF Goto, IInv, TypeOK, ControlOK
<1>5. pollID'[g] = id
  BY DEF IInv, TypeOK, WorkOK
<1>6. Unread' = {id}
  BY <1>3, <1>4, <1>5 DEF Unread
<1>7. Settled' = DOMAIN polls
  BY <1>1, <1>2, <1>6 DEF Settled
<1>8. SettledOk' = OkPolls
  BY <1>1, <1>2, <1>6 DEF SettledOk, OkPolls
<1> QED
  BY <1>1, <1>2, <1>3, <1>4, <1>5, <1>6, <1>7, <1>8

\* A stored poll is the last one until it is read back.
LEMMA MemorySave ==
  ASSUME IInv, Memory, NEW g \in Pollers, Save(g)
  PROVE  Memory'
<1> USE DEF environment, process, view
<1>1. pc[g] = "save" /\ pc[g] \in InPoll /\ pc[g] \in Carrying
  BY DEF Save, InPoll, Labels, Carrying
<1>2. result[g].at = now
  BY <1>1 DEF Memory, CarriedIsNow
<1>3. ASSUME NEW id \in 1..attempts,
             IsFreshId(id, polls), polls' = Insert(polls, id, result[g]),
             pollID' = [pollID EXCEPT ![g] = id], Goto(g, "reload"),
             UNCHANGED <<result, view>>
      PROVE  Memory'
  <2>1. /\ id \in Nat /\ id # 0 /\ id \notin DOMAIN polls
        /\ \A p \in DOMAIN polls : p < id
        /\ DOMAIN polls' = DOMAIN polls \cup {id}
        /\ polls'[id] = result[g] /\ \A p \in DOMAIN polls : polls'[p] = polls[p]
        /\ Unread' = {id} /\ pollID'[g] = id
        /\ SettledOk' = OkPolls
        /\ \A h \in Pollers : pc'[h] = IF h = g THEN "reload" ELSE pc[h]
        /\ \A h \in Pollers \ {g} : pc[h] \in {"idle", "lock"}
    BY <1>1, <1>3, SaveFacts
  <2>2. UNCHANGED <<now, mode, runs, previous, status, result>>
    BY <1>3 DEF Save
  <2>3. mode = "polling" /\ MemoryFollowsMode'
    BY <1>1, <2>2, BusyIsPolling DEF Memory, MemoryFollowsMode
  <2>4. IdsFollowTime'
    <3>1. now # 0 /\ now \in Nat
      BY DEF Memory, IdsFollowTime, IInv, TypeOK, EnvironmentOK, Times
    <3>2. \A p \in DOMAIN polls' : polls'[p].at # 0 /\ polls'[p].at <= now
      BY <1>2, <2>1, <3>1 DEF Memory, IdsFollowTime
    <3>3. ASSUME NEW p \in DOMAIN polls', NEW q \in DOMAIN polls', p < q
          PROVE  polls'[p].at <= polls'[q].at
      <4>1. CASE q = id
        BY <1>2, <2>1, <3>2, <4>1
      <4>2. CASE q \in DOMAIN polls
        <5>1. p \in DOMAIN polls
          BY <2>1, <3>3, <4>2, PollType DEF IInv, TypeOK
        <5> QED
          BY <2>1, <3>3, <4>2, <5>1 DEF Memory, IdsFollowTime
      <4> QED
        BY <2>1, <4>1, <4>2
    <3> QED
      BY <2>1, <2>2, <3>1, <3>2, <3>3 DEF Memory, IdsFollowTime
  <2>5. CarriedIsNow'
    <3>1. \A p \in DOMAIN polls' : p <= id
      BY <2>1, PollType DEF IInv, TypeOK
    <3> QED
      BY <1>2, <2>1, <2>2, <3>1 DEF CarriedIsNow, Carrying
  <2>6. SettledOk = OkPolls /\ (Current' <=> Current)
    BY <1>1, <2>2, NothingUnread DEF IInv, TypeOK, Current
  <2>7. \A p \in OkPolls : Snapshot(p)' = Snapshot(p)
    BY <2>1, <2>2 DEF Snapshot, OkPolls
  <2>8. BaselineIsNewest'
    <3>1. \A p \in OkPolls : polls'[p] = polls[p]
      BY <2>1 DEF OkPolls
    <3> QED
      BY <1>1, <2>1, <2>2, <2>6, <2>7, <3>1 DEF Memory, BaselineIsNewest, Carrying
  <2>9. StatusIsOfBaseline'
    BY <2>2 DEF Memory, StatusIsOfBaseline
  <2> QED
    BY <2>3, <2>4, <2>5, <2>8, <2>9 DEF Memory
<1>4. CASE /\ RecordFailure(result[g].at, 0, NoSnapshot, HealthObservation(result[g]))
           /\ Return(g, NoSnapshot)
           /\ UNCHANGED polls
  BY <1>1, <1>2, <1>4, MemoryFailure DEF Save, database
<1> QED
  BY <1>3, <1>4 DEF Save

\* A poll read back in success is the newest success and becomes the baseline.
LEMMA MemorySuccess ==
  ASSUME IInv, Memory, NEW g \in Pollers, pc[g] = "reload", result[g].ok,
         NEW id, id = pollID[g],
         RecordSuccess(now, id, Snapshot(id)), Return(g, Snapshot(id)),
         UNCHANGED <<environment, process, database>>
  PROVE  Memory'
<1> USE DEF environment, process, database
<1>1. id \in DOMAIN polls /\ polls[id] = result[g] /\ \A p \in DOMAIN polls : p <= id
  BY DEF Memory, CarriedIsNow
<1>2. id \in OkPolls /\ polls[id].at = now /\ id # 0
  BY <1>1 DEF OkPolls, Memory, CarriedIsNow, Carrying, IdsFollowTime
<1>3. \A h \in Pollers : pc'[h] \in {"idle", "lock"}
  BY OthersOutside DEF IInv, TypeOK, ControlOK, Return, InPoll, Labels
<1>4. Unread' = {} /\ SettledOk' = OkPolls
  BY <1>3 DEF Unread, SettledOk, OkPolls
<1>5. MemoryFollowsMode' /\ IdsFollowTime' /\ CarriedIsNow'
  <2>1. mode = "polling"
    BY BusyIsPolling DEF Memory
  <2> QED
    BY <1>3, <2>1 DEF Memory, MemoryFollowsMode, IdsFollowTime, CarriedIsNow, Carrying
<1>6. /\ previous' = Snapshot(id) /\ previous'.id = id /\ previous'.result = polls[id]
      /\ Snapshot(id)' = Snapshot(id)
  BY DEF RecordSuccess, Snapshot
<1>7. status'.lastSuccessAt = now /\ status'.lastSuccessStored = id
  BY DEF RecordSuccess, IInv, TypeOK, ViewOK, Statuses
<1>8. now # 0 /\ now \in Nat
  BY DEF Memory, IdsFollowTime, IInv, TypeOK, EnvironmentOK, Times
<1>9. \A p \in OkPolls : p <= id /\ polls[p].at <= now
  BY <1>1 DEF OkPolls, Memory, IdsFollowTime
<1>10. previous' # NoSnapshot
  BY <1>2, <1>6 DEF NoSnapshot
<1>11. BaselineIsNewest'
  BY <1>2, <1>3, <1>4, <1>6, <1>8, <1>9, <1>10 DEF BaselineIsNewest, OkPolls
<1>12. StatusIsOfBaseline'
  BY <1>2, <1>6, <1>7, <1>8 DEF StatusIsOfBaseline
<1> QED
  BY <1>5, <1>11, <1>12 DEF Memory

\* The poll LatestSnapshot returns is the one just stored.
LEMMA ReloadedIsStored ==
  ASSUME IInv, Memory, NEW g \in Pollers, pc[g] = "reload", NEW p \in Newest(DOMAIN polls)
  PROVE  p = pollID[g] /\ polls # <<>>
<1>1. pollID[g] \in DOMAIN polls /\ \A q \in DOMAIN polls : q <= pollID[g]
  BY DEF Memory, CarriedIsNow
<1>2. p \in DOMAIN polls /\ pollID[g] <= p
  BY <1>1, NewestIsLast DEF IInv, TypeOK, Memory
<1> QED
  BY <1>1, <1>2, PollType DEF IInv, TypeOK

\* Reading back what was stored.
LEMMA MemoryReload ==
  ASSUME IInv, Memory, NEW g \in Pollers, Reload(g)
  PROVE  Memory'
<1>1. pc[g] = "reload" /\ pc[g] \in InPoll
  BY DEF Reload, InPoll, Labels
<1>2. result[g].at = now
  BY <1>1 DEF Memory, CarriedIsNow, Carrying
<1>3. UNCHANGED <<environment, process, database>>
  BY DEF Reload
<1>4. ASSUME NEW p \in Newest(DOMAIN polls),
             IF result[g].ok
               THEN RecordSuccess(result[g].at, pollID[g], Snapshot(p)) /\ Return(g, Snapshot(p))
               ELSE /\ RecordFailure(result[g].at, pollID[g], Snapshot(p),
                                     HealthObservation(result[g]))
                    /\ Return(g, NoSnapshot)
      PROVE  Memory'
  <2>1. p = pollID[g]
    BY <1>1, ReloadedIsStored
  <2>2. CASE result[g].ok
    BY <1>1, <1>2, <1>3, <1>4, <2>1, <2>2, MemorySuccess
  <2>3. CASE ~result[g].ok
    BY <1>1, <1>2, <1>3, <1>4, <2>3, MemoryFailure
  <2> QED
    BY <2>2, <2>3
<1>5. CASE /\ "reload" \in Faults \/ polls = <<>>
           /\ RecordFailure(result[g].at, pollID[g], NoSnapshot, HealthObservation(result[g]))
           /\ Return(g, NoSnapshot)
  <2>1. DOMAIN polls # {}
    BY <1>1 DEF Memory, CarriedIsNow
  <2>2. "reload" \in Faults
    BY <1>5, <2>1
  <2> QED
    BY <1>1, <1>2, <1>3, <1>5, <2>2, MemoryFailure
<1> QED
  BY <1>4, <1>5 DEF Reload

\* Deleting old polls keeps the newest success, or leaves no success at all.
LEMMA MemoryPrune ==
  ASSUME IInv, Memory, DeletePollsBefore,
         UNCHANGED <<now, runs, pc, result, pollID, previous, status>>
  PROVE  IdsFollowTime' /\ CarriedIsNow' /\ BaselineIsNewest' /\ StatusIsOfBaseline'
<1>1. /\ DOMAIN polls' \subseteq DOMAIN polls
      /\ \A p \in DOMAIN polls' : polls'[p] = polls[p]
      /\ \A p \in DOMAIN polls', q \in DOMAIN polls : p <= q => q \in DOMAIN polls'
      /\ \A p \in DOMAIN polls : polls[p].at = now => p \in DOMAIN polls'
  BY PruneFacts DEF IInv, TypeOK, Memory
<1>2. IdsFollowTime'
  BY <1>1 DEF Memory, IdsFollowTime
<1>3. CarriedIsNow'
  <2> SUFFICES ASSUME NEW g \in Pollers, pc[g] = "reload"
               PROVE  /\ pollID[g] \in DOMAIN polls'
                      /\ polls'[pollID[g]] = result[g]
                      /\ \A p \in DOMAIN polls' : p <= pollID[g]
    BY DEF Memory, CarriedIsNow
  <2>1. /\ pollID[g] \in DOMAIN polls /\ polls[pollID[g]] = result[g] /\ result[g].at = now
        /\ \A p \in DOMAIN polls : p <= pollID[g]
    BY DEF Memory, CarriedIsNow, Carrying
  <2> QED
    BY <1>1, <2>1
<1>4. Unread' = Unread /\ (Current' <=> Current)
  BY DEF Unread, Current
<1>5. SettledOk' \subseteq SettledOk /\ \A p \in SettledOk' : polls'[p] = polls[p]
  BY <1>1, <1>4 DEF SettledOk, OkPolls
<1>6. ASSUME previous # NoSnapshot, Current, SettledOk' # {}
      PROVE  previous.id \in SettledOk' /\ previous = Snapshot(previous.id)'
  <2>1. PICK p \in SettledOk' : TRUE
    BY <1>6
  <2>2. /\ previous.id \in SettledOk /\ previous = Snapshot(previous.id)
        /\ p <= previous.id
    BY <1>5, <1>6, <2>1 DEF Memory, BaselineIsNewest
  <2>3. p \in DOMAIN polls' /\ previous.id \in DOMAIN polls
    BY <2>1, <2>2 DEF SettledOk, OkPolls
  <2>4. previous.id \in DOMAIN polls' /\ polls'[previous.id] = polls[previous.id]
    BY <1>1, <2>2, <2>3
  <2>5. previous.id \in SettledOk'
    BY <1>4, <2>2, <2>4 DEF SettledOk, OkPolls
  <2> QED
    BY <2>2, <2>4, <2>5 DEF Snapshot
<1>7. BaselineIsNewest'
  BY <1>4, <1>5, <1>6 DEF Memory, BaselineIsNewest
<1>8. StatusIsOfBaseline'
  BY DEF Memory, StatusIsOfBaseline
<1> QED
  BY <1>2, <1>3, <1>7, <1>8

\* Retention, whoever is polling meanwhile.
LEMMA MemoryCleanup ==
  ASSUME IInv, Memory, RetentionCleanup
  PROVE  Memory'
<1>1. MemoryFollowsMode'
  BY DEF Memory, MemoryFollowsMode, RetentionCleanup, view, process
<1> QED
  BY <1>1, MemoryPrune DEF Memory, RetentionCleanup, view, environment

\* A step that moves nothing of the tables, the memory or the goroutines.
LEMMA MemoryStutter ==
  ASSUME IInv, Memory,
         UNCHANGED <<now, polls, runs, pollMu, pc, result, pollID, view>>,
         mode' # mode =>
           mode' # "down" /\ pollMu = {} /\ pc = [g \in Pollers |-> "idle"]
  PROVE  Memory'
<1>1. RunsKept /\ Unread' = Unread /\ UNCHANGED <<now, polls, previous, status>>
  BY DEF RunsKept, Unread, view
<1>2. MemoryFollowsMode'
  BY DEF Memory, MemoryFollowsMode, view
<1>3. \A h \in Pollers : pc'[h] \in Carrying => result'[h].at = now
  BY DEF Memory, CarriedIsNow
<1>4. /\ previous = NoSnapshot =>
           \A h \in Pollers : pc'[h] \in Carrying \cup {"collect"} => SettledOk = {}
      /\ \A h \in Pollers : pc'[h] = "load" => previous = NoSnapshot
  BY DEF Memory, BaselineIsNewest
<1> QED
  BY <1>1, <1>2, <1>3, <1>4, MemoryFrame DEF Memory

\* A start of StatLite, which may prune first.
LEMMA MemoryBoot ==
  ASSUME IInv, Memory, Boot
  PROVE  Memory'
<1>1. /\ pollMu = {} /\ pc = [g \in Pollers |-> "idle"]
      /\ mode' = "polling" /\ UNCHANGED <<now, runs, pollMu, pc, result, pollID, view>>
  BY DEF Boot, Memory, MemoryFollowsMode, environment
<1>2. CASE DeletePollsBefore
  <2>1. MemoryFollowsMode'
    BY <1>1 DEF MemoryFollowsMode
  <2> QED
    BY <1>1, <1>2, <2>1, MemoryPrune DEF Memory, view
<1>3. CASE UNCHANGED polls
  BY <1>1, <1>3, MemoryStutter
<1> QED
  BY <1>2, <1>3 DEF Boot

\* A start with --no-poll loads the newest success.
LEMMA MemoryNoPoll ==
  ASSUME IInv, Memory, EnableNoPoll
  PROVE  Memory'
<1>1. /\ pollMu = {} /\ pc = [g \in Pollers |-> "idle"]
      /\ mode' = "no_poll" /\ UNCHANGED <<now, polls, runs, pollMu, pc, result, pollID>>
  BY DEF EnableNoPoll, Memory, MemoryFollowsMode, environment, database
<1>2. CASE UNCHANGED view
  BY <1>1, <1>2, MemoryStutter
<1>3. ASSUME NEW p \in Newest(DOMAIN polls), NEW s \in LatestSuccessfulSnapshot,
             previous' = s, status' = RestoredStatus(Snapshot(p), s)
      PROVE  Memory'
  <2>1. MemoryFollowsMode' /\ IdsFollowTime' /\ CarriedIsNow'
    BY <1>1 DEF Memory, MemoryFollowsMode, IdsFollowTime, CarriedIsNow, Carrying
  <2>2. \A h \in Pollers : pc'[h] = "idle"
    BY <1>1
  <2>3. SettledOk' = OkPolls
    BY <1>1, <2>2 DEF SettledOk, Unread, OkPolls
  <2>4. \A q : Snapshot(q)' = Snapshot(q)
    BY <1>1 DEF Snapshot
  <2>5. BaselineIsNewest'
    BY <1>1, <1>3, <2>2, <2>3, <2>4, LoadedBaseline DEF Memory, BaselineIsNewest, Carrying
  <2>6. status'.lastSuccessStored = s.id /\ status'.lastSuccessAt = s.result.at
    BY <1>3 DEF RestoredStatus
  <2>7. StatusIsOfBaseline'
    BY <1>3, <2>6, LoadedBaseline DEF Memory, StatusIsOfBaseline
  <2> QED
    BY <2>1, <2>5, <2>7 DEF Memory
<1> QED
  BY <1>2, <1>3 DEF EnableNoPoll

\* A crash forgets everything.
LEMMA MemoryExit ==
  ASSUME IInv, Memory, Exit
  PROVE  Memory'
<1>1. \A h \in Pollers : pc'[h] = "idle"
  BY DEF Exit
<1>2. UNCHANGED <<now, polls>>
  BY DEF Exit, environment, database
<1>3. MemoryFollowsMode' /\ IdsFollowTime' /\ CarriedIsNow'
  BY <1>1, <1>2
     DEF Exit, Memory, MemoryFollowsMode, IdsFollowTime, CarriedIsNow, Carrying
<1>4. BaselineIsNewest' /\ StatusIsOfBaseline'
  BY <1>1 DEF Exit, BaselineIsNewest, StatusIsOfBaseline, NoStatus, Carrying
<1> QED
  BY <1>3, <1>4 DEF Memory

\* Time goes on, between polls only.
LEMMA MemoryClock ==
  ASSUME IInv, Memory, ClockMoves, ~ClockMayStepBack
  PROVE  Memory'
<1>1. /\ pollMu = {} /\ now' = now + 1 /\ now \in Nat
      /\ UNCHANGED <<mode, polls, runs, pollMu, pc, result, pollID, view>>
  BY DEF ClockMoves, process, database, IInv, TypeOK, EnvironmentOK, Times
<1>2. \A h \in Pollers : pc[h] \in {"idle", "lock"}
  BY <1>1 DEF IInv, TypeOK, ControlOK, InPoll, Labels
<1>3. MemoryFollowsMode' /\ CarriedIsNow'
  BY <1>1, <1>2 DEF Memory, MemoryFollowsMode, CarriedIsNow, Carrying, view
<1>4. IdsFollowTime'
  <2>1. \A p \in DOMAIN polls : polls[p].at <= now'
    BY <1>1, PollType DEF Memory, IdsFollowTime, IInv, TypeOK
  <2> QED
    BY <1>1, <2>1 DEF Memory, IdsFollowTime
<1>5. /\ Unread' = Unread /\ SettledOk' = SettledOk /\ (Current' <=> Current)
      /\ \A p : Snapshot(p)' = Snapshot(p)
  BY <1>1 DEF Unread, SettledOk, OkPolls, Current, Snapshot, view
<1>6. previous.result.at \in Nat
  BY ResultType DEF IInv, TypeOK, ViewOK, Snapshots
<1>7. BaselineIsNewest'
  BY <1>1, <1>5, <1>6 DEF Memory, BaselineIsNewest, view
<1>8. StatusIsOfBaseline'
  BY <1>1 DEF Memory, StatusIsOfBaseline, view
<1> QED
  BY <1>3, <1>4, <1>7, <1>8 DEF Memory

\* A restart of the application is not noticed before it is polled.
LEMMA MemoryAppRestarts ==
  ASSUME IInv, Memory, AppRestarts
  PROVE  Memory'
<1>1. UNCHANGED <<now, mode, polls, runs, pollMu, pc, result, pollID, view>>
  BY DEF AppRestarts, process, database
<1> QED
  BY <1>1, MemoryStutter

\* Nor does anything happen in a step of somebody else.
LEMMA MemoryUnchanged ==
  ASSUME IInv, Memory, UNCHANGED vars
  PROVE  Memory'
<1>1. UNCHANGED <<now, mode, polls, runs, pollMu, pc, result, pollID, view>>
  BY DEF vars, view
<1> QED
  BY <1>1, MemoryStutter

-----------------------------------------------------------------------------
\* Every step keeps the memory of the monitor in line with its tables, unless
\* the wall clock is set back.
THEOREM StepMemory ==
  ASSUME ~ClockMayStepBack
  PROVE  IInv /\ Memory /\ [Next]_vars => Memory'
<1> SUFFICES ASSUME IInv, Memory, [Next]_vars PROVE Memory'
  OBVIOUS
<1>1. CASE LoadSuccessfulHistory
  BY <1>1, MemoryLoadHistory
<1>2. ASSUME NEW g \in Pollers, CallPollNow(g) PROVE Memory'
  BY <1>2, MemoryCall
<1>3. ASSUME NEW g \in Pollers, Step(g) PROVE Memory'
  BY <1>3, MemoryLock, MemoryLoadPrevious, MemoryCollect, MemoryStartTime,
     MemoryDetect, MemorySave, MemoryReload DEF Step
<1>4. CASE RetentionCleanup
  BY <1>4, MemoryCleanup
<1>5. CASE Boot \/ EnableNoPoll \/ Exit
  BY <1>5, MemoryBoot, MemoryNoPoll, MemoryExit
<1>6. CASE AppRestarts
  BY <1>6, MemoryAppRestarts
<1>7. CASE ClockMoves
  BY <1>7, MemoryClock
<1>8. CASE UNCHANGED vars
  BY <1>8, MemoryUnchanged
<1> QED
  BY <1>1, <1>2, <1>3, <1>4, <1>5, <1>6, <1>7, <1>8 DEF Next

\* The invariant the properties of what is remembered rest on.
THEOREM MemoryHolds ==
  ASSUME ~ClockMayStepBack
  PROVE  Spec => [](IInv /\ Memory)
<1>1. Init => IInv /\ Memory
  BY InitIInv, InitMemory
<1>2. IInv /\ Memory /\ [Next]_vars => (IInv /\ Memory)'
  BY StepIInv, StepMemory
<1> QED
  BY <1>1, <1>2, PTL DEF Spec

\* Between polls the baseline in memory is the newest stored success, and the
\* status names it, when a stored poll can always be read back.
THEOREM BaselineStaysCurrent ==
  ASSUME ~ClockMayStepBack, "reload" \notin Faults
  PROVE  Spec => []BaselineIsCurrent
<1>1. IInv /\ Memory => BaselineIsCurrent
  <2> SUFFICES ASSUME IInv, Memory PROVE BaselineIsCurrent
    OBVIOUS
  <2>1. PreviousIsNewestSuccess
    BY NobodyUnread
       DEF PreviousIsNewestSuccess, Quiet, Memory, BaselineIsNewest, Current, IInv, TypeOK
  <2>2. status.lastSuccessStored # 0 => previous # NoSnapshot
    BY DEF Memory, StatusIsOfBaseline, NoSnapshot
  <2>3. CurrentStateIsOneUpdate
    BY <2>2 DEF CurrentStateIsOneUpdate, Memory, StatusIsOfBaseline, BaselineIsNewest
  <2> QED
    BY <2>1, <2>3 DEF BaselineIsCurrent
<1> QED
  BY <1>1, MemoryHolds, PTL

-----------------------------------------------------------------------------
(* What is published.                                                      *)

\* Nothing was published yet.
LEMMA InitView == Init => View
<1> SUFFICES ASSUME Init PROVE View
  OBVIOUS
<1>1. 0 \notin Settled
  BY DEF Init, Settled
<1>2. StatusIsOfNewestAttempt
  BY DEF Init, StatusIsOfNewestAttempt, NoStatus
<1>3. LatestIsOfNewestAttempt
  <2>1. status.lastStored = 0 /\ now = 1
    BY DEF Init, NoStatus
  <2>2. latest.result = NoResult /\ NoResult.at = 0
    BY DEF Init, NoSnapshot, NoResult
  <2> QED
    BY <1>1, <2>1, <2>2 DEF LatestIsOfNewestAttempt
<1> QED
  BY <1>2, <1>3 DEF View

\* The instants and counters of the view are numbers.
LEMMA ViewNumbers ==
  ASSUME IInv
  PROVE  /\ now \in Nat /\ status.lastPollAt \in Nat /\ status.lastSuccessAt \in Nat
         /\ status.lastFailedAt \in Nat /\ status.failures \in Nat
         /\ status.lastStored \in Nat /\ status.lastSuccessStored \in Nat
         /\ previous.result.at \in Nat /\ latest.result.at \in Nat /\ previous.id \in Nat
<1>1. Times \subseteq Nat
  BY DEF Times
<1>2. status \in Statuses /\ previous \in Snapshots /\ latest \in Snapshots /\ now \in Times
  BY DEF IInv, TypeOK, ViewOK, EnvironmentOK
<1>3. previous.result \in Results /\ latest.result \in Results /\ previous.id \in Nat
  BY <1>2 DEF Snapshots
<1>4. previous.result.at \in Nat /\ latest.result.at \in Nat
  BY <1>3, ResultType
<1> QED
  BY <1>1, <1>2, <1>3, <1>4 DEF Statuses

\* What a step has to show that publishes nothing: no settled poll is new, and
\* a baseline it loads is a settled poll.
LEMMA ViewFrame ==
  ASSUME IInv, View, RunsKept, UNCHANGED <<now, status, latest, health>>,
         Settled' \subseteq Settled, Settled' \subseteq DOMAIN polls',
         \A p \in Settled' : polls'[p] = polls[p],
         previous' = previous \/ previous' = NoSnapshot
           \/ \E p \in Settled : previous'.result = polls[p]
  PROVE  View'
<1>1. \A p \in Settled' : p \in DOMAIN polls /\ Snapshot(p)' = Snapshot(p)
  BY SnapshotKept DEF Settled, IInv, Attribution
<1>2. StatusIsOfNewestAttempt'
  BY DEF View, StatusIsOfNewestAttempt
<1>3. LatestIsOfNewestAttempt'
  BY <1>1 DEF View, LatestIsOfNewestAttempt
<1> QED
  BY <1>2, <1>3 DEF View

\* An observation of health is of the collection it was made in.
LEMMA ObservedNow ==
  ASSUME NEW c, c.at = now, HealthObservation(c) # NoHealth
  PROVE  HealthObservation(c).at = now
  BY DEF HealthObservation

\* A recorded failure is the newest attempt, and what is shown if it was stored.
LEMMA ViewFailure ==
  ASSUME IInv, Memory, View, NEW g \in Pollers, pc[g] \in InPoll,
         NEW id, NEW s, NEW observation, NEW returned,
         RecordFailure(now, id, s, observation), Return(g, returned),
         UNCHANGED <<environment, process, database>>,
         observation # NoHealth => observation.at = now,
         \/ id = 0 /\ s = NoSnapshot
         \/ /\ pc[g] = "reload" /\ ~result[g].ok
            /\ id = pollID[g] /\ s = Snapshot(id)
            /\ observation = HealthObservation(result[g])
  PROVE  View'
<1> USE DEF environment, process, database
<1>1. \A h \in Pollers : pc'[h] \in {"idle", "lock"}
  BY OthersOutside DEF IInv, TypeOK, ControlOK, Return
<1>2. Settled' = DOMAIN polls
  BY <1>1 DEF Settled, Unread
<1>3. /\ status'.lastPollAt = now /\ status'.lastFailedAt = now /\ status'.failures # 0
      /\ status'.lastStored = id /\ health' = observation /\ UNCHANGED previous
  BY DEF RecordFailure, IInv, TypeOK, ViewOK, Statuses
<1>4. now # 0 /\ now \in Nat /\ \A p \in DOMAIN polls : polls[p].at <= now
  BY ViewNumbers DEF Memory, IdsFollowTime
<1>5. previous # NoSnapshot => previous.result.at <= now
  BY DEF Memory, BaselineIsNewest
<1>6. StatusIsOfNewestAttempt'
  BY <1>2, <1>3, <1>4, <1>5 DEF StatusIsOfNewestAttempt
<1>7. CASE id = 0 /\ s = NoSnapshot
  <2>1. id \notin Settled' /\ latest' = latest
    BY <1>2, <1>7 DEF Memory, IdsFollowTime, RecordFailure
  <2> QED
    BY <1>3, <1>6, <1>7, <2>1 DEF View, LatestIsOfNewestAttempt
<1>8. CASE /\ pc[g] = "reload" /\ ~result[g].ok
           /\ id = pollID[g] /\ s = Snapshot(id)
           /\ observation = HealthObservation(result[g])
  <2>1. /\ id \in DOMAIN polls /\ polls[id] = result[g] /\ result[g].at = now
        /\ \A p \in DOMAIN polls : p <= id
    BY <1>8 DEF Memory, CarriedIsNow, Carrying
  <2>2. s.id = id /\ s.result = polls[id] /\ id # 0
    BY <1>8, <2>1 DEF Snapshot, Memory, IdsFollowTime
  <2>3. latest' = Snapshot(id) /\ Snapshot(id)' = Snapshot(id)
    BY <1>8, <2>2 DEF RecordFailure, NoSnapshot, Snapshot
  <2> QED
    BY <1>2, <1>3, <1>4, <1>6, <1>8, <2>1, <2>2, <2>3 DEF View, LatestIsOfNewestAttempt
<1> QED
  BY <1>7, <1>8

\* A recorded success is the newest attempt and the newest success.
LEMMA ViewSuccess ==
  ASSUME IInv, Memory, View, NEW g \in Pollers, pc[g] = "reload", result[g].ok,
         NEW id, id = pollID[g],
         RecordSuccess(now, id, Snapshot(id)), Return(g, Snapshot(id)),
         UNCHANGED <<environment, process, database>>
  PROVE  View'
<1> USE DEF environment, process, database
<1>1. \A h \in Pollers : pc'[h] \in {"idle", "lock"}
  BY OthersOutside DEF IInv, TypeOK, ControlOK, Return, InPoll, Labels
<1>2. Settled' = DOMAIN polls
  BY <1>1 DEF Settled, Unread
<1>3. /\ id \in DOMAIN polls /\ polls[id] = result[g] /\ result[g].at = now
      /\ \A p \in DOMAIN polls : p <= id
  BY DEF Memory, CarriedIsNow, Carrying
<1>4. Snapshot(id).result = polls[id] /\ Snapshot(id)' = Snapshot(id)
  BY DEF Snapshot
<1>5. /\ status'.lastPollAt = now /\ status'.lastSuccessAt = now /\ status'.failures = 0
      /\ status'.lastStored = id /\ health' = HealthObservation(polls[id])
      /\ previous' = Snapshot(id) /\ latest' = Snapshot(id)
  BY <1>4 DEF RecordSuccess, IInv, TypeOK, ViewOK, Statuses
<1>6. now # 0 /\ now \in Nat /\ \A p \in DOMAIN polls : polls[p].at <= now
  BY ViewNumbers DEF Memory, IdsFollowTime
<1>7. StatusIsOfNewestAttempt'
  BY <1>2, <1>3, <1>4, <1>5, <1>6, ObservedNow DEF StatusIsOfNewestAttempt
<1>8. LatestIsOfNewestAttempt'
  BY <1>2, <1>3, <1>4, <1>5, <1>6 DEF LatestIsOfNewestAttempt
<1> QED
  BY <1>7, <1>8 DEF View

\* Whatever LatestSuccessfulSnapshot returns is of a stored poll.
LEMMA LoadedIsStored ==
  ASSUME NEW s \in LatestSuccessfulSnapshot
  PROVE  s = NoSnapshot \/ \E p \in DOMAIN polls : s.result = polls[p]
  BY DEF LatestSuccessfulSnapshot, Newest, OkPolls, Snapshot

\* Before a poll is published nothing it does is visible.
LEMMA ViewUnpublished ==
  ASSUME IInv, Memory, View, NEW g \in Pollers, "reload" \notin Faults,
         \/ LoadSuccessfulHistory \/ CallPollNow(g) \/ Lock(g) \/ LoadPrevious(g)
         \/ Collect(g) \/ CollectProcessStartTime(g) \/ DetectAppRun(g)
  PROVE  View'
<1> USE DEF environment, process, database, view
<1>1. CASE LoadSuccessfulHistory
  <2>1. Settled = DOMAIN polls
    BY <1>1, NobodyUnread DEF LoadSuccessfulHistory, IInv, TypeOK
  <2>2. RunsKept /\ UNCHANGED <<now, polls, status, latest, health>>
    BY <1>1 DEF LoadSuccessfulHistory, RunsKept
  <2>3. Settled' \subseteq DOMAIN polls
    BY <2>2 DEF Settled
  <2>4. previous' = previous \/ previous' = NoSnapshot
          \/ \E p \in Settled : previous'.result = polls[p]
    BY <1>1, <2>1, LoadedIsStored DEF LoadSuccessfulHistory
  <2> QED
    BY <2>1, <2>2, <2>3, <2>4, ViewFrame
<1>2. CASE CallPollNow(g) \/ Lock(g)
  <2>1. \A h \in Pollers : pc'[h] = "reload" <=> pc[h] = "reload"
    BY <1>2 DEF CallPollNow, Lock, IInv, TypeOK, ControlOK
  <2>2. RunsKept /\ UNCHANGED <<now, polls, status, latest, health, previous, pollID>>
    BY <1>2 DEF CallPollNow, Lock, RunsKept
  <2>3. Settled' = Settled
    BY <2>1, <2>2 DEF Settled, Unread
  <2>4. Settled \subseteq DOMAIN polls
    BY DEF Settled
  <2> QED
    BY <2>2, <2>3, <2>4, ViewFrame
<1>3. ASSUME pc[g] \in InPoll, pc[g] # "reload", RunsKept,
             UNCHANGED <<now, polls, status, latest, health>>,
             previous' = previous \/ previous' \in LatestSuccessfulSnapshot
      PROVE  View'
  <2>1. Settled = DOMAIN polls
    BY <1>3, NothingUnread DEF IInv, TypeOK
  <2>2. Settled' \subseteq DOMAIN polls
    BY <1>3 DEF Settled
  <2>3. previous' = previous \/ previous' = NoSnapshot
          \/ \E p \in Settled : previous'.result = polls[p]
    BY <1>3, <2>1, LoadedIsStored
  <2> QED
    BY <1>3, <2>1, <2>2, <2>3, ViewFrame
<1>4. CASE LoadPrevious(g)
  <2>1. pc[g] \in InPoll /\ pc[g] # "reload" /\ RunsKept
    BY <1>4 DEF LoadPrevious, InPoll, Labels, RunsKept
  <2>2. CASE RecordFailure(now, 0, NoSnapshot, NoHealth) /\ Return(g, NoSnapshot)
    BY <1>4, <2>1, <2>2, ViewFailure DEF LoadPrevious
  <2>3. CASE /\ previous' \in LatestSuccessfulSnapshot
             /\ Goto(g, "collect")
             /\ UNCHANGED <<status, latest, health, result, pollID>>
    BY <1>3, <1>4, <2>1, <2>3 DEF LoadPrevious
  <2> QED
    BY <1>4, <2>2, <2>3 DEF LoadPrevious
<1>5. CASE Collect(g)
  BY <1>3, <1>5 DEF Collect, InPoll, Labels, RunsKept
<1>6. CASE CollectProcessStartTime(g)
  BY <1>3, <1>6 DEF CollectProcessStartTime, InPoll, Labels, RunsKept
<1>7. CASE DetectAppRun(g)
  <2>1. pc[g] = "detect" /\ pc[g] \in InPoll /\ result[g].at = now
    BY <1>7 DEF DetectAppRun, InPoll, Labels, Memory, CarriedIsNow, Carrying
  <2>2. CASE /\ RecordFailure(result[g].at, 0, NoSnapshot, HealthObservation(result[g]))
             /\ Return(g, NoSnapshot)
             /\ UNCHANGED runs
    BY <1>7, <2>1, <2>2, ObservedNow, ViewFailure DEF DetectAppRun
  <2>3. ASSUME NEW id \in DOMAIN runs \cup 1..attempts,
               IF NeedsNewRun(result[g])
                 THEN EnsureAppRun(id, result[g].start, result[g].at)
                 ELSE id = previous.result.run /\ TouchAppRun(id, result[g].at),
               UNCHANGED <<pollID, view>>
        PROVE  View'
    BY <1>3, <1>7, <2>1, <2>3, DetectKeepsRuns DEF DetectAppRun
  <2> QED
    BY <1>7, <2>2, <2>3 DEF DetectAppRun
<1> QED
  BY <1>1, <1>2, <1>4, <1>5, <1>6, <1>7

\* Storing a poll and reading it back.
LEMMA ViewStored ==
  ASSUME IInv, Memory, View, NEW g \in Pollers, "reload" \notin Faults,
         Save(g) \/ Reload(g)
  PROVE  View'
<1> USE DEF environment, process, view
<1>1. pc[g] \in InPoll /\ result[g].at = now
  BY DEF Save, Reload, InPoll, Labels, Memory, CarriedIsNow, Carrying
<1>2. CASE Save(g)
  <2>1. pc[g] = "save"
    BY <1>2 DEF Save
  <2>2. CASE /\ RecordFailure(result[g].at, 0, NoSnapshot, HealthObservation(result[g]))
             /\ Return(g, NoSnapshot)
             /\ UNCHANGED polls
    BY <1>1, <1>2, <2>1, <2>2, ObservedNow, ViewFailure DEF Save, database
  <2>3. ASSUME NEW id \in 1..attempts,
               IsFreshId(id, polls), polls' = Insert(polls, id, result[g]),
               pollID' = [pollID EXCEPT ![g] = id], Goto(g, "reload"),
               UNCHANGED <<result, view>>
        PROVE  View'
    <3>1. /\ DOMAIN polls' = DOMAIN polls \cup {id}
          /\ \A p \in DOMAIN polls : polls'[p] = polls[p]
          /\ Settled' = DOMAIN polls
      BY <2>1, <2>3, SaveFacts
    <3>2. Settled = DOMAIN polls
      BY <1>1, <2>1, NothingUnread DEF IInv, TypeOK
    <3>3. RunsKept /\ UNCHANGED <<now, status, latest, health, previous>>
      BY <1>2, <2>3 DEF Save, RunsKept
    <3> QED
      BY <3>1, <3>2, <3>3, ViewFrame
  <2> QED
    BY <1>2, <2>2, <2>3 DEF Save
<1>3. CASE Reload(g)
  <2>1. pc[g] = "reload" /\ UNCHANGED <<environment, process, database>>
    BY <1>3 DEF Reload
  <2>2. polls # <<>>
    BY <2>1 DEF Memory, CarriedIsNow
  <2>3. PICK p \in Newest(DOMAIN polls) :
          IF result[g].ok
            THEN RecordSuccess(result[g].at, pollID[g], Snapshot(p)) /\ Return(g, Snapshot(p))
            ELSE /\ RecordFailure(result[g].at, pollID[g], Snapshot(p),
                                  HealthObservation(result[g]))
                 /\ Return(g, NoSnapshot)
    BY <1>3, <2>2 DEF Reload
  <2>4. p = pollID[g]
    BY <2>1, ReloadedIsStored
  <2>5. CASE result[g].ok
    BY <1>1, <2>1, <2>3, <2>4, <2>5, ViewSuccess
  <2>6. CASE ~result[g].ok
    BY <1>1, <2>1, <2>3, <2>4, <2>6, ObservedNow, ViewFailure
  <2> QED
    BY <2>5, <2>6
<1> QED
  BY <1>2, <1>3

\* Retention hides settled polls and publishes nothing.
LEMMA ViewPrune ==
  ASSUME IInv, Memory, View, DeletePollsBefore,
         UNCHANGED <<now, runs, pc, pollID, view>>
  PROVE  View'
<1>1. /\ DOMAIN polls' \subseteq DOMAIN polls
      /\ \A p \in DOMAIN polls' : polls'[p] = polls[p]
  BY PruneFacts DEF IInv, TypeOK, Memory
<1>2. Unread' = Unread
  BY DEF Unread
<1>3. Settled' \subseteq Settled /\ Settled' \subseteq DOMAIN polls'
  BY <1>1, <1>2 DEF Settled
<1>4. \A p \in Settled' : polls'[p] = polls[p]
  BY <1>1, <1>3
<1> QED
  BY <1>3, <1>4, ViewFrame DEF RunsKept, view

\* Neither does a step that leaves the tables, the memory and pc alone.
LEMMA ViewStutter ==
  ASSUME IInv, View, UNCHANGED <<now, polls, runs, pc, pollID, view>>
  PROVE  View'
<1>1. Settled' = Settled /\ Settled \subseteq DOMAIN polls
  BY DEF Settled, Unread
<1> QED
  BY <1>1, ViewFrame DEF RunsKept, view, Settled

\* The trailing failures are counted: a newest poll that failed is one of them.
LEMMA TrailingCounted ==
  ASSUME IInv, IdsFollowTime, NEW p \in DOMAIN polls, p \notin OkPolls,
         \A q \in DOMAIN polls : q <= p
  PROVE  TrailingFailedPolls \in Nat \ {0} /\ TrailingFailedPolls <= TrailingLimit
<1> DEFINE T == {q \in DOMAIN polls : \A o \in OkPolls : Before(o, q)}
<1>1. p \in T
  <2>1. Newest(DOMAIN polls) = {p}
    BY NewestIsUnique DEF IInv, TypeOK
  <2> QED
    BY <2>1 DEF Newest, OkPolls
<1>2. IsFiniteSet(T) /\ Cardinality(T) \in Nat
  BY FS_Subset, FS_CardinalityType DEF IInv
<1>3. Cardinality(T) # 0
  BY <1>1, <1>2, FS_EmptySet
<1>4. TrailingFailedPolls = IF Cardinality(T) > TrailingLimit THEN TrailingLimit
                                                              ELSE Cardinality(T)
  BY DEF TrailingFailedPolls
<1> HIDE DEF T
<1> QED
  BY <1>2, <1>3, <1>4, BoundAssumption

\* What --no-poll restores says of the newest poll p, and of the newest success
\* s, what a live monitor would.
LEMMA RestoredFacts ==
  ASSUME IInv, IdsFollowTime, NEW p \in Newest(DOMAIN polls),
         NEW s \in LatestSuccessfulSnapshot
  PROVE  LET restored == RestoredStatus(Snapshot(p), s)
         IN  /\ p \in DOMAIN polls /\ \A q \in DOMAIN polls : q <= p
             /\ restored.lastStored = p /\ restored.lastPollAt = polls[p].at
             /\ restored.lastSuccessAt = s.result.at /\ restored.lastSuccessStored = s.id
             /\ restored.failures \in Nat /\ restored.failures <= TrailingLimit
             /\ restored.failures = 0 <=> polls[p].ok
             /\ restored.failures = 0 => s.id = p /\ s = Snapshot(p)
             /\ restored.failures # 0 => restored.lastFailedAt = polls[p].at
<1> DEFINE restored == RestoredStatus(Snapshot(p), s)
           failed == Newest(DOMAIN polls \ OkPolls)
<1>1. p \in DOMAIN polls /\ \A q \in DOMAIN polls : q <= p
  BY NewestIsLast DEF IInv, TypeOK
<1>2. Snapshot(p).result = polls[p] /\ Snapshot(p).id = p
  BY DEF Snapshot
<1>3. /\ restored.lastStored = p /\ restored.lastPollAt = polls[p].at
      /\ restored.lastSuccessAt = s.result.at /\ restored.lastSuccessStored = s.id
      /\ restored.failures = IF polls[p].ok THEN 0 ELSE TrailingFailedPolls
      /\ restored.lastFailedAt = IF failed = {} THEN 0 ELSE polls[CHOOSE q \in failed : TRUE].at
  BY <1>2 DEF RestoredStatus
<1> HIDE DEF restored, failed
<1>4. CASE polls[p].ok
  <2>1. p \in OkPolls
    BY <1>1, <1>4 DEF OkPolls
  <2>2. s.id \in OkPolls /\ s = Snapshot(s.id) /\ p <= s.id
    BY <2>1, LoadedBaseline
  <2>3. s.id = p
    BY <1>1, <2>1, <2>2, PollType DEF OkPolls, IInv, TypeOK
  <2> QED
    BY <1>1, <1>3, <1>4, <2>2, <2>3, BoundAssumption DEF restored
<1>5. CASE ~polls[p].ok
  <2>1. p \in DOMAIN polls \ OkPolls
    BY <1>1, <1>5 DEF OkPolls
  <2>2. TrailingFailedPolls \in Nat \ {0} /\ TrailingFailedPolls <= TrailingLimit
    BY <1>1, <2>1, TrailingCounted
  <2>3. failed = {p}
    BY <1>1, <2>1, NewestIsUnique DEF IInv, TypeOK, failed
  <2>4. restored.lastFailedAt = polls[p].at
    BY <1>3, <2>3
  <2> QED
    BY <1>1, <1>3, <1>5, <2>2, <2>4 DEF restored
<1> QED
  BY <1>4, <1>5

\* The restored view is one of the newest poll.
LEMMA ViewNoPoll ==
  ASSUME IInv, Memory, View, EnableNoPoll
  PROVE  View'
<1>1. /\ pc = [g \in Pollers |-> "idle"]
      /\ UNCHANGED <<now, polls, runs, pc, pollID>>
  BY DEF EnableNoPoll, Memory, MemoryFollowsMode, environment, database
<1>2. CASE UNCHANGED view
  BY <1>1, <1>2, ViewStutter
<1>3. ASSUME NEW p \in Newest(DOMAIN polls), NEW s \in LatestSuccessfulSnapshot,
             latest' = Snapshot(p), health' = HealthObservation(polls[p]),
             previous' = s, status' = RestoredStatus(Snapshot(p), s)
      PROVE  View'
  <2>1. Settled' = DOMAIN polls
    BY <1>1 DEF Settled, Unread
  <2>2. /\ p \in DOMAIN polls /\ \A q \in DOMAIN polls : q <= p
        /\ status'.lastStored = p /\ status'.lastPollAt = polls[p].at
        /\ status'.lastSuccessAt = s.result.at
        /\ status'.failures = 0 <=> polls[p].ok
        /\ status'.failures = 0 => s = Snapshot(p)
        /\ status'.failures # 0 => status'.lastFailedAt = polls[p].at
    BY <1>3, RestoredFacts DEF Memory
  <2>3. polls[p].at # 0 /\ polls[p].at <= now /\ polls[p].at \in Nat
    BY <2>2, PollType DEF Memory, IdsFollowTime, IInv, TypeOK
  <2>4. \A q \in DOMAIN polls : polls[q].at <= polls[p].at
    <3> SUFFICES ASSUME NEW q \in DOMAIN polls PROVE polls[q].at <= polls[p].at
      OBVIOUS
    <3>1. p \in Nat /\ q \in Nat /\ q <= p /\ polls[p].at \in Nat
      BY <2>2, PollType DEF IInv, TypeOK
    <3> QED
      BY <2>2, <3>1 DEF Memory, IdsFollowTime
  <2>5. s # NoSnapshot => s.result.at <= polls[p].at
    BY <2>4, LoadedBaseline DEF Memory, OkPolls
  <2>6. \A q : Snapshot(q)' = Snapshot(q)
    BY <1>1 DEF Snapshot
  <2>7. Snapshot(p).result = polls[p]
    BY DEF Snapshot
  <2>8. HealthObservation(polls[p]) # NoHealth => HealthObservation(polls[p]).at = polls[p].at
    BY DEF HealthObservation
  <2>9. StatusIsOfNewestAttempt'
    BY <1>1, <1>3, <2>1, <2>2, <2>3, <2>4, <2>5, <2>7, <2>8 DEF StatusIsOfNewestAttempt
  <2>10. LatestIsOfNewestAttempt'
    BY <1>1, <1>3, <2>1, <2>2, <2>3, <2>6, <2>7 DEF LatestIsOfNewestAttempt
  <2> QED
    BY <2>9, <2>10 DEF View
<1> QED
  BY <1>2, <1>3 DEF EnableNoPoll

\* A process that is down shows nothing.
LEMMA ViewExit ==
  ASSUME IInv, Memory, View, Exit
  PROVE  View'
<1>1. /\ UNCHANGED <<now, polls>> /\ now \in Nat
      /\ previous' = NoSnapshot /\ status' = NoStatus /\ latest' = NoSnapshot
      /\ health' = NoHealth
  BY ViewNumbers DEF Exit, environment, database
<1>2. 0 \notin Settled'
  BY <1>1 DEF Settled, Memory, IdsFollowTime
<1>3. NoStatus.lastPollAt = 0 /\ NoStatus.lastStored = 0 /\ NoSnapshot.result.at = 0
  BY DEF NoStatus, NoSnapshot, NoResult
<1> QED
  BY <1>1, <1>2, <1>3 DEF View, StatusIsOfNewestAttempt, LatestIsOfNewestAttempt

\* Time passes; what is shown stays what it was.
LEMMA ViewClock ==
  ASSUME IInv, View, ClockMoves, ~ClockMayStepBack
  PROVE  View'
<1>1. /\ now' = now + 1
      /\ UNCHANGED <<polls, runs, pc, pollID, view>>
  BY DEF ClockMoves, process, database
<1>2. Settled' = Settled /\ \A p : Snapshot(p)' = Snapshot(p)
  BY <1>1 DEF Settled, Unread, Snapshot
<1>3. status.lastPollAt <= now' /\ latest.result.at <= now'
  BY <1>1, ViewNumbers DEF View, StatusIsOfNewestAttempt, LatestIsOfNewestAttempt
<1>4. StatusIsOfNewestAttempt'
  BY <1>1, <1>2, <1>3 DEF View, StatusIsOfNewestAttempt, view
<1>5. LatestIsOfNewestAttempt'
  BY <1>1, <1>2, <1>3 DEF View, LatestIsOfNewestAttempt, view
<1> QED
  BY <1>4, <1>5 DEF View

\* Every step keeps the view one of the newest attempt, when the wall clock is
\* not set back and a stored poll can always be read back.
LEMMA StepView ==
  ASSUME IInv, Memory, View, [Next]_vars, ~ClockMayStepBack, "reload" \notin Faults
  PROVE  View'
<1>1. CASE LoadSuccessfulHistory
  BY <1>1, ViewUnpublished DEF Pollers
<1>2. ASSUME NEW g \in Pollers, CallPollNow(g) PROVE View'
  BY <1>2, ViewUnpublished
<1>3. ASSUME NEW g \in Pollers, Step(g) PROVE View'
  BY <1>3, ViewUnpublished, ViewStored DEF Step
<1>4. CASE RetentionCleanup
  BY <1>4, ViewPrune DEF RetentionCleanup, environment
<1>5. CASE Boot
  BY <1>5, ViewPrune, ViewStutter DEF Boot, environment
<1>6. CASE EnableNoPoll \/ Exit
  BY <1>6, ViewNoPoll, ViewExit
<1>7. CASE ClockMoves
  BY <1>7, ViewClock
<1>8. CASE AppRestarts \/ UNCHANGED vars
  BY <1>8, ViewStutter DEF AppRestarts, vars, view, database
<1> QED
  BY <1>1, <1>2, <1>3, <1>4, <1>5, <1>6, <1>7, <1>8 DEF Next

\* The invariant the properties of what is shown rest on.
THEOREM ViewHolds ==
  ASSUME ~ClockMayStepBack, "reload" \notin Faults
  PROVE  Spec => [](IInv /\ Memory /\ View)
<1>1. Init => IInv /\ Memory /\ View
  BY InitIInv, InitMemory, InitView
<1>2. IInv /\ Memory /\ View /\ [Next]_vars => (IInv /\ Memory /\ View)'
  BY StepIInv, StepMemory, StepView
<1> QED
  BY <1>1, <1>2, PTL DEF Spec

\* Restarting with --no-poll shows what the live monitor showed, when a stored
\* poll can always be read back.
THEOREM RestartShowsTheSame ==
  ASSUME ~ClockMayStepBack, "reload" \notin Faults
  PROVE  Spec => []RestoreMatchesLive
<1>1. IInv /\ Memory /\ View => RestoreMatchesLive
  <2> SUFFICES ASSUME IInv, Memory, View, Quiet, status.lastStored \in DOMAIN polls,
                      NEW p \in Newest(DOMAIN polls), NEW s \in LatestSuccessfulSnapshot
               PROVE  LET restored == RestoredStatus(Snapshot(p), s)
                      IN  /\ latest = Snapshot(p)
                          /\ HealthObservation(polls[p]) = health
                          /\ restored.lastStored = status.lastStored
                          /\ restored.lastPollAt = status.lastPollAt
                          /\ restored.failures = 0 <=> status.failures = 0
                          /\ restored.failures <= TrailingLimit
                          /\ status.lastSuccessStored \in OkPolls =>
                               /\ restored.lastSuccessStored = status.lastSuccessStored
                               /\ restored.lastSuccessAt = status.lastSuccessAt
                               /\ s = previous
    BY DEF RestoreMatchesLive
  <2> DEFINE restored == RestoredStatus(Snapshot(p), s)
  <2>1. Settled = DOMAIN polls /\ SettledOk = OkPolls
    BY NobodyUnread DEF Quiet, IInv, TypeOK
  <2>2. /\ p \in DOMAIN polls /\ \A q \in DOMAIN polls : q <= p
        /\ restored.lastStored = p /\ restored.lastPollAt = polls[p].at
        /\ restored.lastSuccessAt = s.result.at /\ restored.lastSuccessStored = s.id
        /\ restored.failures <= TrailingLimit
        /\ restored.failures = 0 <=> polls[p].ok
    BY RestoredFacts DEF Memory
  <2> HIDE DEF restored
  <2>3. p = status.lastStored
    <3>1. status.lastStored <= p /\ p <= status.lastStored
      BY <2>1, <2>2 DEF View, LatestIsOfNewestAttempt
    <3> QED
      BY <2>2, <3>1, PollType DEF IInv, TypeOK
  <2>4. /\ latest = Snapshot(p) /\ HealthObservation(polls[p]) = health
        /\ status.lastPollAt = polls[p].at /\ (status.failures = 0 <=> polls[p].ok)
    BY <2>1, <2>2, <2>3 DEF View, LatestIsOfNewestAttempt
  <2>5. ASSUME status.lastSuccessStored \in OkPolls
        PROVE  s = previous /\ s.id = status.lastSuccessStored /\ s.result.at = status.lastSuccessAt
    <3>1. status.lastSuccessStored # 0
      BY <2>5 DEF Memory, IdsFollowTime, OkPolls
    <3>2. previous.id = status.lastSuccessStored /\ previous.result.at = status.lastSuccessAt
      BY <3>1 DEF Memory, StatusIsOfBaseline
    <3>3. previous # NoSnapshot
      BY <3>1, <3>2 DEF NoSnapshot
    <3>4. /\ previous = Snapshot(previous.id)
          /\ \A q \in OkPolls : q <= previous.id
      BY <2>1, <2>5, <3>3 DEF Memory, BaselineIsNewest, Current
    <3>5. s.id \in OkPolls /\ s = Snapshot(s.id) /\ previous.id <= s.id /\ s.id <= previous.id
      BY <2>5, <3>2, <3>4, LoadedBaseline DEF Memory
    <3>6. s.id = previous.id
      BY <2>5, <3>2, <3>5, PollType DEF OkPolls, IInv, TypeOK
    <3> QED
      BY <3>2, <3>4, <3>5, <3>6
  <2> QED
    BY <2>2, <2>3, <2>4, <2>5 DEF restored
<1> QED
  BY <1>1, ViewHolds, PTL

-----------------------------------------------------------------------------
(* Who reads it.                                                           *)

\* The last success shown is the baseline, when there is one.
LEMMA ShownIsBaseline ==
  ASSUME Memory
  PROVE  LastSuccessShown = IF previous = NoSnapshot THEN 0 ELSE previous.result.at
<1>1. status.lastSuccessAt # 0 => previous # NoSnapshot /\ status.lastSuccessAt = previous.result.at
  BY DEF Memory, StatusIsOfBaseline, NoSnapshot
<1> QED
  BY <1>1 DEF LastSuccessShown

\* One response of /api/v1/status describes one state.
LEMMA StatusAnswered ==
  ASSUME IInv, Memory, View, "reload" \notin Faults
  PROVE  StatusIsOneAnswer /\ NewestSuccessShown
<1> DEFINE shown == PublicStatus
<1>1. /\ shown.lastPollAt = status.lastPollAt /\ shown.lastFailedAt = status.lastFailedAt
      /\ shown.lastSuccessAt = LastSuccessShown /\ shown.health = HealthShown
      /\ shown.collection = "ok" => status.lastPollAt # 0 /\ ~(status.failures > 0)
      /\ shown.collection = "error" => status.lastPollAt # 0 /\ status.failures > 0
  BY DEF PublicStatus
<1> HIDE DEF shown
<1>2. status.lastPollAt # 0 => LastSuccessShown <= status.lastPollAt
  BY ShownIsBaseline, ViewNumbers DEF View, StatusIsOfNewestAttempt
<1>3. shown.collection = "ok" => shown.lastSuccessAt = shown.lastPollAt
  <2> SUFFICES ASSUME shown.collection = "ok" PROVE LastSuccessShown = status.lastPollAt
    BY <1>1
  <2>1. status.lastPollAt # 0 /\ status.failures = 0
    BY <1>1, ViewNumbers
  <2> QED
    BY <2>1 DEF View, StatusIsOfNewestAttempt, LastSuccessShown
<1>4. shown.collection = "error" =>
        shown.lastFailedAt = shown.lastPollAt /\ shown.lastSuccessAt <= shown.lastPollAt
  BY <1>1, <1>2, ViewNumbers DEF View, StatusIsOfNewestAttempt
<1>5. ASSUME shown.health # NoHealth
      PROVE  /\ shown.health.at \in {shown.lastPollAt, shown.lastSuccessAt}
             /\ shown.lastSuccessAt <= shown.health.at
  <2>1. CASE health # NoHealth
    <3>1. HealthShown = health /\ status.lastPollAt # 0 /\ health.at = status.lastPollAt
      BY <2>1 DEF HealthShown, View, StatusIsOfNewestAttempt
    <3> QED
      BY <1>1, <1>2, <3>1
  <2>2. CASE health = NoHealth
    <3>1. previous # NoSnapshot /\ HealthObservation(previous.result) # NoHealth
      BY <1>1, <1>5, <2>2 DEF HealthShown
    <3>2. HealthShown.at = previous.result.at
      BY <2>2, <3>1 DEF HealthShown, HealthObservation
    <3> QED
      BY <1>1, <3>1, <3>2, ShownIsBaseline, ViewNumbers
  <2> QED
    BY <2>1, <2>2
<1>6. StatusIsOneAnswer
  BY <1>3, <1>4, <1>5 DEF StatusIsOneAnswer, shown
<1>7. NewestSuccessShown
  <2> SUFFICES ASSUME Quiet \/ mode = "no_poll", previous # NoSnapshot, NEW p \in OkPolls
               PROVE  polls[p].at <= PublicStatus.lastSuccessAt
    BY DEF NewestSuccessShown
  <2>1. SettledOk = OkPolls
    BY NobodyUnread DEF Quiet, Memory, MemoryFollowsMode, IInv, TypeOK
  <2>2. polls[p].at <= previous.result.at
    BY <2>1 DEF Memory, BaselineIsNewest, Current
  <2> QED
    BY <2>2, ShownIsBaseline DEF PublicStatus
<1> QED
  BY <1>6, <1>7

\* What is published is never older than what was published before by the same
\* process.
LEMMA LatestAdvances ==
  ASSUME IInv, Memory, View, [Next]_vars, mode # "down", mode' # "down",
         "reload" \notin Faults
  PROVE  latest.result.at <= latest'.result.at
<1> USE DEF view
<1>1. latest.result.at \in Nat /\ latest.result.at <= now
  BY ViewNumbers DEF View, LatestIsOfNewestAttempt
<1> SUFFICES latest' = latest \/ latest'.result.at = now
  BY <1>1
<1>2. ASSUME NEW at, NEW id, NEW observation, RecordFailure(at, id, NoSnapshot, observation)
      PROVE  latest' = latest
  BY <1>2 DEF RecordFailure
<1>3. ASSUME NEW g \in Pollers, LoadPrevious(g) PROVE latest' = latest
  BY <1>2, <1>3 DEF LoadPrevious
<1>4. ASSUME NEW g \in Pollers, DetectAppRun(g) PROVE latest' = latest
  BY <1>2, <1>4 DEF DetectAppRun
<1>5. ASSUME NEW g \in Pollers, Save(g) PROVE latest' = latest
  BY <1>2, <1>5 DEF Save
<1>6. ASSUME NEW g \in Pollers, Reload(g)
      PROVE  latest' = latest \/ latest'.result.at = now
  <2>1. pc[g] = "reload" /\ polls # <<>>
    BY <1>6 DEF Reload, Memory, CarriedIsNow
  <2>2. PICK p \in Newest(DOMAIN polls) : latest' \in {Snapshot(p), latest}
    BY <1>6, <2>1 DEF Reload, RecordSuccess, RecordFailure
  <2>3. p = pollID[g] /\ p \in DOMAIN polls /\ polls[p].at = now
    BY <2>1, ReloadedIsStored DEF Memory, CarriedIsNow, Carrying
  <2>4. Snapshot(p).result = polls[p]
    BY DEF Snapshot
  <2> QED
    BY <2>2, <2>3, <2>4
<1>7. ASSUME NEW g \in Pollers, CallPollNow(g) \/ Step(g)
      PROVE  latest' = latest \/ latest'.result.at = now
  BY <1>3, <1>4, <1>5, <1>6, <1>7
     DEF Step, CallPollNow, Lock, Collect, CollectProcessStartTime
<1>8. CASE LoadSuccessfulHistory \/ RetentionCleanup \/ Boot \/ AppRestarts \/ ClockMoves
           \/ UNCHANGED vars
  BY <1>8 DEF LoadSuccessfulHistory, RetentionCleanup, Boot, AppRestarts, ClockMoves, vars
<1>9. ~EnableNoPoll /\ ~Exit
  BY DEF EnableNoPoll, Exit
<1> QED
  BY <1>7, <1>8, <1>9 DEF Next

\* A request that starts or goes on while nothing else happens.
LEMMA SummaryTakes ==
  ASSUME IInv, View, SummaryOK, Summarize
  PROVE  SummaryOK'
<1>1. UNCHANGED <<mode, latest>> /\ mode # "down"
  BY DEF Summarize, vars
<1>2. status \in Statuses /\ latest \in Snapshots
  BY DEF IInv, TypeOK, ViewOK
<1>3. CASE summary' = [NoSummary EXCEPT !.step = "status", !.status = status]
  <2>1. summary' = [step |-> "status", status |-> status, latest |-> NoSnapshot]
    BY <1>3 DEF NoSummary
  <2>2. status.lastStored # 0 => status.lastPollAt <= latest.result.at
    BY DEF View, LatestIsOfNewestAttempt
  <2> QED
    BY <1>1, <1>2, <2>1, <2>2, NoSnapshotType DEF SummaryOK, SummaryNotBehind
<1>4. CASE summary.step = "status" /\ summary' = [summary EXCEPT !.step = "done", !.latest = latest]
  <2>1. summary' = [step |-> "done", status |-> summary.status, latest |-> latest]
    BY <1>4 DEF SummaryOK
  <2> QED
    BY <1>1, <1>2, <1>4, <2>1 DEF SummaryOK, SummaryNotBehind
<1> QED
  BY <1>3, <1>4 DEF Summarize, Take

\* Polls go on between the two calls of a request.
LEMMA SummaryWaits ==
  ASSUME IInv, IInv', Memory, View, SummaryOK, [Next]_vars, "reload" \notin Faults,
         summary' = IF mode' = "down" THEN NoSummary ELSE summary
  PROVE  SummaryOK'
<1>1. NoSummary \in [step : {"none", "status", "done"}, status : Statuses, latest : Snapshots]
  BY NoStatusType, NoSnapshotType DEF NoSummary
<1>2. CASE mode' = "down"
  BY <1>1, <1>2 DEF SummaryOK, SummaryNotBehind, NoSummary
<1>3. CASE mode' # "down" /\ summary.step = "status"
  <2>1. latest.result.at <= latest'.result.at
    BY <1>3, LatestAdvances DEF SummaryOK
  <2>2. latest.result.at \in Nat /\ latest'.result.at \in Nat /\ summary.status.lastPollAt \in Nat
    BY ResultType DEF IInv, TypeOK, ViewOK, Snapshots, SummaryOK, Statuses, Times
  <2> QED
    BY <1>3, <2>1, <2>2 DEF SummaryOK, SummaryNotBehind
<1>4. CASE mode' # "down" /\ summary.step # "status"
  BY <1>4 DEF SummaryOK, SummaryNotBehind
<1> QED
  BY <1>2, <1>3, <1>4

\* Every reader is shown one state of the monitor, the newest, when a stored
\* poll can always be read back and the wall clock is not set back.
THEOREM OneStateShown ==
  ASSUME ~ClockMayStepBack, "reload" \notin Faults
  PROVE  ReadersSpec => []ReadersSeeOneState
<1> DEFINE Inv == IInv /\ Memory /\ View /\ SummaryOK
<1>1. ReadersInit => Inv
  <2>1. Init /\ summary = NoSummary => SummaryOK
    BY NoStatusType, NoSnapshotType DEF SummaryOK, SummaryNotBehind, NoSummary
  <2> QED
    BY <2>1, InitIInv, InitMemory, InitView DEF ReadersInit
<1>2. Inv /\ [ReadersNext]_readerVars => Inv'
  <2> SUFFICES ASSUME Inv, [ReadersNext]_readerVars PROVE Inv'
    OBVIOUS
  <2>1. [Next]_vars
    BY DEF ReadersNext, MonitorStep, Summarize, readerVars
  <2>2. IInv' /\ Memory' /\ View'
    BY <2>1, StepIInv, StepMemory, StepView
  <2>3. CASE Summarize
    BY <2>2, <2>3, SummaryTakes
  <2>4. CASE MonitorStep
    BY <2>2, <2>4, SummaryWaits DEF MonitorStep
  <2>5. CASE UNCHANGED readerVars
    BY <2>2, <2>5 DEF readerVars, vars, SummaryOK, SummaryNotBehind
  <2> QED
    BY <2>2, <2>3, <2>4, <2>5 DEF ReadersNext
<1>3. Inv => ReadersSeeOneState
  BY StatusAnswered DEF ReadersSeeOneState, SummaryOK
<1> QED
  BY <1>1, <1>2, <1>3, PTL DEF ReadersSpec

-----------------------------------------------------------------------------
(* What a step does to attempts and to app runs.                           *)

\* A collection keeps what was scraped until it is stored.
SameCollection(c, d) ==
  /\ c.at = d.at /\ c.ok = d.ok /\ c.samples = d.samples /\ c.break = d.break
  /\ c.seen = d.seen /\ c.attempt = d.attempt /\ c.boot = d.boot

\* The attempt in progress.
Held == IF pollMu = {} THEN 0 ELSE 1

NobodyCarries == \A h \in Pollers : pc[h] \notin Carrying

\* A step in which no attempt ends.
GoesOn ==
  /\ UNCHANGED <<mode, boots, status>>
  /\ previous # NoSnapshot => previous' = previous
  /\ attempts' - Held' = attempts - Held
  /\ Unread \subseteq Unread'

\* No scrape is made either.
Continues ==
  /\ GoesOn /\ UNCHANGED baseline
  /\ \A h \in Pollers : pc'[h] \in Carrying <=> pc[h] \in Carrying
  /\ \A h \in Pollers : pc[h] \in Carrying =>
       SameCollection(result'[h], result[h]) /\ UNCHANGED <<attempts, previous>>

\* A failed attempt, stored or not.
Fails ==
  /\ status'.failures # 0 /\ NobodyCarries'
  /\ UNCHANGED <<mode, boots, attempts, previous>>

\* A successful attempt is published.
Publishes(g) ==
  /\ pc[g] = "reload" /\ result[g].ok
  /\ NobodyCarries' /\ pollMu' = {}
  /\ previous' = Snapshot(pollID[g])
  /\ UNCHANGED <<mode, boots, attempts, baseline, polls, runs>>

\* StatLite goes down, or serves what it has stored.
Ends == mode' # "polling" /\ NobodyCarries' /\ boots' \in {boots, boots + 1}

\* Nobody carries a collection while pollMu is free.
LEMMA FreeCarriesNothing ==
  ASSUME ControlOK, pollMu = {}
  PROVE  \A h \in Pollers : pc[h] \in {"idle", "lock"}
  BY DEF ControlOK, InPoll, Labels

\* Returning from PollNow leaves nobody inside.
LEMMA ReturnLeaves ==
  ASSUME ControlOK, NEW g \in Pollers, pc[g] \in InPoll, NEW s, Return(g, s)
  PROVE  NobodyCarries' /\ pollMu' = {}
<1>1. \A h \in Pollers : pc'[h] \in {"idle", "lock"}
  BY OthersOutside DEF ControlOK, Return
<1>2. pollMu' = {}
  <2>1. g \in pollMu /\ \A h \in pollMu : h = g
    BY DEF ControlOK
  <2> QED
    BY <2>1 DEF Return
<1> QED
  BY <1>1, <1>2 DEF NobodyCarries, Carrying

\* A recorded failure is one.
LEMMA FailureFails ==
  ASSUME IInv, NEW g \in Pollers, pc[g] \in InPoll, NEW at, NEW id, NEW s, NEW observation,
         NEW returned, RecordFailure(at, id, s, observation), Return(g, returned),
         UNCHANGED <<process, attempts>>
  PROVE  Fails
<1>1. NobodyCarries'
  BY ReturnLeaves DEF IInv, TypeOK
<1>2. status'.failures # 0
  BY DEF RecordFailure, IInv, TypeOK, ViewOK, Statuses
<1> QED
  BY <1>1, <1>2 DEF Fails, RecordFailure, process

\* A step of somebody who is not inside PollNow, while nobody else is.
LEMMA OutsideContinues ==
  ASSUME IInv, pollMu = {},
         UNCHANGED <<mode, boots, status, baseline>>,
         previous # NoSnapshot => previous' = previous,
         \A h \in Pollers : pc'[h] \notin Carrying,
         attempts' - Held' = attempts
  PROVE  Continues
<1>1. \A h \in Pollers : pc[h] \notin Carrying
  BY FreeCarriesNothing DEF Carrying, IInv, TypeOK
<1>2. attempts - Held = attempts
  BY DEF Held, IInv, TypeOK, EnvironmentOK
<1>3. Unread = {}
  BY NobodyUnread DEF IInv, TypeOK
<1> QED
  BY <1>1, <1>2, <1>3 DEF Continues, GoesOn

\* A step of the goroutine inside PollNow that goes on with its collection.
LEMMA InsideContinues ==
  ASSUME IInv, NEW g \in Pollers, pc[g] \in InPoll, pc[g] # "reload",
         NEW label, Goto(g, label), label \in Carrying <=> pc[g] \in Carrying,
         UNCHANGED <<mode, boots, status, baseline, attempts>>,
         previous # NoSnapshot => previous' = previous,
         pc[g] \in Carrying => SameCollection(result'[g], result[g]) /\ UNCHANGED previous
  PROVE  Continues
<1>1. \A h \in Pollers : pc'[h] = IF h = g THEN label ELSE pc[h]
  BY DEF Goto, IInv, TypeOK, ControlOK
<1>2. \A h \in Pollers : h # g => pc[h] \notin Carrying
  BY OthersOutside DEF IInv, TypeOK, Carrying
<1>3. Held' = Held /\ Unread = {}
  BY NothingUnread DEF Goto, Held, IInv, TypeOK
<1> QED
  BY <1>1, <1>2, <1>3 DEF Continues, GoesOn

\* A step of nobody inside PollNow.
LEMMA ElsewhereContinues ==
  ASSUME IInv, UNCHANGED <<mode, boots, status, baseline, attempts, pollMu, previous, result,
                           pollID>>,
         \A h \in Pollers : pc'[h] = pc[h] \/ {pc'[h], pc[h]} \subseteq {"idle", "lock"}
  PROVE  Continues
<1>1. \A h \in Pollers : SameCollection(result'[h], result[h])
  BY DEF SameCollection
<1>2. {h \in Pollers : pc'[h] = "reload"} = {h \in Pollers : pc[h] = "reload"}
  OBVIOUS
<1>3. Unread' = Unread
  BY <1>2 DEF Unread
<1> QED
  BY <1>1, <1>3 DEF Continues, GoesOn, Held, Carrying

\* Reading a stored poll back ends the attempt, one way or the other.
LEMMA ReloadEnds ==
  ASSUME IInv, Memory, NEW g \in Pollers, Reload(g)
  PROVE  Publishes(g) \/ Fails
<1> USE DEF environment, process, view
<1>1. pc[g] = "reload" /\ pc[g] \in InPoll
  BY DEF Reload, InPoll, Labels
<1>2. ASSUME NEW at, NEW id, NEW s, NEW observation, RecordFailure(at, id, s, observation),
             Return(g, NoSnapshot)
      PROVE  Fails
  BY <1>1, <1>2, FailureFails DEF Reload
<1>3. ASSUME NEW p \in Newest(DOMAIN polls), result[g].ok,
             RecordSuccess(result[g].at, pollID[g], Snapshot(p)), Return(g, Snapshot(p))
      PROVE  Publishes(g)
  <2>1. p = pollID[g]
    BY <1>1, ReloadedIsStored
  <2>2. NobodyCarries' /\ pollMu' = {}
    BY <1>1, <1>3, ReturnLeaves DEF IInv, TypeOK
  <2> QED
    BY <1>1, <1>3, <2>1, <2>2 DEF Publishes, Reload, RecordSuccess, database
<1> QED
  BY <1>2, <1>3 DEF Reload

\* What a step is to the attempts.
LEMMA StepKinds ==
  ASSUME IInv, Memory, [Next]_vars
  PROVE  \/ Continues \/ Fails \/ Ends \/ Boot
         \/ \E g \in Pollers : Collect(g) \/ Publishes(g)
<1> USE DEF environment, process, view
<1>1. CASE LoadSuccessfulHistory
  <2>1. \A h \in Pollers : pc'[h] \in {"idle", "lock"}
    BY <1>1, FreeCarriesNothing DEF LoadSuccessfulHistory, IInv, TypeOK, ControlOK
  <2>2. attempts' - Held' = attempts
    BY <1>1 DEF LoadSuccessfulHistory, Held, IInv, TypeOK, EnvironmentOK
  <2>3. previous # NoSnapshot => previous' = previous
    BY <1>1 DEF LoadSuccessfulHistory
  <2> QED
    BY <1>1, <2>1, <2>2, <2>3, OutsideContinues DEF LoadSuccessfulHistory, Carrying
<1>2. ASSUME NEW g \in Pollers, CallPollNow(g) PROVE Continues
  <2>1. \A h \in Pollers : pc'[h] = pc[h] \/ {pc'[h], pc[h]} \subseteq {"idle", "lock"}
    BY <1>2 DEF CallPollNow, IInv, TypeOK, ControlOK
  <2> QED
    BY <1>2, <2>1, ElsewhereContinues DEF CallPollNow
<1>3. ASSUME NEW g \in Pollers, Lock(g) PROVE Continues
  <2>1. \A h \in Pollers : pc'[h] \notin Carrying
    BY <1>3, FreeCarriesNothing DEF Lock, IInv, TypeOK, ControlOK, Carrying
  <2>2. attempts' - Held' = attempts
    BY <1>3 DEF Lock, Held, IInv, TypeOK, EnvironmentOK
  <2> QED
    BY <1>3, <2>1, <2>2, OutsideContinues DEF Lock
<1>4. ASSUME NEW g \in Pollers, LoadPrevious(g) PROVE Continues \/ Fails
  <2>1. pc[g] = "load" /\ pc[g] \in InPoll /\ pc[g] \notin Carrying /\ previous = NoSnapshot
    BY <1>4 DEF LoadPrevious, InPoll, Labels, Carrying, Memory, BaselineIsNewest
  <2>2. CASE RecordFailure(now, 0, NoSnapshot, NoHealth) /\ Return(g, NoSnapshot)
    BY <1>4, <2>1, <2>2, FailureFails DEF LoadPrevious
  <2>3. CASE Goto(g, "collect") /\ UNCHANGED status
    BY <1>4, <2>1, <2>3, InsideContinues DEF LoadPrevious, Carrying
  <2> QED
    BY <1>4, <2>2, <2>3 DEF LoadPrevious
<1>5. ASSUME NEW g \in Pollers, CollectProcessStartTime(g) PROVE Continues
  <2>1. pc[g] \in InPoll /\ pc[g] # "reload" /\ pc[g] \in Carrying /\ "detect" \in Carrying
    BY <1>5 DEF CollectProcessStartTime, InPoll, Labels, Carrying
  <2>2. SameCollection(result'[g], result[g])
    BY <1>5 DEF CollectProcessStartTime, SameCollection, IInv, TypeOK, WorkOK, Results
  <2> QED
    BY <1>5, <2>1, <2>2, InsideContinues DEF CollectProcessStartTime
<1>6. ASSUME NEW g \in Pollers, DetectAppRun(g) PROVE Continues \/ Fails
  <2>1. pc[g] \in InPoll /\ pc[g] # "reload" /\ pc[g] \in Carrying /\ "save" \in Carrying
    BY <1>6 DEF DetectAppRun, InPoll, Labels, Carrying
  <2>2. CASE RecordFailure(result[g].at, 0, NoSnapshot, HealthObservation(result[g]))
               /\ Return(g, NoSnapshot)
    BY <1>6, <2>1, <2>2, FailureFails DEF DetectAppRun
  <2>3. ASSUME NEW id, UNCHANGED view, Goto(g, "save"),
               result' = [result EXCEPT ![g].run = id,
                                        ![g].restart = RestartDetected(result[g])]
        PROVE  Continues
    <3>1. SameCollection(result'[g], result[g])
      BY <2>3 DEF SameCollection, IInv, TypeOK, WorkOK, Results
    <3> QED
      BY <1>6, <2>1, <2>3, <3>1, InsideContinues DEF DetectAppRun
  <2> QED
    BY <1>6, <2>2, <2>3 DEF DetectAppRun
<1>7. ASSUME NEW g \in Pollers, Save(g) PROVE Continues \/ Fails
  <2>1. pc[g] \in InPoll /\ pc[g] # "reload" /\ pc[g] \in Carrying /\ "reload" \in Carrying
    BY <1>7 DEF Save, InPoll, Labels, Carrying
  <2>2. CASE RecordFailure(result[g].at, 0, NoSnapshot, HealthObservation(result[g]))
               /\ Return(g, NoSnapshot)
    BY <1>7, <2>1, <2>2, FailureFails DEF Save
  <2>3. CASE UNCHANGED <<result, view>> /\ Goto(g, "reload")
    <3>1. SameCollection(result'[g], result[g])
      BY <2>3 DEF SameCollection
    <3> QED
      BY <1>7, <2>1, <2>3, <3>1, InsideContinues DEF Save
  <2> QED
    BY <1>7, <2>2, <2>3 DEF Save
<1>8. ASSUME NEW g \in Pollers, Reload(g) PROVE Publishes(g) \/ Fails
  BY <1>8, ReloadEnds
<1>9. CASE RetentionCleanup \/ AppRestarts \/ ClockMoves \/ UNCHANGED vars
  BY <1>9, ElsewhereContinues DEF RetentionCleanup, AppRestarts, ClockMoves, vars
<1>10. CASE EnableNoPoll \/ Exit
  <2>1. \A h \in Pollers : pc'[h] = "idle"
    BY <1>10 DEF EnableNoPoll, Exit, Memory, MemoryFollowsMode
  <2> QED
    BY <1>10, <2>1 DEF EnableNoPoll, Exit, Ends, NobodyCarries, Carrying
<1> QED
  BY <1>1, <1>2, <1>3, <1>4, <1>5, <1>6, <1>7, <1>8, <1>9, <1>10 DEF Next, Step

\* What a step does to the tables when it stores no poll: rows of app_runs keep
\* their identity, and polls only disappear, the oldest first.
TablesKept ==
  /\ \A r \in DOMAIN runs :
       /\ r \in DOMAIN runs'
       /\ runs'[r].start = runs[r].start /\ runs'[r].caddy = runs[r].caddy
  /\ DOMAIN polls' \subseteq DOMAIN polls
  /\ \A p \in DOMAIN polls' : polls'[p] = polls[p]
  /\ \A p \in DOMAIN polls', q \in DOMAIN polls : p <= q => q \in DOMAIN polls'

Stores(g, id) ==
  /\ pc[g] = "save" /\ IsFreshId(id, polls)
  /\ polls' = Insert(polls, id, result[g]) /\ pollID' = [pollID EXCEPT ![g] = id]
  /\ Goto(g, "reload")
  /\ UNCHANGED <<result, view, environment, process, attempts, runs, baseline>>

\* A row of app_runs keeps its start time and the kind of its target.
LEMMA EnsureKeepsRows ==
  ASSUME RunsOK, NEW id \in Nat, NEW start, NEW at,
         EnsureAppRun(id, start, at) \/ TouchAppRun(id, at)
  PROVE  \A r \in DOMAIN runs :
           /\ r \in DOMAIN runs'
           /\ runs'[r].start = runs[r].start /\ runs'[r].caddy = runs[r].caddy
<1>1. CASE id \in DOMAIN runs /\ runs' = [runs EXCEPT ![id].last = at]
  BY <1>1 DEF RunsOK, RunRows
<1>2. CASE IsFreshId(id, runs) /\ runs' = Insert(runs, id, NewRun(start, at))
  BY <1>2 DEF RunsOK, IsFreshId, Insert
<1> QED
  BY <1>1, <1>2 DEF EnsureAppRun, TouchAppRun

\* Only storing a poll adds one.
LEMMA StepTables ==
  ASSUME IInv, Memory, [Next]_vars
  PROVE  TablesKept \/ \E g \in Pollers, id \in 1..attempts : Stores(g, id)
<1> USE DEF environment, process, database, view
<1>1. UNCHANGED <<polls, runs>> => TablesKept
  BY DEF TablesKept
<1>2. ASSUME NEW g \in Pollers, DetectAppRun(g) PROVE TablesKept
  <2>1. UNCHANGED polls
    BY <1>2 DEF DetectAppRun
  <2>2. RunsOK
    BY DEF IInv, TypeOK, TablesOK, RunsOK
  <2>3. ASSUME NEW id \in DOMAIN runs \cup 1..attempts,
               IF NeedsNewRun(result[g])
                 THEN EnsureAppRun(id, result[g].start, result[g].at)
                 ELSE id = previous.result.run /\ TouchAppRun(id, result[g].at)
        PROVE  TablesKept
    <3>1. id \in Nat
      BY <2>2 DEF RunsOK, IInv, TypeOK, EnvironmentOK
    <3> QED
      BY <2>1, <2>2, <2>3, <3>1, EnsureKeepsRows DEF TablesKept
  <2> QED
    BY <1>1, <1>2, <2>1, <2>3 DEF DetectAppRun
<1>3. ASSUME NEW g \in Pollers, Save(g)
      PROVE  TablesKept \/ \E id \in 1..attempts : Stores(g, id)
  BY <1>1, <1>3 DEF Save, Stores
<1>4. ASSUME NEW g \in Pollers, CallPollNow(g) \/ Step(g)
      PROVE  TablesKept \/ \E id \in 1..attempts : Stores(g, id)
  BY <1>1, <1>2, <1>3, <1>4
     DEF Step, CallPollNow, Lock, LoadPrevious, Collect, CollectProcessStartTime, Reload
<1>5. ASSUME DeletePollsBefore, UNCHANGED runs PROVE TablesKept
  BY <1>5, PruneFacts DEF TablesKept, IInv, TypeOK, Memory
<1>6. CASE RetentionCleanup \/ Boot
  BY <1>1, <1>5, <1>6 DEF RetentionCleanup, Boot
<1>7. CASE LoadSuccessfulHistory \/ EnableNoPoll \/ Exit \/ AppRestarts \/ ClockMoves
           \/ UNCHANGED vars
  BY <1>1, <1>7 DEF LoadSuccessfulHistory, EnableNoPoll, Exit, AppRestarts, ClockMoves, vars
<1> QED
  BY <1>4, <1>6, <1>7 DEF Next

\* The baseline stays, is forgotten, or becomes a stored success.
LEMMA StepBaseline ==
  ASSUME IInv, Memory, [Next]_vars
  PROVE  \/ previous' = previous \/ previous' = NoSnapshot
         \/ /\ UNCHANGED <<polls, runs>> /\ NobodyCarries'
            /\ \E p \in OkPolls : previous' = Snapshot(p)
<1> USE DEF environment, process, database, view
<1>1. ASSUME NEW s \in LatestSuccessfulSnapshot
      PROVE  s = NoSnapshot \/ \E p \in OkPolls : s = Snapshot(p)
  BY <1>1 DEF LatestSuccessfulSnapshot, Newest
<1>2. CASE LoadSuccessfulHistory
  <2>1. NobodyCarries'
    BY <1>2, FreeCarriesNothing
       DEF LoadSuccessfulHistory, NobodyCarries, Carrying, IInv, TypeOK, ControlOK
  <2> QED
    BY <1>1, <1>2, <2>1 DEF LoadSuccessfulHistory
<1>3. ASSUME NEW g \in Pollers, LoadPrevious(g), previous' # previous
      PROVE  /\ previous' \in LatestSuccessfulSnapshot /\ NobodyCarries'
             /\ UNCHANGED <<polls, runs>>
  <2>1. previous' \in LatestSuccessfulSnapshot /\ Goto(g, "collect") /\ UNCHANGED <<polls, runs>>
    BY <1>3 DEF LoadPrevious, RecordFailure
  <2>2. pc[g] = "load" /\ pc[g] \in InPoll
    BY <1>3 DEF LoadPrevious, InPoll, Labels
  <2> QED
    BY <2>1, <2>2, OthersOutside DEF NobodyCarries, Carrying, Goto, IInv, TypeOK, ControlOK
<1>4. ASSUME NEW g \in Pollers, Reload(g), previous' # previous
      PROVE  /\ \E p \in OkPolls : previous' = Snapshot(p)
             /\ NobodyCarries' /\ UNCHANGED <<polls, runs>>
  BY <1>4, ReloadEnds DEF Fails, Publishes, Memory, CarriedIsNow, OkPolls
<1>5. ASSUME NEW g \in Pollers, CallPollNow(g) \/ Step(g), previous' # previous
      PROVE  \/ previous' = NoSnapshot
             \/ /\ UNCHANGED <<polls, runs>> /\ NobodyCarries'
                /\ \E p \in OkPolls : previous' = Snapshot(p)
  <2>1. LoadPrevious(g) \/ Reload(g)
    BY <1>5 DEF Step, CallPollNow, Lock, Collect, CollectProcessStartTime,
                DetectAppRun, Save, RecordFailure
  <2> QED
    BY <1>1, <1>3, <1>4, <1>5, <2>1
<1>6. CASE EnableNoPoll
  <2>1. NobodyCarries'
    BY <1>6 DEF EnableNoPoll, NobodyCarries, Carrying, Memory, MemoryFollowsMode
  <2> QED
    BY <1>1, <1>6, <2>1 DEF EnableNoPoll
<1>7. CASE RetentionCleanup \/ Boot \/ Exit \/ AppRestarts \/ ClockMoves \/ UNCHANGED vars
  BY <1>7 DEF RetentionCleanup, Boot, Exit, AppRestarts, ClockMoves, vars
<1> QED
  BY <1>2, <1>5, <1>6, <1>7 DEF Next

\* What a scrape leaves behind, whether it failed or not.
LEMMA CollectFacts ==
  ASSUME IInv, NEW g \in Pollers, Collect(g)
  PROVE  /\ GoesOn /\ UNCHANGED <<polls, runs, previous>>
         /\ NobodyCarries /\ pc[g] # "save" /\ pc'[g] \in Carrying \ {"reload"}
         /\ \A h \in Pollers : h # g => pc'[h] \notin Carrying
         /\ result'[g].boot = boots /\ result'[g].attempt = attempts
         /\ UNCHANGED attempts /\ result'[g].start \in {0, result'[g].seen}
         /\ pc'[g] = "save" => ~result'[g].ok
         /\ pc'[g] = "start_time" => ~OneDocument
         /\ result'[g].ok =>
              /\ Caddy => baseline' = result'[g].samples
              /\ result'[g].break = (Caddy /\ Breaks(result'[g].samples))
              /\ result'[g].seen = app.incarnation /\ app'.incarnation = app.incarnation
              /\ DOMAIN result'[g].samples \subseteq Signals
              /\ \A s \in Signals : app.level[s] <= app'.level[s]
              /\ \A s \in DOMAIN result'[g].samples : result'[g].samples[s] = app'.level[s]
         /\ ~result'[g].ok => UNCHANGED app
<1> USE DEF environment, process, database, view
<1>1. pc[g] = "collect" /\ pc[g] \in InPoll /\ pc[g] # "reload" /\ pc[g] \notin Carrying
  BY DEF Collect, InPoll, Labels, Carrying
<1>2. \A h \in Pollers : h # g => pc[h] \in {"idle", "lock"}
  BY <1>1, OthersOutside DEF IInv, TypeOK
<1>3. NobodyCarries /\ Unread = {}
  BY <1>1, <1>2, NothingUnread DEF NobodyCarries, Carrying, IInv, TypeOK
<1>4. pollMu' = pollMu /\ UNCHANGED <<polls, runs, previous, mode, boots, status, attempts>>
  BY DEF Collect, CollectFails, CollectSamples, Goto
<1>5. GoesOn
  BY <1>3, <1>4 DEF GoesOn, Held
<1>6. ASSUME NEW label, Goto(g, label)
      PROVE  pc'[g] = label /\ \A h \in Pollers : h # g => pc'[h] \notin Carrying
  BY <1>2, <1>6 DEF Goto, Carrying, IInv, TypeOK, ControlOK
<1>7. ASSUME NEW c, result' = [result EXCEPT ![g] = c] PROVE result'[g] = c
  BY <1>7 DEF IInv, TypeOK, WorkOK
<1>8. \A h : /\ Begun(h).boot = boots /\ Begun(h).attempt = attempts
             /\ ~Begun(h).ok /\ Begun(h).start = 0
  BY DEF Begun, NoResult
<1>9. ASSUME NEW h \in Health, CollectFails(g, Begun(h))
      PROVE  /\ pc'[g] = "save" /\ result'[g] = Begun(h) /\ UNCHANGED app
             /\ \A k \in Pollers : k # g => pc'[k] \notin Carrying
  BY <1>6, <1>7, <1>9 DEF CollectFails
<1>10. ASSUME NEW h \in Health, NEW signals \in Exposures, NEW levels \in [Signals -> Levels],
              CollectSamples(g, Begun(h), signals, levels)
       PROVE  /\ pc'[g] = IF OneDocument THEN "detect" ELSE "start_time"
              /\ \A k \in Pollers : k # g => pc'[k] \notin Carrying
              /\ result'[g].boot = boots /\ result'[g].attempt = attempts
              /\ result'[g].ok /\ result'[g].start \in {0, result'[g].seen}
              /\ Caddy => baseline' = result'[g].samples
              /\ result'[g].break = (Caddy /\ Breaks(result'[g].samples))
              /\ result'[g].seen = app.incarnation /\ app'.incarnation = app.incarnation
              /\ DOMAIN result'[g].samples \subseteq Signals
              /\ \A s \in Signals : app.level[s] <= app'.level[s]
              /\ \A s \in DOMAIN result'[g].samples : result'[g].samples[s] = app'.level[s]
  <2> DEFINE samples == [s \in signals \ {"start"} |-> levels[s]]
             c == Scraped(Begun(h), signals, samples)
  <2>1. /\ \A s \in Signals : app.level[s] <= levels[s]
        /\ app' = [app EXCEPT !.level = levels]
        /\ baseline' = IF Caddy THEN samples ELSE NoSamples
        /\ Goto(g, IF OneDocument THEN "detect" ELSE "start_time")
        /\ result'[g] = c
    BY <1>7, <1>10 DEF CollectSamples
  <2>2. /\ c.ok /\ c.samples = samples /\ c.seen = app.incarnation
        /\ c.boot = boots /\ c.attempt = attempts
        /\ c.start \in {0, app.incarnation} /\ c.break = (Caddy /\ Breaks(samples))
    BY DEF Scraped, Begun, NoResult
  <2>3. DOMAIN samples \subseteq Signals /\ \A s \in DOMAIN samples : samples[s] = levels[s]
    BY DEF Signals
  <2>4. app'.level = levels /\ app'.incarnation = app.incarnation
    BY <2>1 DEF IInv, TypeOK, EnvironmentOK
  <2> HIDE DEF samples, c
  <2> QED
    BY <1>6, <2>1, <2>2, <2>3, <2>4
<1>11. "save" \in Carrying /\ "detect" \in Carrying /\ "start_time" \in Carrying
  BY DEF Carrying
<1>12. CASE \E h \in Health : CollectFails(g, Begun(h))
  BY <1>1, <1>3, <1>4, <1>5, <1>8, <1>9, <1>11, <1>12
<1>13. CASE \E h \in Health, signals \in Exposures, levels \in [Signals -> Levels] :
              CollectSamples(g, Begun(h), signals, levels)
  BY <1>1, <1>3, <1>4, <1>5, <1>10, <1>11, <1>13
<1> QED
  BY <1>12, <1>13 DEF Collect

\* Steps of attempts in progress settle no poll and forget some.
LEMMA SettledShrinks ==
  ASSUME IInv, Memory, [Next]_vars, GoesOn
  PROVE  /\ Settled' \subseteq Settled
         /\ \A p \in Settled' : polls'[p] = polls[p]
<1>1. CASE TablesKept
  BY <1>1 DEF GoesOn, TablesKept, Settled
<1>2. ASSUME NEW g \in Pollers, NEW id \in 1..attempts, Stores(g, id)
      PROVE  /\ Settled' \subseteq Settled
             /\ \A p \in Settled' : polls'[p] = polls[p]
  <2>1. Settled' = DOMAIN polls /\ \A p \in DOMAIN polls : polls'[p] = polls[p]
    BY <1>2, SaveFacts DEF Stores
  <2>2. Settled = DOMAIN polls
    BY <1>2, NothingUnread DEF Stores, InPoll, Labels, IInv, TypeOK
  <2> QED
    BY <2>1, <2>2
<1> QED
  BY <1>1, <1>2, StepTables

\* A start of StatLite finds nobody polling and nothing remembered.
LEMMA BootFacts ==
  ASSUME IInv, Memory, Boot
  PROVE  /\ boots' = boots + 1 /\ UNCHANGED <<status, previous, app, pc, result>>
         /\ status = NoStatus /\ previous = NoSnapshot
         /\ NobodyCarries /\ NobodyCarries'
         /\ \A g \in Pollers : \A id : ~Stores(g, id)
<1>1. pc = [g \in Pollers |-> "idle"] /\ status = NoStatus /\ previous = NoSnapshot
  BY DEF Boot, Memory, MemoryFollowsMode
<1>2. boots' = boots + 1 /\ UNCHANGED <<status, previous, app, pc, result>>
  BY DEF Boot, view, environment
<1> QED
  BY <1>1, <1>2 DEF NobodyCarries, Carrying, Stores

\* What is published is the poll stored last, of this boot and this attempt.
LEMMA PublishedFacts ==
  ASSUME IInv, Memory, NEW g \in Pollers, Publishes(g)
  PROVE  /\ pollID[g] \in OkPolls /\ pollID[g] # 0
         /\ \A p \in DOMAIN polls : p <= pollID[g]
         /\ previous'.id = pollID[g] /\ previous'.result = result[g]
         /\ previous' # NoSnapshot /\ pc[g] \in Carrying
<1>1. /\ pollID[g] \in DOMAIN polls /\ polls[pollID[g]] = result[g] /\ result[g].ok
      /\ \A p \in DOMAIN polls : p <= pollID[g]
  BY DEF Publishes, Memory, CarriedIsNow
<1>2. pollID[g] # 0
  BY <1>1 DEF Memory, IdsFollowTime
<1>3. previous'.id = pollID[g] /\ previous'.result = result[g]
  BY <1>1 DEF Publishes, Snapshot
<1> QED
  BY <1>1, <1>2, <1>3 DEF Publishes, Carrying, OkPolls, NoSnapshot

\* Polls and collections know the boot and the attempt they are of.
LEMMA StepAttemptsAreOfBoots ==
  ASSUME IInv, Memory, AttemptsAreOfBoots, [Next]_vars
  PROVE  AttemptsAreOfBoots'
<1>1. boots' \in {boots, boots + 1}
  BY StepKinds, CollectFacts, BootFacts
     DEF Continues, GoesOn, Fails, Ends, Publishes
<1>2. boots \in Nat /\ \A p \in DOMAIN polls : polls[p].boot \in Nat
  BY PollType, ResultType DEF IInv, TypeOK, EnvironmentOK
<1>3. ASSUME NEW p \in DOMAIN polls' PROVE polls'[p].boot <= boots'
  <2>1. CASE TablesKept
    BY <1>1, <1>2, <2>1 DEF TablesKept, AttemptsAreOfBoots
  <2>2. ASSUME NEW g \in Pollers, NEW id \in 1..attempts, Stores(g, id)
        PROVE  polls'[p].boot <= boots'
    <3>1. p \in DOMAIN polls \cup {id} /\ polls'[id] = result[g]
          /\ \A q \in DOMAIN polls : polls'[q] = polls[q]
      BY <2>2, SaveFacts DEF Stores
    <3>2. result[g].boot = boots
      BY <2>2 DEF Stores, AttemptsAreOfBoots, Carrying
    <3> QED
      BY <1>1, <1>2, <3>1, <3>2 DEF AttemptsAreOfBoots
  <2> QED
    BY <2>1, <2>2, StepTables
<1>4. ASSUME NEW h \in Pollers, pc'[h] \in Carrying
      PROVE  result'[h].boot = boots' /\ result'[h].attempt = attempts'
  <2>1. CASE Continues
    BY <1>4, <2>1 DEF Continues, GoesOn, SameCollection, AttemptsAreOfBoots
  <2>2. ASSUME NEW g \in Pollers, Collect(g)
        PROVE  result'[h].boot = boots' /\ result'[h].attempt = attempts'
    BY <1>4, <2>2, CollectFacts DEF GoesOn
  <2>3. ~NobodyCarries'
    BY <1>4 DEF NobodyCarries
  <2> QED
    BY <2>1, <2>2, <2>3, StepKinds, BootFacts DEF Fails, Ends, Publishes
<1> QED
  BY <1>3, <1>4 DEF AttemptsAreOfBoots

\* Failures of this boot are counted until a success ends them.
LEMMA StepFailuresAreCounted ==
  ASSUME IInv, IInv', Memory, AttemptsAreOfBoots, FailuresAreCounted, [Next]_vars
  PROVE  FailuresAreCounted'
<1> SUFFICES ASSUME mode' = "polling", status'.failures = 0,
                    NEW p \in (Settled \ OkPolls)', previous'.id < p
             PROVE  polls'[p].boot # boots'
  BY DEF FailuresAreCounted
<1>1. CASE GoesOn
  <2>1. p \in Settled /\ polls'[p] = polls[p]
    BY <1>1, SettledShrinks
  <2>2. p \in Settled \ OkPolls
    BY <2>1 DEF OkPolls, Settled
  <2>3. previous.id < p
    <3>1. NoSnapshot.id = 0
      BY DEF NoSnapshot
    <3>2. p \in Nat /\ previous'.id \in Nat
      BY <2>1, PollType DEF Settled, IInv, TypeOK, ViewOK, Snapshots
    <3> QED
      BY <1>1, <3>1, <3>2 DEF GoesOn
  <2> QED
    BY <1>1, <2>1, <2>2, <2>3 DEF GoesOn, FailuresAreCounted
<1>2. CASE Boot
  <2>1. TablesKept /\ boots' = boots + 1
    BY <1>2, StepTables, BootFacts
  <2>2. p \in DOMAIN polls /\ polls'[p] = polls[p]
    BY <2>1 DEF Settled, TablesKept
  <2>3. polls[p].boot \in Nat /\ boots \in Nat /\ polls[p].boot <= boots
    BY <2>2, PollType, ResultType DEF IInv, TypeOK, EnvironmentOK, AttemptsAreOfBoots
  <2> QED
    BY <2>1, <2>2, <2>3
<1>3. ASSUME NEW g \in Pollers, Publishes(g) PROVE FALSE
  <2>1. previous'.id = pollID[g] /\ \A q \in DOMAIN polls : q <= pollID[g]
    BY <1>3, PublishedFacts
  <2>2. p \in DOMAIN polls
    BY <1>3 DEF Publishes, Settled
  <2>3. p \in Nat /\ previous'.id \in Nat
    BY <2>2, PollType DEF IInv, TypeOK, ViewOK, Snapshots
  <2> QED
    BY <2>1, <2>2, <2>3
<1> QED
  BY <1>1, <1>2, <1>3, StepKinds, CollectFacts DEF Continues, Fails, Ends

\* After a success the baseline is the newest poll.
LEMMA StepSuccessIsLast ==
  ASSUME IInv, IInv', Memory, AttemptsAreOfBoots, SuccessIsLast, [Next]_vars
  PROVE  SuccessIsLast'
<1> SUFFICES ASSUME mode' = "polling", status'.failures = 0, status'.lastSuccessAt # 0
             PROVE  /\ previous' # NoSnapshot
                    /\ \A p \in Settled' : p <= previous'.id
                    /\ previous'.result.boot = boots'
                    /\ attempts' = previous'.result.attempt + Held'
  BY DEF SuccessIsLast, Held
<1>1. CASE GoesOn
  <2>1. /\ previous # NoSnapshot /\ previous' = previous
        /\ \A p \in Settled : p <= previous.id
        /\ previous.result.boot = boots /\ attempts = previous.result.attempt + Held
    BY <1>1 DEF GoesOn, SuccessIsLast, Held
  <2>2. Settled' \subseteq Settled
    BY <1>1, SettledShrinks
  <2>3. /\ attempts \in Nat /\ attempts' \in Nat /\ previous.result.attempt \in Nat
        /\ Held \in Nat /\ Held' \in Nat
    BY ResultType DEF IInv, TypeOK, EnvironmentOK, ViewOK, Snapshots, Held
  <2> QED
    BY <1>1, <2>1, <2>2, <2>3 DEF GoesOn
<1>2. CASE Boot
  BY <1>2, BootFacts DEF NoStatus
<1>3. ASSUME NEW g \in Pollers, Publishes(g)
      PROVE  /\ previous' # NoSnapshot
             /\ \A p \in Settled' : p <= previous'.id
             /\ previous'.result.boot = boots'
             /\ attempts' = previous'.result.attempt + Held'
  <2>1. /\ \A p \in DOMAIN polls : p <= pollID[g]
        /\ previous'.id = pollID[g] /\ previous'.result = result[g]
        /\ previous' # NoSnapshot /\ pc[g] \in Carrying
    BY <1>3, PublishedFacts
  <2>2. result[g].boot = boots /\ result[g].attempt = attempts
    BY <2>1 DEF AttemptsAreOfBoots
  <2>3. Held' = 0 /\ UNCHANGED <<boots, attempts, polls>>
    BY <1>3 DEF Publishes, Held
  <2>4. attempts \in Nat
    BY DEF IInv, TypeOK, EnvironmentOK
  <2> QED
    BY <2>1, <2>2, <2>3, <2>4 DEF Settled
<1> QED
  BY <1>1, <1>2, <1>3, StepKinds, CollectFacts DEF Continues, Fails, Ends

\* Caddy's tuples are those of the baseline.
LEMMA StepCaddyBaseline ==
  ASSUME IInv, IInv', Memory, SuccessIsLast, SuccessIsLast', CaddyBaseline, [Next]_vars
  PROVE  CaddyBaseline'
<1> SUFFICES ASSUME Caddy PROVE CaddyBaseline'
  BY DEF CaddyBaseline
<1>1. ASSUME NEW h \in Pollers, pc'[h] \in Carrying, result'[h].ok
      PROVE  baseline' = result'[h].samples
  <2>1. CASE Continues
    BY <1>1, <2>1 DEF Continues, SameCollection, CaddyBaseline
  <2>2. ASSUME NEW g \in Pollers, Collect(g) PROVE baseline' = result'[h].samples
    BY <1>1, <2>2, CollectFacts
  <2>3. ~NobodyCarries'
    BY <1>1 DEF NobodyCarries
  <2> QED
    BY <2>1, <2>2, <2>3, StepKinds, BootFacts DEF Fails, Ends, Publishes
<1>2. ASSUME mode' = "polling", status'.failures = 0, status'.lastSuccessAt # 0
      PROVE  /\ NobodyCarries' => baseline' = previous'.result.samples
             /\ \A h \in Pollers : pc'[h] \in Carrying /\ result'[h].ok /\ ~result'[h].break =>
                  \A s \in DOMAIN previous'.result.samples :
                    ~Decreased(s, previous'.result.samples, result'[h].samples)
  <2>1. ASSUME GoesOn
        PROVE  /\ mode = "polling" /\ status.failures = 0 /\ status.lastSuccessAt # 0
               /\ previous' = previous
    BY <1>2, <2>1 DEF GoesOn, SuccessIsLast
  <2>2. CASE Continues
    <3>1. /\ mode = "polling" /\ status.failures = 0 /\ status.lastSuccessAt # 0
          /\ previous' = previous
      BY <2>1, <2>2 DEF Continues
    <3>2. NobodyCarries' => NobodyCarries
      BY <2>2 DEF Continues, NobodyCarries
    <3> QED
      BY <2>2, <3>1, <3>2 DEF Continues, SameCollection, CaddyBaseline, NobodyCarries
  <2>3. ASSUME NEW g \in Pollers, Collect(g)
        PROVE  /\ ~NobodyCarries'
               /\ \A h \in Pollers :
                    pc'[h] \in Carrying /\ result'[h].ok /\ ~result'[h].break =>
                      \A s \in DOMAIN previous'.result.samples :
                        ~Decreased(s, previous'.result.samples, result'[h].samples)
    <3>1. /\ pc'[g] \in Carrying /\ \A h \in Pollers : h # g => pc'[h] \notin Carrying
          /\ NobodyCarries /\ UNCHANGED previous
          /\ result'[g].ok /\ ~result'[g].break => ~Breaks(result'[g].samples)
      BY <2>3, CollectFacts
    <3>2. baseline = previous.result.samples
      BY <2>1, <2>3, <3>1, CollectFacts DEF CaddyBaseline, NobodyCarries
    <3>3. result'[g].ok /\ ~result'[g].break =>
            \A s \in DOMAIN previous.result.samples :
              ~Decreased(s, previous.result.samples, result'[g].samples)
      BY <3>1, <3>2 DEF Breaks
    <3> QED
      BY <3>1, <3>3 DEF NobodyCarries
  <2>4. ASSUME NEW g \in Pollers, Publishes(g)
        PROVE  NobodyCarries' /\ baseline' = previous'.result.samples
    <3>1. previous'.result = result[g] /\ pc[g] \in Carrying
      BY <2>4, PublishedFacts
    <3> QED
      BY <2>4, <3>1 DEF Publishes, CaddyBaseline
  <2>5. CASE Boot
    BY <1>2, <2>5, BootFacts DEF NoStatus
  <2> QED
    BY <1>2, <2>2, <2>3, <2>4, <2>5, StepKinds DEF Fails, Ends, NobodyCarries
<1> QED
  BY <1>1, <1>2 DEF CaddyBaseline, NobodyCarries

\* Every step keeps the account of the attempts.
LEMMA StepAttempting ==
  ASSUME IInv, IInv', Memory, Attempting, [Next]_vars
  PROVE  Attempting'
  BY StepAttemptsAreOfBoots, StepFailuresAreCounted, StepSuccessIsLast, StepCaddyBaseline
     DEF Attempting

-----------------------------------------------------------------------------
(* The run of a collection about to be stored.                             *)

Detects(g, id) ==
  /\ pc[g] = "detect"
  /\ IF NeedsNewRun(result[g])
       THEN EnsureAppRun(id, result[g].start, result[g].at)
       ELSE id = previous.result.run /\ TouchAppRun(id, result[g].at)
  /\ result' = [result EXCEPT ![g].run = id, ![g].restart = RestartDetected(result[g])]
  /\ Goto(g, "save")
  /\ UNCHANGED <<view, polls>>

\* What is asked of a collection does not depend on the run it is given.
LEMMA NeedsSame ==
  ASSUME NEW c, NEW d, c.start = d.start, c.samples = d.samples, c.break = d.break
  PROVE  /\ RestartDetected(c) = RestartDetected(d)
         /\ NeedsNewRun(c) = NeedsNewRun(d)
<1>1. RestartDetected(c) = RestartDetected(d)
  BY DEF RestartDetected, ProcessStartChanged
<1> QED
  BY <1>1 DEF NeedsNewRun

\* A step of the goroutine inside PollNow leaves the others outside.
LEMMA OthersStayOutside ==
  ASSUME IInv, NEW g \in Pollers, pc[g] \in InPoll, NEW label, NEW s,
         Goto(g, label) \/ Return(g, s), NEW h \in Pollers, h # g
  PROVE  pc'[h] \in {"idle", "lock"}
  BY OthersOutside DEF Goto, Return, IInv, TypeOK, ControlOK

\* How a collection gets to be the next to store.
LEMMA StepSaving ==
  ASSUME IInv, Memory, [Next]_vars, NEW h \in Pollers, pc'[h] = "save"
  PROVE  \/ /\ pc[h] = "save" /\ UNCHANGED <<previous, status, runs>> /\ result'[h] = result[h]
            /\ DOMAIN polls' \subseteq DOMAIN polls
            /\ \A p \in DOMAIN polls' : polls'[p] = polls[p]
         \/ Collect(h)
         \/ \E id \in DOMAIN runs \cup 1..attempts : Detects(h, id)
<1> USE DEF view, database
<1> DEFINE Stays ==
      /\ pc[h] = "save" /\ UNCHANGED <<previous, status, runs>> /\ result'[h] = result[h]
      /\ DOMAIN polls' \subseteq DOMAIN polls
      /\ \A p \in DOMAIN polls' : polls'[p] = polls[p]
<1>1. ~LoadSuccessfulHistory
  BY FreeCarriesNothing DEF LoadSuccessfulHistory, IInv, TypeOK, ControlOK
<1>2. ASSUME NEW g \in Pollers, CallPollNow(g) PROVE Stays
  BY <1>2 DEF CallPollNow, IInv, TypeOK, ControlOK
<1>3. ASSUME NEW g \in Pollers, Lock(g) PROVE FALSE
  BY <1>3, FreeCarriesNothing DEF Lock, IInv, TypeOK, ControlOK
<1>4. /\ \A g \in Pollers : \A s : pc[g] \in InPoll => ~Return(g, s)
      /\ \A g \in Pollers : \A label : pc[g] \in InPoll /\ label # "save" => ~Goto(g, label)
  BY OthersStayOutside DEF Goto, Return, IInv, TypeOK, ControlOK
<1>5. ASSUME NEW g \in Pollers,
             LoadPrevious(g) \/ CollectProcessStartTime(g) \/ Save(g) \/ Reload(g)
      PROVE  FALSE
  <2>1. pc[g] \in InPoll
    BY <1>5 DEF LoadPrevious, CollectProcessStartTime, Save, Reload, InPoll, Labels
  <2>2. CASE LoadPrevious(g) \/ CollectProcessStartTime(g) \/ Save(g)
    <3>1. Goto(g, "collect") \/ Goto(g, "detect") \/ Goto(g, "reload") \/ Return(g, NoSnapshot)
      BY <2>2 DEF LoadPrevious, CollectProcessStartTime, Save
    <3> QED
      BY <1>4, <2>1, <3>1
  <2>3. CASE Reload(g)
    <3>1. Return(g, NoSnapshot) \/ \E p \in Newest(DOMAIN polls) : Return(g, Snapshot(p))
      BY <2>3 DEF Reload
    <3> QED
      BY <1>4, <2>1, <3>1
  <2> QED
    BY <1>5, <2>2, <2>3
<1>6. ASSUME NEW g \in Pollers, Collect(g) PROVE Collect(h)
  BY <1>6, CollectFacts DEF Carrying
<1>7. ASSUME NEW g \in Pollers, DetectAppRun(g)
      PROVE  \E id \in DOMAIN runs \cup 1..attempts : Detects(h, id)
  <2>1. pc[g] \in InPoll /\ pc[g] = "detect" /\ UNCHANGED polls
    BY <1>7 DEF DetectAppRun, InPoll, Labels
  <2>2. PICK id \in DOMAIN runs \cup 1..attempts :
          /\ IF NeedsNewRun(result[g])
               THEN EnsureAppRun(id, result[g].start, result[g].at)
               ELSE id = previous.result.run /\ TouchAppRun(id, result[g].at)
          /\ result' = [result EXCEPT ![g].run = id,
                                      ![g].restart = RestartDetected(result[g])]
          /\ Goto(g, "save")
          /\ UNCHANGED <<pollID, view>>
    BY <1>4, <1>7, <2>1 DEF DetectAppRun
  <2>3. g = h
    BY <2>1, <2>2, OthersStayOutside
  <2> QED
    BY <2>1, <2>2, <2>3 DEF Detects
<1>8. ASSUME RetentionCleanup PROVE Stays
  BY <1>8, PruneFacts DEF RetentionCleanup, IInv, TypeOK, Memory
<1>9. ~Boot /\ ~EnableNoPoll /\ ~Exit
  BY DEF Boot, EnableNoPoll, Exit, Memory, MemoryFollowsMode
<1>10. ASSUME AppRestarts \/ ClockMoves \/ UNCHANGED vars PROVE Stays
  BY <1>10 DEF AppRestarts, ClockMoves, vars
<1> QED
  BY <1>1, <1>2, <1>3, <1>5, <1>6, <1>7, <1>8, <1>9, <1>10 DEF Next, Step

\* Rows of app_runs are only inserted, and touched, by restart detection.
LEMMA StepRuns ==
  ASSUME IInv, Memory, [Next]_vars
  PROVE  UNCHANGED runs \/ \E g \in Pollers, id \in DOMAIN runs \cup 1..attempts : Detects(g, id)
<1> USE DEF view, database
<1>1. ASSUME NEW g \in Pollers, DetectAppRun(g)
      PROVE  UNCHANGED runs \/ \E id \in DOMAIN runs \cup 1..attempts : Detects(g, id)
  BY <1>1 DEF DetectAppRun, Detects
<1>2. ASSUME NEW g \in Pollers, CallPollNow(g) \/ Step(g)
      PROVE  UNCHANGED runs \/ \E id \in DOMAIN runs \cup 1..attempts : Detects(g, id)
  BY <1>1, <1>2 DEF CallPollNow, Step, Lock, LoadPrevious, Collect,
                    CollectProcessStartTime, Save, Reload
<1>3. CASE LoadSuccessfulHistory \/ RetentionCleanup \/ Boot \/ EnableNoPoll \/ Exit
           \/ AppRestarts \/ ClockMoves \/ UNCHANGED vars
  BY <1>3 DEF LoadSuccessfulHistory, RetentionCleanup, Boot, EnableNoPoll, Exit,
              AppRestarts, ClockMoves, vars
<1> QED
  BY <1>2, <1>3 DEF Next

\* What restart detection makes of the tables and of its collection.
LEMMA DetectFacts ==
  ASSUME IInv, Memory, RunsAreOfTarget, NEW g \in Pollers,
         NEW id \in DOMAIN runs \cup 1..attempts, Detects(g, id)
  PROVE  /\ id \in DOMAIN runs' /\ id # 0
         /\ \A r \in DOMAIN runs : r \in DOMAIN runs' /\ runs'[r].start = runs[r].start
         /\ NeedsNewRun(result[g]) =>
              /\ runs'[id].start = result[g].start
              /\ result[g].start = 0 => id \notin DOMAIN runs
         /\ ~NeedsNewRun(result[g]) => id = previous.result.run
         /\ result'[g].run = id /\ (result'[g].restart <=> RestartDetected(result[g]))
         /\ SameCollection(result'[g], result[g]) /\ result'[g].start = result[g].start
         /\ RunsAreOfTarget'
<1>1. RunsOK /\ id \in Nat
  BY DEF RunsOK, IInv, TypeOK, TablesOK, EnvironmentOK
<1>2. /\ result'[g].run = id /\ (result'[g].restart <=> RestartDetected(result[g]))
      /\ SameCollection(result'[g], result[g]) /\ result'[g].start = result[g].start
  BY DEF Detects, SameCollection, IInv, TypeOK, WorkOK, Results
<1>3. ~NeedsNewRun(result[g]) => id = previous.result.run
  BY DEF Detects
<1>4. CASE id \in DOMAIN runs /\ runs' = [runs EXCEPT ![id].last = result[g].at]
  <2>1. DOMAIN runs' = DOMAIN runs
    BY <1>4
  <2>2. \A r \in DOMAIN runs : runs'[r].start = runs[r].start /\ runs'[r].caddy = runs[r].caddy
    BY <1>1, <1>4 DEF RunsOK, RunRows
  <2>3. NeedsNewRun(result[g]) => runs[id].start = result[g].start /\ result[g].start # 0
    <3> SUFFICES ASSUME NeedsNewRun(result[g])
                 PROVE  runs[id].start = result[g].start /\ result[g].start # 0
      OBVIOUS
    <3>1. EnsureAppRun(id, result[g].start, result[g].at)
      BY DEF Detects
    <3>2. ~IsFreshId(id, runs)
      BY <1>1, <1>4 DEF IsFreshId
    <3> QED
      BY <3>1, <3>2 DEF EnsureAppRun
  <2>4. RunsAreOfTarget'
    BY <2>1, <2>2 DEF RunsAreOfTarget
  <2>5. NeedsNewRun(result[g]) =>
          /\ runs'[id].start = result[g].start
          /\ result[g].start = 0 => id \notin DOMAIN runs
    BY <1>4, <2>2, <2>3
  <2>6. /\ id \in DOMAIN runs'
        /\ \A r \in DOMAIN runs : r \in DOMAIN runs' /\ runs'[r].start = runs[r].start
    BY <1>4, <2>1, <2>2
  <2>7. id # 0
    BY <1>4 DEF RunsAreOfTarget
  <2> QED
    BY <1>2, <1>3, <2>4, <2>5, <2>6, <2>7
<1>5. CASE /\ NeedsNewRun(result[g]) /\ IsFreshId(id, runs)
           /\ runs' = Insert(runs, id, NewRun(result[g].start, result[g].at))
  <2>1. id \notin DOMAIN runs /\ id # 0
    BY <1>1, <1>5 DEF IsFreshId, RunsOK, IInv, TypeOK, EnvironmentOK
  <2>2. /\ DOMAIN runs' = DOMAIN runs \cup {id}
        /\ \A r \in DOMAIN runs : runs'[r] = runs[r]
        /\ runs'[id].start = result[g].start /\ runs'[id].caddy = Caddy
    BY <1>5, <2>1 DEF Insert, NewRun
  <2>3. Caddy => result[g].start = 0
    BY DEF IInv, Attribution, WorkAttributed
  <2> QED
    BY <1>2, <1>5, <2>1, <2>2, <2>3 DEF RunsAreOfTarget
<1> QED
  BY <1>4, <1>5 DEF Detects, EnsureAppRun, TouchAppRun

\* Every run is of this target.
LEMMA StepRunsAreOfTarget ==
  ASSUME IInv, Memory, RunsAreOfTarget, [Next]_vars
  PROVE  RunsAreOfTarget'
<1>1. CASE UNCHANGED runs
  BY <1>1 DEF RunsAreOfTarget
<1> QED
  BY <1>1, StepRuns, DetectFacts

\* A collection is given the run of the baseline, a new one or that of its start
\* time.
LEMMA StepCarriedRun ==
  ASSUME IInv, Memory, RunsAreOfTarget, CarriedRun, [Next]_vars
  PROVE  CarriedRun'
<1> SUFFICES ASSUME NEW h \in Pollers, pc'[h] = "save", result'[h].ok
             PROVE  /\ result'[h].run # 0
                    /\ result'[h].restart <=> RestartDetected(result[h])'
                    /\ ~NeedsNewRun(result[h])' => result'[h].run = previous'.result.run
                    /\ NeedsNewRun(result[h])' =>
                         /\ runs'[result'[h].run].start = result'[h].start
                         /\ result'[h].start = 0 =>
                              \A p \in DOMAIN polls' : polls'[p].run # result'[h].run
  BY DEF CarriedRun
<1>1. CASE /\ pc[h] = "save" /\ UNCHANGED <<previous, status, runs>> /\ result'[h] = result[h]
           /\ DOMAIN polls' \subseteq DOMAIN polls
           /\ \A p \in DOMAIN polls' : polls'[p] = polls[p]
  <2>1. /\ RestartDetected(result[h])' = RestartDetected(result[h])
        /\ NeedsNewRun(result[h])' = NeedsNewRun(result[h])
    BY <1>1 DEF RestartDetected, NeedsNewRun, ProcessStartChanged
  <2> QED
    BY <1>1, <2>1 DEF CarriedRun
<1>2. CASE Collect(h)
  BY <1>2, CollectFacts
<1>3. ASSUME NEW id \in DOMAIN runs \cup 1..attempts, Detects(h, id)
      PROVE  /\ result'[h].run # 0
             /\ result'[h].restart <=> RestartDetected(result[h])'
             /\ ~NeedsNewRun(result[h])' => result'[h].run = previous'.result.run
             /\ NeedsNewRun(result[h])' =>
                  /\ runs'[result'[h].run].start = result'[h].start
                  /\ result'[h].start = 0 =>
                       \A p \in DOMAIN polls' : polls'[p].run # result'[h].run
  <2>1. UNCHANGED <<previous, status, polls>>
    BY <1>3 DEF Detects, view
  <2>2. /\ id # 0 /\ result'[h].run = id
        /\ result'[h].restart <=> RestartDetected(result[h])
        /\ SameCollection(result'[h], result[h]) /\ result'[h].start = result[h].start
        /\ NeedsNewRun(result[h]) =>
             /\ runs'[id].start = result[h].start
             /\ result[h].start = 0 => id \notin DOMAIN runs
        /\ ~NeedsNewRun(result[h]) => id = previous.result.run
    BY <1>3, DetectFacts
  <2>3. /\ RestartDetected(result[h])' = RestartDetected(result'[h])
        /\ NeedsNewRun(result[h])' = NeedsNewRun(result'[h])
    BY <2>1 DEF RestartDetected, NeedsNewRun, ProcessStartChanged
  <2>4. /\ RestartDetected(result[h])' = RestartDetected(result[h])
        /\ NeedsNewRun(result[h])' = NeedsNewRun(result[h])
    BY <2>2, <2>3, NeedsSame DEF SameCollection
  <2>5. id \notin DOMAIN runs => \A p \in DOMAIN polls : polls[p].run # id
    BY <2>2 DEF IInv, Attribution, PollsAttributed, Attributed
  <2> QED
    BY <2>1, <2>2, <2>4, <2>5
<1> QED
  BY <1>1, <1>2, <1>3, StepSaving

-----------------------------------------------------------------------------
(* Observations.                                                           *)

\* Samples are numbers of known signals.
LEMMA SampleType ==
  ASSUME NEW c \in Results
  PROVE  /\ DOMAIN c.samples \subseteq Signals
         /\ \A s \in DOMAIN c.samples : c.samples[s] \in Nat
<1>1. c.samples \in Samples
  BY DEF Results
<1>2. PICK S \in SUBSET Signals : c.samples \in [S -> Levels]
  BY <1>1 DEF Samples
<1>3. Levels \subseteq Nat
  BY BoundAssumption DEF Levels
<1> QED
  BY <1>2, <1>3

\* What was counted stays counted: the process goes on, or starts again.
LEMMA CountedKept ==
  ASSUME IInv, IInv', [Next]_vars, NEW c \in Results, Counted(c, app)
  PROVE  Counted(c, app')
<1> USE DEF environment
<1>1. app' = app \/ app'.incarnation = app.incarnation + 1 \/ \E g \in Pollers : Collect(g)
  <2>1. ASSUME AppRestarts PROVE app'.incarnation = app.incarnation + 1
    BY <2>1 DEF AppRestarts
  <2>2. ASSUME NEW g \in Pollers, CallPollNow(g) \/ Step(g) PROVE app' = app \/ Collect(g)
    BY <2>2 DEF CallPollNow, Step, Lock, LoadPrevious, CollectProcessStartTime,
                DetectAppRun, Save, Reload
  <2>3. CASE LoadSuccessfulHistory \/ RetentionCleanup \/ Boot \/ EnableNoPoll \/ Exit
             \/ ClockMoves \/ UNCHANGED vars
    BY <2>3 DEF LoadSuccessfulHistory, RetentionCleanup, Boot, EnableNoPoll, Exit,
                ClockMoves, vars
  <2> QED
    BY <2>1, <2>2, <2>3 DEF Next
<1>2. /\ c.seen \in Nat /\ app.incarnation \in Nat
      /\ DOMAIN c.samples \subseteq Signals
      /\ \A s \in DOMAIN c.samples : c.samples[s] \in Nat
  BY ResultType, SampleType DEF IInv, TypeOK, EnvironmentOK, Incarnations
<1>3. \A s \in Signals : app.level[s] \in Nat /\ app'.level[s] \in Nat
  BY BoundAssumption DEF IInv, TypeOK, EnvironmentOK, Levels
<1>4. CASE app' = app
  BY <1>4
<1>5. CASE app'.incarnation = app.incarnation + 1
  BY <1>2, <1>5 DEF Counted
<1>6. ASSUME NEW g \in Pollers, Collect(g) PROVE Counted(c, app')
  <2>1. app' = app \/ (/\ app'.incarnation = app.incarnation
                       /\ \A s \in Signals : app.level[s] <= app'.level[s])
    BY <1>6, CollectFacts
  <2>2. CASE app' = app
    BY <2>2
  <2>3. CASE /\ app'.incarnation = app.incarnation
             /\ \A s \in Signals : app.level[s] <= app'.level[s]
    <3>1. ASSUME NEW s \in DOMAIN c.samples, c.samples[s] <= app.level[s]
          PROVE  c.samples[s] <= app'.level[s]
      <4>1. s \in Signals
        BY <1>2
      <4>2. app.level[s] <= app'.level[s] /\ app.level[s] \in Nat /\ app'.level[s] \in Nat
        BY <1>3, <2>3, <4>1
      <4> QED
        BY <1>2, <3>1, <4>2
    <3> QED
      BY <2>3, <3>1 DEF Counted
  <2> QED
    BY <2>1, <2>2, <2>3
<1> QED
  BY <1>1, <1>4, <1>5, <1>6

\* A new scrape follows whatever was counted before it.
LEMMA ScrapeFollows ==
  ASSUME IInv, IInv', NEW g \in Pollers, Collect(g), result'[g].ok,
         NEW c \in Results, Counted(c, app)
  PROVE  Follows(c, result'[g]) /\ Counted(result'[g], app')
<1>1. /\ result'[g].seen = app.incarnation /\ app'.incarnation = app.incarnation
      /\ DOMAIN result'[g].samples \subseteq Signals
      /\ \A s \in Signals : app.level[s] <= app'.level[s]
      /\ \A s \in DOMAIN result'[g].samples : result'[g].samples[s] = app'.level[s]
  BY CollectFacts
<1>2. /\ c.seen \in Nat /\ app.incarnation \in Nat
      /\ \A s \in DOMAIN c.samples : c.samples[s] \in Nat
  BY ResultType, SampleType DEF IInv, TypeOK, EnvironmentOK, Incarnations
<1>3. \A s \in Signals : app.level[s] \in Nat /\ app'.level[s] \in Nat
  BY BoundAssumption DEF IInv, TypeOK, EnvironmentOK, Levels
<1>4. Counted(result'[g], app')
  BY <1>1, <1>2, <1>3 DEF Counted
<1>5. ASSUME c.seen = app.incarnation,
             NEW s \in DOMAIN c.samples \cap DOMAIN result'[g].samples
      PROVE  c.samples[s] <= result'[g].samples[s]
  <2>1. c.samples[s] <= app.level[s] /\ c.samples[s] \in Nat
    BY <1>2, <1>5 DEF Counted
  <2>2. s \in Signals
    BY <1>1
  <2>3. /\ app.level[s] <= app'.level[s] /\ result'[g].samples[s] = app'.level[s]
        /\ app.level[s] \in Nat /\ app'.level[s] \in Nat
    BY <1>1, <1>3, <2>2
  <2> QED
    BY <2>1, <2>3
<1>6. Follows(c, result'[g])
  BY <1>1, <1>5 DEF Follows, Counted
<1> QED
  BY <1>4, <1>6

\* Observations stay in the order they were made in.
LEMMA StepObservations ==
  ASSUME IInv, IInv', Memory, ObservationsAreOrdered, [Next]_vars
  PROVE  ObservationsAreOrdered'
<1>1. \A p \in DOMAIN polls : p \in Nat /\ polls[p] \in Results /\ polls[p].seen \in Nat
  BY PollType, ResultType DEF IInv, TypeOK
<1>2. \A h \in Pollers : result[h] \in Results /\ result[h].seen \in Nat
  BY ResultType DEF IInv, TypeOK, WorkOK
<1>3. /\ \A p \in OkPolls : Counted(polls[p], app')
      /\ previous # NoSnapshot => Counted(previous.result, app')
      /\ \A h \in Pollers : pc[h] \in Carrying /\ result[h].ok => Counted(result[h], app')
  <2>1. previous.result \in Results
    BY DEF IInv, TypeOK, ViewOK, Snapshots
  <2> QED
    BY <1>1, <1>2, <2>1, CountedKept DEF ObservationsAreOrdered, OkPolls
<1>4. /\ \A p \in OkPolls' : Counted(polls'[p], app')
      /\ \A p, q \in OkPolls' : p < q => polls'[p].seen <= polls'[q].seen
      /\ \A h \in Pollers : pc[h] \in Carrying /\ result[h].ok =>
           \A p \in OkPolls' : polls'[p].seen <= result[h].seen
  <2>1. CASE TablesKept
    <3>1. OkPolls' \subseteq OkPolls /\ \A p \in OkPolls' : polls'[p] = polls[p]
      BY <2>1 DEF TablesKept, OkPolls
    <3> QED
      BY <1>3, <3>1 DEF ObservationsAreOrdered
  <2>2. ASSUME NEW g \in Pollers, NEW id \in 1..attempts, Stores(g, id)
        PROVE  /\ \A p \in OkPolls' : Counted(polls'[p], app')
               /\ \A p, q \in OkPolls' : p < q => polls'[p].seen <= polls'[q].seen
               /\ \A h \in Pollers : pc[h] \in Carrying /\ result[h].ok =>
                    \A p \in OkPolls' : polls'[p].seen <= result[h].seen
    <3>1. /\ id \in Nat /\ \A p \in DOMAIN polls : p < id
          /\ DOMAIN polls' = DOMAIN polls \cup {id}
          /\ polls'[id] = result[g] /\ \A p \in DOMAIN polls : polls'[p] = polls[p]
          /\ \A h \in Pollers \ {g} : pc[h] \in {"idle", "lock"}
      BY <2>2, SaveFacts DEF Stores
    <3>2. pc[g] \in Carrying /\ \A h \in Pollers : pc[h] \in Carrying => h = g
      BY <2>2, <3>1 DEF Stores, Carrying
    <3>3. \A p \in OkPolls' : \/ p \in OkPolls /\ polls'[p] = polls[p]
                              \/ p = id /\ result[g].ok /\ polls'[p] = result[g]
      BY <3>1 DEF OkPolls
    <3>4. result[g].ok => \A p \in OkPolls : polls[p].seen <= result[g].seen
      BY <3>2 DEF ObservationsAreOrdered
    <3>5. \A p \in OkPolls : p \in DOMAIN polls /\ p < id
      BY <3>1 DEF OkPolls
    <3>6. \A p \in OkPolls' : Counted(polls'[p], app')
      BY <1>3, <3>2, <3>3
    <3>7. ASSUME NEW p \in OkPolls', NEW q \in OkPolls', p < q
          PROVE  polls'[p].seen <= polls'[q].seen
      <4>1. CASE q \in OkPolls /\ polls'[q] = polls[q]
        <5>1. p # id
          BY <1>1, <3>1, <3>5, <3>7, <4>1
        <5> QED
          BY <3>3, <3>7, <4>1, <5>1 DEF ObservationsAreOrdered
      <4>2. CASE q = id /\ result[g].ok /\ polls'[q] = result[g]
        BY <1>2, <3>3, <3>4, <4>2
      <4> QED
        BY <3>3, <4>1, <4>2
    <3>8. result[g].ok => \A p \in OkPolls' : polls'[p].seen <= result[g].seen
      BY <1>2, <3>3, <3>4
    <3> QED
      BY <3>2, <3>6, <3>7, <3>8
  <2> QED
    BY <2>1, <2>2, StepTables
<1>5. previous' # NoSnapshot => Counted(previous'.result, app')
  BY <1>3, StepBaseline DEF Snapshot
<1>6. ASSUME NEW h \in Pollers, pc'[h] \in Carrying, result'[h].ok
      PROVE  /\ Counted(result'[h], app')
             /\ previous' # NoSnapshot => Follows(previous'.result, result'[h])
             /\ \A p \in OkPolls' : polls'[p].seen <= result'[h].seen
  <2>1. CASE Continues
    <3>1. /\ pc[h] \in Carrying /\ result[h].ok /\ previous' = previous
          /\ result'[h].seen = result[h].seen /\ result'[h].samples = result[h].samples
      BY <1>6, <2>1 DEF Continues, SameCollection
    <3>2. Counted(result[h], app') /\ (previous # NoSnapshot => Follows(previous.result, result[h]))
      BY <1>3, <3>1 DEF ObservationsAreOrdered
    <3> QED
      BY <1>4, <3>1, <3>2 DEF Counted, Follows
  <2>2. ASSUME NEW g \in Pollers, Collect(g)
        PROVE  /\ Counted(result'[h], app')
               /\ previous' # NoSnapshot => Follows(previous'.result, result'[h])
               /\ \A p \in OkPolls' : polls'[p].seen <= result'[h].seen
    <3>1. h = g /\ UNCHANGED <<polls, previous>>
      BY <1>6, <2>2, CollectFacts
    <3>2. NoResult \in Results /\ previous.result \in Results
      BY NoResultType DEF IInv, TypeOK, ViewOK, Snapshots
    <3>3. ASSUME NEW c \in Results, Counted(c, app)
          PROVE  Counted(result'[h], app') /\ Follows(c, result'[h])
      BY <1>6, <2>2, <3>1, <3>3, ScrapeFollows
    <3>4. Counted(NoResult, app)
      BY BoundAssumption
         DEF NoResult, NoSamples, Counted, IInv, TypeOK, EnvironmentOK, Incarnations
    <3>5. OkPolls' = OkPolls /\ \A p \in OkPolls : polls[p] \in Results /\ Counted(polls[p], app)
      BY <1>1, <3>1 DEF OkPolls, ObservationsAreOrdered
    <3>6. \A p \in OkPolls : polls[p].seen <= result'[h].seen
      BY <3>3, <3>5 DEF Follows
    <3> QED
      BY <3>1, <3>2, <3>3, <3>4, <3>5, <3>6 DEF ObservationsAreOrdered
  <2>3. ~NobodyCarries'
    BY <1>6 DEF NobodyCarries
  <2> QED
    BY <2>1, <2>2, <2>3, StepKinds, BootFacts DEF Fails, Ends, Publishes
<1> QED
  BY <1>4, <1>5, <1>6 DEF ObservationsAreOrdered

\* With one document per scrape, a start time is that of the process observed.
LEMMA StepStartsAreSeen ==
  ASSUME IInv, OneDocument, StartsAreSeen, [Next]_vars
  PROVE  StartsAreSeen'
<1> USE DEF environment, process, database, view
<1> DEFINE Seen(h) == pc'[h] # "start_time" /\ result'[h].start \in {0, result'[h].seen}
<1>1. ASSUME NEW h \in Pollers, pc'[h] # "start_time", result'[h] \in {result[h], NoResult}
      PROVE  Seen(h)
  <2>1. CASE result'[h] = result[h]
    BY <1>1, <2>1 DEF StartsAreSeen
  <2>2. CASE result'[h] = NoResult
    <3>1. NoResult.start = 0
      BY DEF NoResult
    <3> QED
      BY <1>1, <2>2, <3>1
  <2> QED
    BY <1>1, <2>1, <2>2
<1>2. \A h \in Pollers : pc[h] # "start_time"
  BY DEF StartsAreSeen
<1>3. ASSUME NEW g \in Pollers, NEW s, Return(g, s) PROVE \A h \in Pollers : Seen(h)
  <2>1. \A h \in Pollers :
          result'[h] \in {result[h], NoResult} /\ pc'[h] \in {pc[h], "idle"}
    BY <1>3 DEF Return, IInv, TypeOK, WorkOK, ControlOK
  <2> QED
    BY <1>1, <1>2, <2>1
<1>4. ASSUME NEW g \in Pollers, NEW label, Goto(g, label), label # "start_time", UNCHANGED result
      PROVE  \A h \in Pollers : Seen(h)
  BY <1>1, <1>2, <1>4 DEF Goto, IInv, TypeOK, ControlOK
<1>5. ASSUME NEW g \in Pollers, Collect(g) PROVE \A h \in Pollers : Seen(h)
  <2>1. Seen(g)
    BY <1>5, CollectFacts
  <2>2. \A h \in Pollers : h # g => result'[h] = result[h] /\ pc'[h] = pc[h]
    BY <1>5 DEF Collect, CollectFails, CollectSamples, Goto, IInv, TypeOK, ControlOK, WorkOK
  <2> QED
    BY <1>1, <1>2, <2>1, <2>2
<1>6. ASSUME NEW g \in Pollers, DetectAppRun(g) PROVE \A h \in Pollers : Seen(h)
  <2>1. ASSUME NEW id, Goto(g, "save"),
               result' = [result EXCEPT ![g].run = id,
                                        ![g].restart = RestartDetected(result[g])]
        PROVE  \A h \in Pollers : Seen(h)
    <3>1. \A h \in Pollers : result'[h].start = result[h].start /\ result'[h].seen = result[h].seen
      BY <2>1 DEF IInv, TypeOK, WorkOK, Results
    <3>2. \A h \in Pollers : pc'[h] \in {pc[h], "save"}
      BY <2>1 DEF Goto, IInv, TypeOK, ControlOK
    <3> QED
      BY <1>2, <3>1, <3>2 DEF StartsAreSeen
  <2> QED
    BY <1>3, <1>6, <2>1 DEF DetectAppRun
<1>7. ASSUME NEW g \in Pollers, CallPollNow(g) \/ Lock(g) \/ LoadPrevious(g) \/ Save(g) \/ Reload(g)
      PROVE  \A h \in Pollers : Seen(h)
  <2>1. CASE CallPollNow(g) \/ Lock(g)
    BY <1>1, <1>2, <2>1 DEF CallPollNow, Lock, IInv, TypeOK, ControlOK
  <2>2. CASE LoadPrevious(g) \/ Save(g) \/ Reload(g)
    BY <1>3, <1>4, <2>2 DEF LoadPrevious, Save, Reload
  <2> QED
    BY <1>7, <2>1, <2>2
<1>8. ASSUME \/ LoadSuccessfulHistory \/ RetentionCleanup \/ Boot \/ EnableNoPoll
             \/ AppRestarts \/ ClockMoves \/ UNCHANGED vars
      PROVE  \A h \in Pollers : Seen(h)
  <2>1. \A h \in Pollers : pc'[h] \in {pc[h], "lock"} /\ UNCHANGED result
    BY <1>8 DEF LoadSuccessfulHistory, RetentionCleanup, Boot, EnableNoPoll, AppRestarts,
                ClockMoves, vars, IInv, TypeOK, ControlOK
  <2> QED
    BY <1>1, <1>2, <2>1
<1>9. ASSUME Exit PROVE \A h \in Pollers : Seen(h)
  BY <1>1, <1>9 DEF Exit
<1>10. \A h \in Pollers : Seen(h)
  BY <1>2, <1>5, <1>6, <1>7, <1>8, <1>9 DEF Next, Step, CollectProcessStartTime
<1>11. ASSUME NEW p \in DOMAIN polls' PROVE polls'[p].start \in {0, polls'[p].seen}
  <2>1. \/ p \in DOMAIN polls /\ polls'[p] = polls[p]
        \/ \E g \in Pollers : polls'[p] = result[g]
    <3>1. UNCHANGED polls \/ DeletePollsBefore
            \/ \E g \in Pollers, id \in 1..attempts : polls' = Insert(polls, id, result[g])
      BY DEF Next, Step, LoadSuccessfulHistory, CallPollNow, Lock, LoadPrevious, Collect,
             CollectProcessStartTime, DetectAppRun, Save, Reload, RetentionCleanup, Boot,
             EnableNoPoll, Exit, AppRestarts, ClockMoves, vars
    <3> QED
      BY <3>1 DEF DeletePollsBefore, Retained, Insert
  <2> QED
    BY <2>1 DEF StartsAreSeen
<1> QED
  BY <1>10, <1>11 DEF StartsAreSeen

\* Nothing is stored or carried at first.
LEMMA InitStartsAreSeen == Init => StartsAreSeen
<1>1. NoResult.start = 0
  BY DEF NoResult
<1> QED
  BY <1>1 DEF Init, StartsAreSeen

\* Deltas never cross a restart of the monitored process when one response
\* carries its counters and its start time: polls of one run that report a start
\* time report that of their run, and it is the one of the process whose
\* counters were read, through failed transactions, failed polls and crashes,
\* and whatever the wall clock does.
THEOREM DeltasAreOfOneProcess ==
  ASSUME OneDocument
  PROVE  Spec => []DeltasStayInOneProcess
<1>1. Init => IInv /\ StartsAreSeen
  BY InitIInv, InitStartsAreSeen
<1>2. IInv /\ StartsAreSeen /\ [Next]_vars => (IInv /\ StartsAreSeen)'
  BY StepIInv, StepStartsAreSeen
<1>3. IInv /\ StartsAreSeen => DeltasStayInOneProcess
  BY DEF DeltasStayInOneProcess, StartsAreSeen, OkPolls, IInv, Attribution, PollsAttributed,
         Attributed
<1> QED
  BY <1>1, <1>2, <1>3, PTL DEF Spec

-----------------------------------------------------------------------------
(* The order of app runs.                                                  *)

\* What a collection about to be stored is compared with is the newest stored
\* success, unless it opens a run because that could not be known.
LEMMA SavedAfterBaseline ==
  ASSUME IInv, Memory, NEW g \in Pollers, pc[g] = "save", OkPolls # {},
         "reload" \notin Faults \/ (Caddy /\ ~NeedsNewRun(result[g]))
  PROVE  /\ previous # NoSnapshot
         /\ previous.id \in OkPolls /\ previous = Snapshot(previous.id)
         /\ \A p \in OkPolls : p <= previous.id
<1>1. SettledOk = OkPolls
  BY NothingUnread DEF IInv, TypeOK, InPoll, Labels
<1>2. previous # NoSnapshot
  BY <1>1 DEF Memory, BaselineIsNewest, Carrying
<1>3. Current
  BY DEF Current, NeedsNewRun, IInv, TypeOK, ViewOK, Statuses
<1> QED
  BY <1>1, <1>2, <1>3 DEF Memory, BaselineIsNewest

\* Without a decrease between two observations of one process, and without a
\* new start time, nothing speaks of a restart.
LEMMA SameProcessSameRun ==
  ASSUME NEW r, Follows(previous.result, r), previous.result.seen = r.seen,
         previous.result \in Results, r \in Results, ~ProcessStartChanged(r)
  PROVE  ~RestartDetected(r)
<1>1. \A s : ~Decreased(s, previous.result.samples, r.samples)
  <2>1. \A s \in DOMAIN previous.result.samples \cap DOMAIN r.samples :
          /\ previous.result.samples[s] <= r.samples[s]
          /\ previous.result.samples[s] \in Nat /\ r.samples[s] \in Nat
    BY SampleType DEF Follows
  <2> QED
    BY <2>1 DEF Decreased
<1>2. DecreasedCoreCounters(previous.result.samples, r.samples) = {}
  BY <1>1 DEF DecreasedCoreCounters
<1>3. CoreCounters # {}
  BY DEF CoreCounters
<1> QED
  BY <1>1, <1>2, <1>3 DEF RestartDetected

\* A collection enters a run that holds polls only as the continuation of the
\* newest of them.
LEMMA SharedRunIsKept ==
  ASSUME IInv, Memory, Opening, Observing, RunOrder, Caddy \/ "reload" \notin Faults,
         NEW g \in Pollers, pc[g] = "save", result[g].ok,
         NEW p \in OkPolls, polls[p].run = result[g].run
  PROVE  /\ ~NeedsNewRun(result[g])
         /\ previous.id \in OkPolls /\ previous = Snapshot(previous.id)
         /\ \A q \in OkPolls : q <= previous.id
<1> DEFINE r == result[g]
<1>1. p \in DOMAIN polls /\ p \in Nat
  BY PollType DEF OkPolls, IInv, TypeOK
<1>2. ASSUME NeedsNewRun(r) PROVE FALSE
  <2>1. runs[r.run].start = r.start /\ r.start # 0
    BY <1>1, <1>2 DEF Opening, CarriedRun
  <2>2. ~Caddy /\ r.start = r.seen
    BY <2>1 DEF IInv, Attribution, WorkAttributed, Observing, StartsAreSeen
  <2>3. /\ previous # NoSnapshot
        /\ previous.id \in OkPolls /\ previous = Snapshot(previous.id)
        /\ \A q \in OkPolls : q <= previous.id
    BY <2>2, SavedAfterBaseline
  <2> DEFINE b == previous.id
  <2>4. /\ b \in Nat /\ polls[b] \in Results /\ r \in Results
        /\ r.seen \in Nat /\ r.start \in Nat /\ polls[b].seen \in Nat
    BY <2>3, PollType, ResultType DEF OkPolls, IInv, TypeOK, WorkOK
  <2>5. /\ polls[b].seen <= r.seen /\ polls[b].run # 0
        /\ runs[polls[b].run].start <= polls[b].seen
    BY <2>3 DEF Observing, ObservationsAreOrdered, RunOrder, RunsStartBefore, Carrying
  <2>6. polls[b].run = r.run
    <3> SUFFICES ASSUME polls[b].run # r.run PROVE FALSE
      OBVIOUS
    <3>1. p < b
      BY <1>1, <2>3, <2>4
    <3>2. runs[polls[p].run].start < polls[b].seen
      BY <2>1, <2>3, <3>1 DEF RunOrder, RunsAreLeftBehind
    <3> QED
      BY <2>1, <2>2, <2>4, <2>5, <3>2
  <2>7. /\ previous.result = polls[b] /\ previous.runStart = r.start
        /\ HasRun(previous)
    BY <2>1, <2>3, <2>5, <2>6 DEF Snapshot, HasRun
  <2>8. previous.result.seen = r.seen
    BY <2>1, <2>2, <2>4, <2>5, <2>6, <2>7
  <2>9. Follows(previous.result, r)
    BY <2>3 DEF Observing, ObservationsAreOrdered, Carrying
  <2>10. ~RestartDetected(r)
    BY <2>4, <2>7, <2>8, <2>9, SameProcessSameRun DEF ProcessStartChanged
  <2> QED
    BY <1>2, <2>1, <2>2, <2>7, <2>10 DEF NeedsNewRun
<1>3. OkPolls # {}
  OBVIOUS
<1> QED
  BY <1>2, <1>3, SavedAfterBaseline

\* Dropping the oldest polls leaves the rest in order.
LEMMA OrderSurvivesCleanup ==
  ASSUME IInv, IInv', RunOrder, TablesKept
  PROVE  /\ \A p \in OkPolls' : polls'[p].run # 0 /\ runs'[polls'[p].run].start <= polls'[p].seen
         /\ RunsAreLeftBehind' /\ EventsOpenRuns' /\ StartChangesAreEvents'
         /\ RunsAreContiguous' /\ NoMaskedReset'
<1>1. /\ OkPolls' \subseteq OkPolls
      /\ \A p \in OkPolls' : polls'[p] = polls[p]
      /\ DOMAIN polls' \ OkPolls' \subseteq DOMAIN polls \ OkPolls
      /\ \A p \in DOMAIN polls' : polls'[p] = polls[p]
  BY DEF TablesKept, OkPolls
<1>2. \A p \in OkPolls' : /\ polls[p].run # 0
                          /\ runs'[polls[p].run].start = runs[polls[p].run].start
                          /\ runs[polls[p].run].start <= polls[p].seen
  BY <1>1 DEF TablesKept, RunOrder, RunsStartBefore, OkPolls, IInv, Attribution,
              PollsAttributed, Attributed
<1>3. ASSUME NEW p \in OkPolls', NEW q \in OkPolls', Successive(p, q)' PROVE Successive(p, q)
  <2>1. p < q /\ \A o \in OkPolls' : o <= p \/ q <= o
    BY <1>3 DEF Successive
  <2> SUFFICES ASSUME NEW o \in OkPolls PROVE o <= p \/ q <= o
    BY <1>1, <2>1 DEF Successive
  <2>2. CASE o \in DOMAIN polls'
    <3>1. o \in OkPolls'
      BY <1>1, <2>2 DEF OkPolls
    <3> QED
      BY <2>1, <3>1
  <2>3. CASE o \notin DOMAIN polls'
    <3>1. o \in DOMAIN polls /\ p \in DOMAIN polls' /\ ~(p <= o)
      BY <2>3 DEF OkPolls, TablesKept
    <3>2. o \in Nat /\ p \in Nat
      BY <1>1, <3>1, PollType DEF IInv, TypeOK, TablesKept
    <3> QED
      BY <3>1, <3>2
  <2> QED
    BY <2>2, <2>3
<1>4. RunsAreLeftBehind' /\ EventsOpenRuns' /\ RunsAreContiguous'
  BY <1>1, <1>2 DEF RunOrder, RunsAreLeftBehind, EventsOpenRuns, RunsAreContiguous
<1>5. StartChangesAreEvents'
  BY <1>1, <1>3 DEF RunOrder, StartChangesAreEvents
<1>6. NoMaskedReset'
  BY <1>1, <1>3 DEF RunOrder, NoMaskedReset
<1> QED
  BY <1>1, <1>2, <1>4, <1>5, <1>6

\* Nothing decreases unnoticed between the baseline and a collection that
\* stays in its run.
LEMMA KeptRunMasksNothing ==
  ASSUME IInv, Memory, Attempting, Opening, NEW g \in Pollers, pc[g] = "save", result[g].ok,
         ~NeedsNewRun(result[g])
  PROVE  LET before == previous.result.samples
             drops  == DecreasedCoreCounters(before, result[g].samples)
         IN  /\ ~Decreased("process_uptime", before, result[g].samples)
             /\ drops # CoreCounters
             /\ drops = {} \/ \A f \in DOMAIN polls \ OkPolls :
                                previous.id < f => polls[f].boot # result[g].boot
<1> DEFINE before == previous.result.samples
           after == result[g].samples
<1>1. /\ ~RestartDetected(result[g]) /\ HasRun(previous)
      /\ Caddy => status.lastSuccessAt # 0 /\ ~(status.failures > 0) /\ ~result[g].break
  BY DEF NeedsNewRun
<1>2. status.failures \in Nat
  BY DEF IInv, TypeOK, ViewOK, Statuses
<1>3. mode = "polling"
  BY BusyIsPolling DEF Memory
<1>4. CASE Caddy
  <2>1. status.failures = 0 /\ status.lastSuccessAt # 0 /\ ~result[g].break
    BY <1>1, <1>2, <1>4
  <2>2. \A s \in DOMAIN before : ~Decreased(s, before, after)
    BY <1>3, <1>4, <2>1 DEF Attempting, CaddyBaseline, Carrying
  <2>3. \A s : ~Decreased(s, before, after)
    BY <2>2 DEF Decreased
  <2> QED
    BY <2>3 DEF DecreasedCoreCounters, CoreCounters
<1>5. CASE ~Caddy
  <2>1. /\ ~Decreased("process_uptime", before, after)
        /\ DecreasedCoreCounters(before, after) # CoreCounters
        /\ status.failures = 0 \/ DecreasedCoreCounters(before, after) = {}
    BY <1>1, <1>2, <1>5 DEF RestartDetected
  <2>2. Settled = DOMAIN polls
    BY NothingUnread DEF IInv, TypeOK, InPoll, Labels
  <2>3. result[g].boot = boots
    BY DEF Attempting, AttemptsAreOfBoots, Carrying
  <2> QED
    BY <1>3, <2>1, <2>2, <2>3 DEF Attempting, FailuresAreCounted
<1> QED
  BY <1>4, <1>5

\* A collection is in a run that began no later, and outside a run it leaves
\* only when its process began after that run did.
LEMMA CollectionFollowsRuns ==
  ASSUME IInv, Memory, Opening, Observing, RunOrder, Caddy \/ "reload" \notin Faults,
         NEW g \in Pollers, pc[g] = "save", result[g].ok
  PROVE  /\ runs[result[g].run].start <= result[g].seen
         /\ \A p \in OkPolls :
              polls[p].run # result[g].run /\ runs[polls[p].run].start # 0 =>
                runs[polls[p].run].start < result[g].seen
<1> DEFINE r == result[g]
<1>1. r \in Results /\ r.seen \in Nat /\ r.start \in Nat /\ r.start \in {0, r.seen}
  BY ResultType DEF IInv, TypeOK, WorkOK, Observing, StartsAreSeen
<1>2. ASSUME previous # NoSnapshot
      PROVE  /\ previous.runStart <= previous.result.seen /\ HasRun(previous)
             /\ previous.result.run \in DOMAIN runs
             /\ previous.runStart = runs[previous.result.run].start
             /\ Follows(previous.result, r) /\ previous.result.seen <= r.seen
             /\ previous.result \in Results
             /\ previous.runStart \in Nat /\ previous.result.seen \in Nat
  <2>1. previous.result \in Results /\ previous.runStart \in Incarnations
    BY DEF IInv, TypeOK, ViewOK, Snapshots
  <2>2. previous.runStart \in Nat /\ previous.result.seen \in Nat
    BY <2>1, ResultType, BoundAssumption DEF Incarnations
  <2>3. HasRun(previous) /\ previous.runStart <= previous.result.seen
    BY <1>2 DEF RunOrder, RunsStartBefore
  <2>4. Follows(previous.result, r)
    BY <1>2 DEF Observing, ObservationsAreOrdered, Carrying
  <2> QED
    BY <2>1, <2>2, <2>3, <2>4 DEF Follows, IInv, Attribution, KnowsItsRun
<1>3. runs[r.run].start <= r.seen
  <2>1. CASE NeedsNewRun(r)
    BY <1>1, <2>1 DEF Opening, CarriedRun
  <2>2. CASE ~NeedsNewRun(r)
    <3>1. r.run = previous.result.run /\ previous # NoSnapshot
      BY <2>2 DEF Opening, CarriedRun, NeedsNewRun, HasRun
    <3> QED
      BY <1>1, <1>2, <3>1
  <2> QED
    BY <2>1, <2>2
<1>4. ASSUME NEW p \in OkPolls, polls[p].run # r.run, runs[polls[p].run].start # 0
      PROVE  runs[polls[p].run].start < r.seen
  <2>1. ~Caddy
    BY <1>4 DEF Opening, RunsAreOfTarget, RunOrder, RunsStartBefore, OkPolls, IInv,
                Attribution, PollsAttributed, Attributed
  <2>2. /\ previous # NoSnapshot
        /\ previous.id \in OkPolls /\ previous = Snapshot(previous.id)
        /\ \A q \in OkPolls : q <= previous.id
    BY <1>4, <2>1, SavedAfterBaseline
  <2> DEFINE b == previous.id
  <2>3. previous.result = polls[b] /\ b \in Nat /\ p \in Nat
    BY <2>2, PollType DEF Snapshot, OkPolls, IInv, TypeOK
  <2>4. runs[polls[p].run].start \in Nat
    BY BoundAssumption
       DEF Incarnations, RunRows, RunOrder, RunsStartBefore, OkPolls, IInv, TypeOK, TablesOK,
           Attribution, PollsAttributed, Attributed
  <2>5. CASE polls[b].run # polls[p].run
    <3>1. p < b
      BY <2>2, <2>3, <2>5
    <3>2. runs[polls[p].run].start < polls[b].seen
      BY <1>4, <2>2, <2>5, <3>1 DEF RunOrder, RunsAreLeftBehind
    <3> QED
      BY <1>1, <1>2, <2>2, <2>3, <2>4, <3>2
  <2>6. CASE polls[b].run = polls[p].run
    <3>1. previous.runStart = runs[polls[p].run].start /\ previous.runStart # 0
      BY <1>2, <1>4, <2>2, <2>3, <2>6
    <3>2. NeedsNewRun(r)
      BY <1>4, <2>3, <2>6 DEF Opening, CarriedRun
    <3>3. RestartDetected(r)
      BY <1>2, <2>1, <2>2, <3>1, <3>2 DEF NeedsNewRun
    <3>4. CASE ProcessStartChanged(r)
      <4>1. r.start = r.seen /\ r.start # previous.runStart
        BY <1>1, <3>4 DEF ProcessStartChanged
      <4> QED
        BY <1>1, <1>2, <2>2, <3>1, <4>1
    <3>5. CASE ~ProcessStartChanged(r)
      <4>1. previous.result.seen # r.seen
        BY <1>1, <1>2, <2>2, <3>3, <3>5, SameProcessSameRun
      <4> QED
        BY <1>1, <1>2, <2>2, <3>1, <4>1
    <3> QED
      BY <3>4, <3>5
  <2> QED
    BY <2>5, <2>6
<1> QED
  BY <1>3, <1>4

\* A snapshot that names a run is one.
LEMMA NamesItsRun ==
  ASSUME NEW s, s.result.run # 0
  PROVE  HasRun(s)
<1>1. NoSnapshot.result.run = 0
  BY DEF NoSnapshot, NoResult
<1> QED
  BY <1>1 DEF HasRun

\* A collection that is stored comes last in the order of runs.
LEMMA OrderExtended ==
  ASSUME IInv, IInv', Memory, Attempting, Opening, Observing, RunOrder,
         Caddy \/ "reload" \notin Faults,
         NEW g \in Pollers, NEW id \in 1..attempts, Stores(g, id)
  PROVE  /\ \A p \in OkPolls' : polls'[p].run # 0 /\ runs'[polls'[p].run].start <= polls'[p].seen
         /\ RunsAreLeftBehind' /\ EventsOpenRuns' /\ StartChangesAreEvents'
         /\ RunsAreContiguous' /\ NoMaskedReset'
<1> DEFINE r == result[g]
<1>1. /\ pc[g] = "save" /\ UNCHANGED <<runs, previous, status, result>>
      /\ id \in Nat /\ \A p \in DOMAIN polls : p < id
      /\ DOMAIN polls' = DOMAIN polls \cup {id}
      /\ polls'[id] = r /\ \A p \in DOMAIN polls : polls'[p] = polls[p]
  BY SaveFacts DEF Stores, view
<1>2. /\ OkPolls \subseteq OkPolls'
      /\ \A q \in OkPolls' : \/ q \in OkPolls /\ q # id /\ polls'[q] = polls[q]
                             \/ q = id /\ r.ok /\ polls'[q] = r
      /\ \A q \in OkPolls : q \in DOMAIN polls /\ q \in Nat /\ q < id
      /\ \A q \in OkPolls : polls'[q] = polls[q]
  BY <1>1, PollType DEF OkPolls, IInv, TypeOK
<1>3. \A p \in OkPolls', q \in OkPolls : p < q => p \in OkPolls
  BY <1>1, <1>2
<1>4. \A p \in OkPolls', q \in OkPolls : Successive(p, q)' => Successive(p, q)
  BY <1>2, <1>3 DEF Successive
<1>5. \A p \in OkPolls : polls[p].run # 0 /\ runs[polls[p].run].start <= polls[p].seen
  BY DEF RunOrder, RunsStartBefore
<1>6. ASSUME r.ok
      PROVE  /\ r.run # 0 /\ runs[r.run].start <= r.seen
             /\ \A p \in OkPolls : polls[p].run # r.run /\ runs[polls[p].run].start # 0 =>
                                     runs[polls[p].run].start < r.seen
             /\ r.restart <=> RestartDetected(r)
  BY <1>1, <1>6, CollectionFollowsRuns DEF Opening, CarriedRun
<1>7. ASSUME r.ok, NEW p \in OkPolls, polls[p].run = r.run
      PROVE  /\ ~NeedsNewRun(r) /\ ~r.restart
             /\ previous.id \in OkPolls /\ previous = Snapshot(previous.id)
             /\ \A q \in OkPolls : q <= previous.id
  BY <1>1, <1>6, <1>7, SharedRunIsKept DEF NeedsNewRun
<1>8. ASSUME NEW p \in OkPolls, Successive(p, id)' PROVE \A q \in OkPolls : q <= p
  <2> SUFFICES ASSUME NEW q \in OkPolls PROVE q <= p
    OBVIOUS
  <2>1. q <= p \/ id <= q
    BY <1>2, <1>8 DEF Successive
  <2> QED
    BY <1>1, <1>2, <2>1
<1>9. \A p \in OkPolls' : polls'[p].run # 0 /\ runs'[polls'[p].run].start <= polls'[p].seen
  BY <1>1, <1>2, <1>5, <1>6
<1>10. RunsAreLeftBehind'
  <2> SUFFICES ASSUME NEW p \in OkPolls', NEW q \in OkPolls', p < q,
                      polls'[p].run # polls'[q].run, runs'[polls'[p].run].start # 0
               PROVE  runs'[polls'[p].run].start < polls'[q].seen
    BY DEF RunsAreLeftBehind
  <2>1. CASE q \in OkPolls
    BY <1>1, <1>2, <1>3, <2>1 DEF RunOrder, RunsAreLeftBehind
  <2>2. CASE q = id
    <3>1. p \in OkPolls
      BY <1>1, <1>2, <2>2
    <3> QED
      BY <1>1, <1>2, <1>6, <2>2, <3>1
  <2> QED
    BY <1>2, <2>1, <2>2
<1>11. EventsOpenRuns'
  <2> SUFFICES ASSUME NEW p \in OkPolls', NEW q \in OkPolls', p < q, polls'[q].restart
               PROVE  polls'[p].run # polls'[q].run
    BY DEF EventsOpenRuns
  <2>1. CASE q \in OkPolls
    BY <1>1, <1>2, <1>3, <2>1 DEF RunOrder, EventsOpenRuns
  <2>2. CASE q = id
    <3>1. p \in OkPolls
      BY <1>1, <1>2, <2>2
    <3> QED
      BY <1>1, <1>2, <1>7, <2>2, <3>1
  <2> QED
    BY <1>2, <2>1, <2>2
<1>12. StartChangesAreEvents'
  <2> SUFFICES ASSUME NEW p \in OkPolls', NEW q \in OkPolls', Successive(p, q)',
                      polls'[p].start # 0, polls'[q].start # 0, polls'[p].start # polls'[q].start
               PROVE  polls'[q].restart
    BY DEF StartChangesAreEvents
  <2>1. CASE q \in OkPolls
    BY <1>2, <1>3, <1>4, <2>1 DEF RunOrder, StartChangesAreEvents, Successive
  <2>2. CASE q = id
    <3>1. p \in OkPolls /\ polls'[p] = polls[p] /\ polls'[q] = r /\ r.ok
      BY <1>1, <1>2, <2>2 DEF Successive
    <3>2. \A o \in OkPolls : o <= p
      BY <1>8, <2>2, <3>1
    <3>3. ~Caddy
      BY <3>1 DEF IInv, Attribution, WorkAttributed
    <3>4. previous.id \in OkPolls /\ previous = Snapshot(previous.id)
          /\ \A o \in OkPolls : o <= previous.id
      BY <1>1, <3>1, <3>3, SavedAfterBaseline
    <3>5. previous.id = p
      BY <1>2, <3>1, <3>2, <3>4
    <3>6. /\ previous.result = polls[p] /\ previous.result.run # 0
          /\ previous.runStart = runs[polls[p].run].start
      BY <1>5, <3>1, <3>4, <3>5 DEF Snapshot
    <3>7. runs[polls[p].run].start = polls[p].start
      BY <3>1 DEF IInv, Attribution, PollsAttributed, Attributed, OkPolls
    <3>8. HasRun(previous)
      BY <3>6, NamesItsRun
    <3> QED
      BY <1>6, <3>1, <3>3, <3>6, <3>7, <3>8 DEF RestartDetected, ProcessStartChanged
  <2> QED
    BY <1>2, <2>1, <2>2
<1>13. RunsAreContiguous'
  <2> SUFFICES ASSUME NEW p \in OkPolls', NEW q \in OkPolls', NEW o \in OkPolls',
                      p < o, o < q, polls'[p].run = polls'[q].run
               PROVE  polls'[o].run = polls'[p].run
    BY DEF RunsAreContiguous
  <2>1. CASE q \in OkPolls
    <3>1. o \in OkPolls /\ p \in OkPolls
      BY <1>3, <2>1
    <3> QED
      BY <1>2, <2>1, <3>1 DEF RunOrder, RunsAreContiguous
  <2>2. CASE q = id
    <3>1. o \in OkPolls /\ polls'[q] = r /\ r.ok
      BY <1>1, <1>2, <2>2
    <3>2. p \in OkPolls
      BY <1>3, <3>1
    <3>3. /\ ~NeedsNewRun(r) /\ previous.id \in OkPolls /\ o <= previous.id
          /\ previous = Snapshot(previous.id)
      BY <1>2, <1>7, <3>1, <3>2
    <3>4. polls[previous.id].run = r.run
      BY <1>1, <3>1, <3>3 DEF Opening, CarriedRun, Snapshot
    <3>5. o = previous.id \/ o < previous.id
      BY <1>2, <3>1, <3>3
    <3> QED
      BY <1>2, <3>1, <3>2, <3>3, <3>4, <3>5 DEF RunOrder, RunsAreContiguous
  <2> QED
    BY <1>2, <2>1, <2>2
<1>14. NoMaskedReset'
  <2> SUFFICES ASSUME NEW p \in OkPolls', NEW q \in OkPolls', Successive(p, q)',
                      polls'[p].run = polls'[q].run
               PROVE  LET drops == DecreasedCoreCounters(polls'[p].samples, polls'[q].samples)
                      IN  /\ ~Decreased("process_uptime", polls'[p].samples, polls'[q].samples)
                          /\ drops # CoreCounters
                          /\ drops = {} \/ \A f \in DOMAIN polls' \ OkPolls' :
                                    p < f /\ f < q => polls'[f].boot # polls'[q].boot
    BY DEF NoMaskedReset
  <2>1. p < q
    BY DEF Successive
  <2>2. \A f \in DOMAIN polls' \ OkPolls' :
          f < q => f \in DOMAIN polls \ OkPolls /\ polls'[f] = polls[f]
    <3>1. \A f \in DOMAIN polls' \ OkPolls' : f < q => f # id
      BY <1>1, <1>2
    <3> QED
      BY <1>1, <1>2, <3>1
  <2>3. CASE q \in OkPolls
    <3>1. p \in OkPolls /\ Successive(p, q) /\ polls'[p] = polls[p] /\ polls'[q] = polls[q]
      BY <1>2, <1>3, <1>4, <2>1, <2>3
    <3> QED
      BY <2>2, <2>3, <3>1 DEF RunOrder, NoMaskedReset
  <2>4. CASE q = id
    <3>1. p \in OkPolls /\ polls'[p] = polls[p] /\ polls'[q] = r /\ r.ok
      BY <1>1, <1>2, <2>1, <2>4
    <3>2. /\ ~NeedsNewRun(r) /\ previous.id \in OkPolls
          /\ \A o \in OkPolls : o <= previous.id
          /\ previous = Snapshot(previous.id)
      BY <1>7, <3>1
    <3>3. \A o \in OkPolls : o <= p
      BY <1>8, <2>4, <3>1
    <3>4. previous.id = p /\ previous.result = polls[p]
      <4>1. previous.id = p
        BY <1>2, <3>1, <3>2, <3>3
      <4> QED
        BY <3>2, <4>1 DEF Snapshot
    <3> QED
      BY <1>1, <2>2, <3>1, <3>2, <3>4, KeptRunMasksNothing
  <2> QED
    BY <1>2, <2>3, <2>4
<1> QED
  BY <1>9, <1>10, <1>11, <1>12, <1>13, <1>14

\* Every step keeps the runs in order.
LEMMA StepRunOrder ==
  ASSUME IInv, IInv', Memory, Attempting, Opening, Observing, RunOrder,
         Caddy \/ "reload" \notin Faults, [Next]_vars
  PROVE  RunOrder'
<1>1. /\ \A p \in OkPolls' : polls'[p].run # 0 /\ runs'[polls'[p].run].start <= polls'[p].seen
      /\ RunsAreLeftBehind' /\ EventsOpenRuns' /\ StartChangesAreEvents'
      /\ RunsAreContiguous' /\ NoMaskedReset'
  BY StepTables, OrderSurvivesCleanup, OrderExtended
<1>2. previous' # NoSnapshot => HasRun(previous)' /\ previous'.runStart <= previous'.result.seen
  <2>1. CASE previous' = previous
    BY <2>1 DEF RunOrder, RunsStartBefore, HasRun
  <2>2. ASSUME UNCHANGED <<polls, runs>>, NEW p \in OkPolls, previous' = Snapshot(p)
        PROVE  HasRun(previous)' /\ previous'.runStart <= previous'.result.seen
    <3>1. previous'.result = polls[p] /\ polls[p].run # 0
          /\ previous'.runStart = runs[polls[p].run].start
      BY <2>2 DEF Snapshot, RunOrder, RunsStartBefore
    <3>2. HasRun(previous')
      BY <3>1, NamesItsRun
    <3> QED
      BY <3>1, <3>2 DEF HasRun, RunOrder, RunsStartBefore
  <2> QED
    BY <2>1, <2>2, StepBaseline
<1> QED
  BY <1>1, <1>2 DEF RunOrder, RunsStartBefore

\* There are no runs at first.
LEMMA InitOrder == Init => Attempting /\ Opening /\ Observing /\ RunOrder
<1> SUFFICES ASSUME Init PROVE Attempting /\ Opening /\ Observing /\ RunOrder
  OBVIOUS
<1>1. /\ DOMAIN polls = {} /\ DOMAIN runs = {} /\ previous = NoSnapshot /\ mode = "down"
      /\ \A g \in Pollers : pc[g] = "idle"
  BY DEF Init
<1>2. OkPolls = {}
  BY <1>1 DEF OkPolls
<1>3. Attempting
  BY <1>1 DEF Attempting, AttemptsAreOfBoots, FailuresAreCounted, SuccessIsLast, CaddyBaseline,
              Carrying
<1>4. Opening /\ Observing
  BY <1>1, <1>2, InitStartsAreSeen
     DEF Opening, RunsAreOfTarget, CarriedRun, Observing, ObservationsAreOrdered, Carrying
<1>5. RunOrder
  BY <1>1, <1>2 DEF RunOrder, RunsStartBefore, RunsAreLeftBehind, EventsOpenRuns,
                    StartChangesAreEvents, RunsAreContiguous, NoMaskedReset
<1> QED
  BY <1>3, <1>4, <1>5

\* The invariant the order of runs rests on: while the wall clock is never set
\* back and one response carries the counters and the start time, each
\* collection is compared with the newest stored success, or cannot enter its
\* run.
THEOREM RunOrderHolds ==
  ASSUME ~ClockMayStepBack, OneDocument, Caddy \/ "reload" \notin Faults
  PROVE  Spec => [](IInv /\ Memory /\ Attempting /\ Opening /\ Observing /\ RunOrder)
<1> DEFINE Inv == IInv /\ Memory /\ Attempting /\ Opening /\ Observing /\ RunOrder
<1>1. Init => Inv
  BY InitIInv, InitMemory, InitOrder
<1>2. Inv /\ [Next]_vars => Inv'
  <2> SUFFICES ASSUME Inv, [Next]_vars PROVE Inv'
    OBVIOUS
  <2>1. IInv' /\ Memory'
    BY StepIInv, StepMemory
  <2>2. Attempting'
    BY <2>1, StepAttempting
  <2>3. Opening'
    BY StepRunsAreOfTarget, StepCarriedRun DEF Opening
  <2>4. Observing'
    BY <2>1, StepObservations, StepStartsAreSeen DEF Observing
  <2>5. RunOrder'
    BY <2>1, StepRunOrder
  <2> QED
    BY <2>1, <2>2, <2>3, <2>4, <2>5
<1> QED
  BY <1>1, <1>2, PTL DEF Spec

\* A run that was left is never entered again, so no delta is taken across what
\* happened in between.
THEOREM RunsStayContiguous ==
  ASSUME ~ClockMayStepBack, OneDocument, Caddy \/ "reload" \notin Faults
  PROVE  Spec => []RunsAreContiguous
<1>1. RunOrder => RunsAreContiguous
  BY DEF RunOrder
<1> QED
  BY <1>1, RunOrderHolds, PTL

\* No restart the samples show is hidden inside a run, whatever failed between
\* the two polls.
THEOREM ResetsAreNotMasked ==
  ASSUME ~ClockMayStepBack, OneDocument, Caddy \/ "reload" \notin Faults
  PROVE  Spec => []NoMaskedReset
<1>1. RunOrder => NoMaskedReset
  BY DEF RunOrder
<1> QED
  BY <1>1, RunOrderHolds, PTL

\* A restart event is stored with the first successful poll of a run and with no
\* other poll of it, and a start time does not change without one.
THEOREM RestartEventsOpenRuns ==
  ASSUME ~ClockMayStepBack, OneDocument, Caddy \/ "reload" \notin Faults
  PROVE  Spec => []RestartEventsMarkNewRuns
<1>1. IInv /\ RunOrder => RestartEventsMarkNewRuns
  <2> SUFFICES ASSUME IInv, RunOrder, NEW p \in OkPolls, NEW q \in OkPolls
               PROVE  /\ p # q /\ polls[p].restart /\ polls[q].restart =>
                           polls[p].run # polls[q].run
                      /\ Successive(p, q) =>
                           /\ polls[q].restart => polls[p].run # polls[q].run
                           /\ polls[p].start # 0 /\ polls[q].start # 0
                                /\ polls[p].start # polls[q].start => polls[q].restart
    BY DEF RestartEventsMarkNewRuns
  <2>1. p \in Nat /\ q \in Nat
    BY PollType DEF OkPolls, IInv, TypeOK
  <2>2. p = q \/ p < q \/ q < p
    BY <2>1
  <2> QED
    BY <2>2 DEF RunOrder, EventsOpenRuns, StartChangesAreEvents, Successive
<1> QED
  BY <1>1, RunOrderHolds, PTL

-----------------------------------------------------------------------------
(* Runs of a Caddy target.                                                 *)

\* Every stored success is in a run.
SuccessesHaveRuns == \A p \in OkPolls : polls[p].run # 0

\* A success is stored in the run it was given.
LEMMA StepSuccessesHaveRuns ==
  ASSUME IInv, Memory, CarriedRun, SuccessesHaveRuns, [Next]_vars
  PROVE  SuccessesHaveRuns'
<1>1. CASE TablesKept
  BY <1>1 DEF TablesKept, SuccessesHaveRuns, OkPolls
<1>2. ASSUME NEW g \in Pollers, NEW id \in 1..attempts, Stores(g, id)
      PROVE  SuccessesHaveRuns'
  <2>1. /\ DOMAIN polls' = DOMAIN polls \cup {id} /\ polls'[id] = result[g]
        /\ \A p \in DOMAIN polls : polls'[p] = polls[p]
    BY <1>2, SaveFacts DEF Stores
  <2> QED
    BY <1>2, <2>1 DEF SuccessesHaveRuns, OkPolls, CarriedRun, Stores
<1> QED
  BY <1>1, <1>2, StepTables

\* A Caddy collection that stays in its run is of the attempt after the one the
\* run ended with, and that poll is the newest of all.
LEMMA CaddyContinues ==
  ASSUME IInv, Memory, Attempting, Opening, Caddy, NEW g \in Pollers, pc[g] = "save",
         result[g].ok, NEW p \in OkPolls, polls[p].run = result[g].run
  PROVE  \E b \in OkPolls :
           /\ \A q \in DOMAIN polls : q <= b
           /\ polls[b].run = result[g].run
           /\ polls[b].boot = result[g].boot
           /\ result[g].attempt = polls[b].attempt + 1
<1> DEFINE r == result[g]
           b == previous.id
<1>1. ~NeedsNewRun(r) /\ r.run = previous.result.run
  <2>1. r.start = 0
    BY DEF IInv, Attribution, WorkAttributed
  <2> QED
    BY <2>1 DEF Opening, CarriedRun, OkPolls
<1>2. status.failures = 0 /\ status.lastSuccessAt # 0
  BY <1>1 DEF NeedsNewRun, IInv, TypeOK, ViewOK, Statuses
<1>3. b \in OkPolls /\ previous.result = polls[b]
  BY <1>1, SavedAfterBaseline DEF Snapshot
<1>4. mode = "polling" /\ pollMu # {} /\ Settled = DOMAIN polls
  BY BusyIsPolling, NothingUnread DEF Memory, IInv, TypeOK, ControlOK, InPoll, Labels
<1>5. /\ \A q \in DOMAIN polls : q <= b
      /\ polls[b].boot = boots /\ attempts = polls[b].attempt + 1
  BY <1>2, <1>3, <1>4 DEF Attempting, SuccessIsLast
<1>6. r.boot = boots /\ r.attempt = attempts
  BY DEF Attempting, AttemptsAreOfBoots, Carrying
<1> QED
  BY <1>1, <1>3, <1>5, <1>6

\* Every step keeps the runs of a Caddy target unbroken.
LEMMA StepCaddyRunsUnbroken ==
  ASSUME IInv, IInv', Memory, Attempting, Opening, SuccessesHaveRuns, SuccessesHaveRuns',
         RunsAreOfTarget', CaddyRunsUnbroken, [Next]_vars
  PROVE  CaddyRunsUnbroken'
<1>1. \A p \in OkPolls' : polls'[p].run \in DOMAIN runs' /\ runs'[polls'[p].run].caddy = Caddy
  BY DEF IInv, Attribution, PollsAttributed, Attributed, OkPolls, SuccessesHaveRuns,
         RunsAreOfTarget
<1>2. \A p \in OkPolls : polls[p].run \in DOMAIN runs /\ runs[polls[p].run].caddy = Caddy
  BY DEF IInv, Attribution, PollsAttributed, Attributed, OkPolls, SuccessesHaveRuns,
         Opening, RunsAreOfTarget
<1> SUFFICES ASSUME Caddy, NEW p \in OkPolls', NEW q \in OkPolls', p < q,
                    polls'[p].run = polls'[q].run
             PROVE  /\ polls'[p].boot = polls'[q].boot
                    /\ polls'[q].attempt - polls'[p].attempt = q - p
                    /\ \A o \in p..q : o \in OkPolls'
  BY <1>1 DEF CaddyRunsUnbroken
<1>3. ASSUME NEW s \in OkPolls, NEW t \in OkPolls, s < t, polls[s].run = polls[t].run
      PROVE  /\ polls[s].boot = polls[t].boot
             /\ polls[t].attempt - polls[s].attempt = t - s
             /\ \A o \in s..t : o \in OkPolls
  BY <1>2, <1>3 DEF CaddyRunsUnbroken
<1>4. CASE TablesKept
  <2>1. /\ p \in OkPolls /\ q \in OkPolls /\ polls'[p] = polls[p] /\ polls'[q] = polls[q]
        /\ p \in DOMAIN polls'
    BY <1>4 DEF TablesKept, OkPolls
  <2>2. \A o \in p..q : o \in OkPolls
    BY <1>3, <2>1
  <2>3. \A o \in p..q : o \in OkPolls'
    BY <1>4, <2>1, <2>2 DEF TablesKept, OkPolls
  <2> QED
    BY <1>3, <2>1, <2>3
<1>5. ASSUME NEW g \in Pollers, NEW id \in 1..attempts, Stores(g, id)
      PROVE  /\ polls'[p].boot = polls'[q].boot
             /\ polls'[q].attempt - polls'[p].attempt = q - p
             /\ \A o \in p..q : o \in OkPolls'
  <2> DEFINE r == result[g]
  <2>1. /\ pc[g] = "save" /\ id \in Nat /\ \A o \in DOMAIN polls : o < id
        /\ DOMAIN polls' = DOMAIN polls \cup {id}
        /\ polls'[id] = r /\ \A o \in DOMAIN polls : polls'[o] = polls[o]
    BY <1>5, SaveFacts DEF Stores
  <2>2. /\ \A o \in OkPolls : /\ o \in OkPolls' /\ polls'[o] = polls[o] /\ o # id
                              /\ o \in Nat /\ o < id /\ polls[o].attempt \in Nat
        /\ \A o \in OkPolls' : o \in OkPolls \/ (o = id /\ r.ok)
    BY <2>1, PollType, ResultType DEF OkPolls, IInv, TypeOK
  <2>3. p \in OkPolls
    BY <2>1, <2>2
  <2>4. CASE q \in OkPolls
    BY <1>3, <2>2, <2>3, <2>4
  <2>5. CASE q = id /\ r.ok
    <3>1. PICK b \in OkPolls : /\ \A o \in DOMAIN polls : o <= b
                               /\ polls[b].run = r.run /\ polls[b].boot = r.boot
                               /\ r.attempt = polls[b].attempt + 1
      BY <2>1, <2>2, <2>3, <2>5, CaddyContinues
    <3>2. id = b + 1
      <4>1. b \in Nat /\ b < id /\ b # 0
        BY <2>2 DEF Memory, IdsFollowTime, OkPolls
      <4>2. id - 1 \in DOMAIN polls
        BY <1>5, <2>1, <4>1 DEF Stores, IsFreshId
      <4>3. id - 1 <= b
        BY <3>1, <4>2
      <4> QED
        BY <2>1, <4>1, <4>3
    <3>3. p \in Nat /\ b \in Nat /\ q = b + 1 /\ id = b + 1
      BY <2>2, <2>3, <2>5, <3>1, <3>2
    <3>4. p = b \/ p < b
      BY <2>2, <2>3, <3>1 DEF OkPolls
    <3>5. id \in OkPolls' /\ polls'[q] = r /\ polls'[p] = polls[p]
      BY <2>1, <2>2, <2>3, <2>5 DEF OkPolls
    <3>6. CASE p = b
      <4>1. \A o \in p..q : o = b \/ o = id
        BY <3>3, <3>6
      <4> QED
        BY <2>2, <2>5, <3>1, <3>2, <3>5, <3>6, <4>1
    <3>7. CASE p < b
      <4>1. /\ polls[p].boot = polls[b].boot /\ polls[b].attempt - polls[p].attempt = b - p
            /\ \A o \in p..b : o \in OkPolls
        BY <1>3, <2>3, <2>5, <3>1, <3>5, <3>7
      <4>2. \A o \in p..q : o \in p..b \/ o = id
        BY <3>3
      <4>3. polls[p].attempt \in Nat /\ polls[b].attempt \in Nat /\ p \in Nat /\ b \in Nat
        BY <2>2, <2>3
      <4> QED
        BY <2>2, <2>5, <3>1, <3>2, <3>5, <4>1, <4>2, <4>3
    <3> QED
      BY <3>4, <3>6, <3>7
  <2> QED
    BY <2>2, <2>4, <2>5
<1> QED
  BY <1>4, <1>5, StepTables

\* A run of a Caddy target is made of consecutive attempts of one StatLite
\* process, whatever fails: a load, a detection, a save or reading back what was
\* saved.
THEOREM CaddyRunsStayUnbroken ==
  ASSUME ~ClockMayStepBack
  PROVE  Spec => []CaddyRunsUnbroken
<1> DEFINE Inv == /\ IInv /\ Memory /\ Attempting /\ Opening
                  /\ SuccessesHaveRuns /\ CaddyRunsUnbroken
<1>1. Init => Inv
  <2> SUFFICES ASSUME Init PROVE Inv
    OBVIOUS
  <2>1. OkPolls = {}
    BY DEF Init, OkPolls
  <2> QED
    BY <2>1, InitIInv, InitMemory, InitOrder DEF SuccessesHaveRuns, CaddyRunsUnbroken
<1>2. Inv /\ [Next]_vars => Inv'
  <2> SUFFICES ASSUME Inv, [Next]_vars PROVE Inv'
    OBVIOUS
  <2>1. IInv' /\ Memory'
    BY StepIInv, StepMemory
  <2>2. Attempting'
    BY <2>1, StepAttempting
  <2>3. Opening'
    BY StepRunsAreOfTarget, StepCarriedRun DEF Opening
  <2>4. SuccessesHaveRuns'
    BY StepSuccessesHaveRuns DEF Opening
  <2>5. CaddyRunsUnbroken'
    BY <2>1, <2>3, <2>4, StepCaddyRunsUnbroken DEF Opening
  <2> QED
    BY <2>1, <2>2, <2>3, <2>4, <2>5
<1> QED
  BY <1>1, <1>2, PTL DEF Spec

-----------------------------------------------------------------------------
(* The refinement of RunJournal.                                           *)

\* A scrape that finds the start time reports it.
LEMMA CollectTellsStart ==
  ASSUME IInv, ~Caddy, \A e \in Exposures : "start" \in e, NEW g \in Pollers, Collect(g),
         result'[g].ok
  PROVE  result'[g].start = app.incarnation
<1>1. ASSUME NEW h \in Health, CollectFails(g, Begun(h)) PROVE FALSE
  <2>1. result'[g] = Begun(h)
    BY <1>1 DEF CollectFails, IInv, TypeOK, WorkOK
  <2>2. ~Begun(h).ok
    BY DEF Begun, NoResult
  <2> QED
    BY <2>1, <2>2
<1>2. ASSUME NEW h \in Health, NEW signals \in Exposures, NEW levels \in [Signals -> Levels],
             CollectSamples(g, Begun(h), signals, levels)
      PROVE  result'[g].start = app.incarnation
  <2> DEFINE samples == [s \in signals \ {"start"} |-> levels[s]]
  <2>1. result'[g] = Scraped(Begun(h), signals, samples)
    BY <1>2 DEF CollectSamples, IInv, TypeOK, WorkOK
  <2> HIDE DEF samples
  <2>2. Scraped(Begun(h), signals, samples).start = app.incarnation
    BY DEF Scraped, Begun, NoResult
  <2> QED
    BY <2>1, <2>2
<1> QED
  BY <1>1, <1>2 DEF Collect

\* Start times stay known.
LEMMA StepStartsAreKnown ==
  ASSUME IInv, IInv', Memory, RunsAreOfTarget, StartsAreKnown, ~Caddy, StartsAreSeen,
         \A e \in Exposures : "start" \in e, [Next]_vars
  PROVE  StartsAreKnown'
<1> USE DEF environment
<1>1. app'.incarnation # 0
  <2>1. app'.incarnation \in {app.incarnation, app.incarnation + 1}
    <3>1. ASSUME NEW g \in Pollers, CallPollNow(g) \/ Step(g)
          PROVE  app'.incarnation = app.incarnation
      <4>1. CASE Collect(g)
        BY <4>1, CollectFacts
      <4>2. CASE ~Collect(g)
        BY <3>1, <4>2 DEF CallPollNow, Step, Lock, LoadPrevious, CollectProcessStartTime,
                          DetectAppRun, Save, Reload
      <4> QED
        BY <4>1, <4>2
    <3>2. CASE AppRestarts
      BY <3>2 DEF AppRestarts
    <3>3. CASE LoadSuccessfulHistory \/ RetentionCleanup \/ Boot \/ EnableNoPoll \/ Exit
               \/ ClockMoves \/ UNCHANGED vars
      BY <3>3 DEF LoadSuccessfulHistory, RetentionCleanup, Boot, EnableNoPoll, Exit,
                  ClockMoves, vars
    <3> QED
      BY <3>1, <3>2, <3>3 DEF Next, StartsAreKnown
  <2>2. app.incarnation \in Nat
    BY BoundAssumption DEF Incarnations, IInv, TypeOK, EnvironmentOK
  <2> QED
    BY <2>1, <2>2 DEF StartsAreKnown

<1>2. ASSUME NEW h \in Pollers, result'[h].ok
      PROVE  Collect(h) \/ result'[h].start = result[h].start
  <2>1. NoResult.ok = FALSE
    BY DEF NoResult
  <2>2. ASSUME NEW g \in Pollers, NEW s, Return(g, s) PROVE result'[h] \in {result[h], NoResult}
    BY <2>2 DEF Return, IInv, TypeOK, WorkOK
  <2>3. ASSUME NEW g \in Pollers, DetectAppRun(g) PROVE result'[h].start = result[h].start
    <3>1. ASSUME NEW id,
                 result' = [result EXCEPT ![g].run = id,
                                          ![g].restart = RestartDetected(result[g])]
          PROVE  result'[h].start = result[h].start
      BY <3>1 DEF IInv, TypeOK, WorkOK, Results
    <3> QED
      BY <1>2, <2>1, <2>2, <2>3, <3>1 DEF DetectAppRun
  <2>4. ASSUME NEW g \in Pollers, Collect(g), g # h PROVE result'[h] = result[h]
    BY <2>4 DEF Collect, CollectFails, CollectSamples, IInv, TypeOK, WorkOK
  <2>5. ASSUME NEW g \in Pollers, LoadPrevious(g) \/ Save(g) \/ Reload(g)
        PROVE  result'[h] = result[h]
    BY <1>2, <2>1, <2>2, <2>5 DEF LoadPrevious, Save, Reload
  <2>6. \A g \in Pollers : ~CollectProcessStartTime(g)
    BY DEF StartsAreSeen, CollectProcessStartTime
  <2>7. CASE UNCHANGED result
    BY <2>7
  <2>8. ASSUME NEW g \in Pollers, CallPollNow(g) \/ Step(g)
        PROVE  Collect(h) \/ result'[h].start = result[h].start
    BY <2>3, <2>4, <2>5, <2>6, <2>7, <2>8 DEF Step, CallPollNow, Lock
  <2>9. ~Exit
    BY <1>2, <2>1 DEF Exit
  <2>10. CASE LoadSuccessfulHistory \/ RetentionCleanup \/ Boot \/ EnableNoPoll \/ AppRestarts
              \/ ClockMoves \/ UNCHANGED vars
    BY <2>7, <2>10 DEF LoadSuccessfulHistory, RetentionCleanup, Boot, EnableNoPoll, AppRestarts,
                       ClockMoves, vars
  <2> QED
    BY <2>8, <2>9, <2>10 DEF Next
<1>3. ASSUME NEW h \in Pollers, pc'[h] \in Carrying, result'[h].ok PROVE result'[h].start # 0
  <2>1. CASE Continues
    <3>1. pc[h] \in Carrying /\ result[h].ok
      BY <1>3, <2>1 DEF Continues, SameCollection
    <3>2. Collect(h) => FALSE
      BY <3>1, CollectFacts DEF NobodyCarries
    <3> QED
      BY <1>2, <1>3, <3>1, <3>2 DEF StartsAreKnown
  <2>2. ASSUME NEW g \in Pollers, Collect(g) PROVE result'[h].start # 0
    <3>1. g = h
      BY <1>3, <2>2, CollectFacts
    <3> QED
      BY <1>3, <2>2, <3>1, CollectTellsStart DEF StartsAreKnown
  <2>3. ~NobodyCarries'
    BY <1>3 DEF NobodyCarries
  <2> QED
    BY <2>1, <2>2, <2>3, StepKinds, BootFacts DEF Fails, Ends, Publishes
<1>4. \A p \in OkPolls' : polls'[p].start # 0
  <2>1. CASE TablesKept
    BY <2>1 DEF TablesKept, StartsAreKnown, OkPolls
  <2>2. ASSUME NEW g \in Pollers, NEW id \in 1..attempts, Stores(g, id)
        PROVE  \A p \in OkPolls' : polls'[p].start # 0
    <3>1. /\ DOMAIN polls' = DOMAIN polls \cup {id} /\ polls'[id] = result[g]
          /\ \A p \in DOMAIN polls : polls'[p] = polls[p]
          /\ pc[g] \in Carrying
      BY <2>2, SaveFacts DEF Stores, Carrying
    <3> QED
      BY <3>1 DEF StartsAreKnown, OkPolls
  <2> QED
    BY <2>1, <2>2, StepTables
<1>5. previous' # NoSnapshot => previous'.runStart # 0
  <2>1. ASSUME NEW p \in OkPolls, previous' = Snapshot(p) PROVE previous'.runStart # 0
    <3>1. polls[p].start # 0 /\ polls[p].run \in DOMAIN runs
          /\ runs[polls[p].run].start = polls[p].start /\ polls[p].run # 0
      BY DEF StartsAreKnown, IInv, Attribution, PollsAttributed, Attributed, OkPolls,
             RunsAreOfTarget
    <3> QED
      BY <2>1, <3>1 DEF Snapshot
  <2> QED
    BY <2>1, StepBaseline DEF StartsAreKnown
<1> QED
  BY <1>1, <1>3, <1>4, <1>5 DEF StartsAreKnown

\* The entries of the journal, and the observation the next one is compared with.
Entries ==
  [p \in OkPolls |-> [start |-> polls[p].start, run |-> polls[p].run,
                      restart |-> polls[p].restart]]

NewestOk == CHOOSE p \in Newest(OkPolls) : TRUE
LastObserved == IF OkPolls = {} THEN Observed(previous) ELSE Observed(Snapshot(NewestOk))

\* The newest of the stored successes.
LEMMA LastOf ==
  ASSUME TablesOK, IdsFollowTime, NEW b \in OkPolls, \A p \in OkPolls : p <= b
  PROVE  LastObserved = Observed(Snapshot(b))
<1>1. OkPolls \in SUBSET DOMAIN polls
  BY DEF OkPolls
<1>2. Newest(OkPolls) = {b}
  BY <1>1, NewestIsUnique
<1> QED
  BY <1>2 DEF LastObserved, NewestOk

\* What is compared with is the baseline while a collection waits to be stored.
LEMMA LastIsBaseline ==
  ASSUME IInv, Memory, "reload" \notin Faults, NEW g \in Pollers, pc[g] = "save"
  PROVE  LastObserved = Observed(previous)
<1>1. CASE OkPolls = {}
  BY <1>1 DEF LastObserved
<1>2. CASE OkPolls # {}
  BY <1>2, SavedAfterBaseline, LastOf DEF IInv, TypeOK, Memory
<1> QED
  BY <1>1, <1>2

\* A stored success becomes what the next one is compared with.
LEMMA LastStored ==
  ASSUME IInv, IInv', Memory, Memory', SuccessesHaveRuns', NEW g \in Pollers,
         NEW id \in 1..attempts, Stores(g, id), result[g].ok
  PROVE  LastObserved' = [start |-> runs[result[g].run].start, run |-> result[g].run]
<1>1. /\ id \in Nat /\ UNCHANGED runs /\ \A p \in DOMAIN polls : p < id
      /\ DOMAIN polls' = DOMAIN polls \cup {id}
      /\ polls'[id] = result[g]
  BY SaveFacts DEF Stores
<1>2. id \in OkPolls' /\ polls'[id].run # 0
  BY <1>1 DEF OkPolls, SuccessesHaveRuns
<1>3. \A q \in DOMAIN polls' : q \in Nat /\ polls'[q].at \in Nat /\ polls'[q] \in Results'
  <2> SUFFICES ASSUME NEW q \in DOMAIN polls'
               PROVE  q \in Nat /\ polls'[q].at \in Nat /\ polls'[q] \in Results
    BY DEF Results, Samples, Signals
  <2>1. q \in Nat /\ polls'[q] \in Results
    BY DEF IInv, TypeOK, TablesOK, Results, Samples, Signals
  <2> QED
    BY <2>1, ResultType
<1>4. \A q \in OkPolls' : q \in DOMAIN polls' /\ (q # id => q < id)
  BY <1>1 DEF OkPolls
<1>5. \A q \in OkPolls' : q # id => Before(q, id)' /\ ~Before(id, q)'
  <2> SUFFICES ASSUME NEW q \in OkPolls', q # id PROVE Before(q, id)' /\ ~Before(id, q)'
    OBVIOUS
  <2>1. q < id /\ q \in DOMAIN polls' /\ id \in DOMAIN polls'
    BY <1>1, <1>4
  <2>2. polls'[q].at <= polls'[id].at
    BY <2>1 DEF Memory, IdsFollowTime
  <2> QED
    BY <1>3, <2>1, <2>2 DEF Before
<1>6. Newest(OkPolls)' = {id}
  BY <1>2, <1>5 DEF Newest
<1>7. NewestOk' = id
  BY <1>6 DEF NewestOk
<1>8. LastObserved' = Observed(Snapshot(NewestOk))'
  BY <1>2 DEF LastObserved
<1>9. Observed(Snapshot(NewestOk))' =
        [start |-> IF polls'[id].run = 0 THEN 0 ELSE runs'[polls'[id].run].start,
         run |-> polls'[id].run]
  BY <1>7 DEF Observed, Snapshot
<1> QED
  BY <1>1, <1>2, <1>8, <1>9

\* Storing a success is an observation of the abstract journal.
LEMMA SuccessIsAppended ==
  ASSUME IInv, IInv', Memory, Memory', Attempting, Opening, Observing, RunOrder,
         SuccessesHaveRuns', StartsAreKnown, ~Caddy, "reload" \notin Faults,
         NEW g \in Pollers, NEW id \in 1..attempts, Stores(g, id), result[g].ok
  PROVE  Journal!Append(id)
<1> DEFINE r == result[g]
<1>1. /\ id \in Nat /\ id # 0 /\ UNCHANGED <<runs, previous>> /\ pc[g] = "save"
      /\ \A p \in DOMAIN polls : p < id
      /\ DOMAIN polls' = DOMAIN polls \cup {id}
      /\ polls'[id] = r /\ \A p \in DOMAIN polls : polls'[p] = polls[p]
  BY SaveFacts DEF Stores, view
<1>2. LastObserved = [start |-> previous.runStart, run |-> previous.result.run]
  BY <1>1, LastIsBaseline DEF Observed
<1>3. /\ r.start # 0 /\ r.start \in Nat /\ r \in Results /\ r.seen \in Nat /\ r.start = r.seen
      /\ r.run \in Nat /\ r.run # 0 /\ runs[r.run].start = r.start
      /\ r.restart <=> RestartDetected(r)
      /\ ~NeedsNewRun(r) => r.run = previous.result.run
  <2>1. r \in Results /\ r.start \in Nat /\ r.seen \in Nat /\ r.run \in Nat
    BY ResultType DEF IInv, TypeOK, WorkOK
  <2>2. r.start # 0 /\ r.start \in {0, r.seen}
    BY <1>1 DEF StartsAreKnown, Observing, StartsAreSeen, Carrying
  <2> QED
    BY <1>1, <2>1, <2>2
       DEF Opening, CarriedRun, IInv, Attribution, WorkAttributed, Attributed
<1>4. LastObserved' = [start |-> r.start, run |-> r.run]
  BY <1>3, LastStored
<1>5. previous # NoSnapshot =>
        /\ previous.runStart # 0 /\ HasRun(previous)
        /\ previous.runStart = runs[previous.result.run].start
        /\ previous.runStart <= previous.result.seen
        /\ Follows(previous.result, r) /\ previous.result.seen <= r.seen
        /\ previous.result \in Results /\ previous.result.seen \in Nat /\ previous.runStart \in Nat
  <2>1. previous.result \in Results /\ previous.runStart \in Nat
    BY BoundAssumption DEF IInv, TypeOK, ViewOK, Snapshots, Incarnations
  <2>2. previous.result.seen \in Nat
    BY <2>1, ResultType
  <2> QED
    BY <1>1, <2>1, <2>2 DEF StartsAreKnown, RunOrder, RunsStartBefore, IInv, Attribution, KnowsItsRun,
           Observing, ObservationsAreOrdered, Carrying, Follows
<1>6. /\ \A p \in OkPolls : p < id
      /\ OkPolls' = OkPolls \cup {id} /\ \A p \in OkPolls : polls'[p] = polls[p] /\ p # id
  BY <1>1 DEF OkPolls
<1>7. ASSUME r.start = previous.runStart
      PROVE  r.run = previous.result.run /\ ~r.restart
  <2>1. previous # NoSnapshot
    BY <1>3, <1>7 DEF NoSnapshot
  <2>2. previous.result.seen = r.seen
    BY <1>3, <1>5, <1>7, <2>1
  <2>3. ~RestartDetected(r)
    BY <1>3, <1>5, <1>7, <2>1, <2>2, SameProcessSameRun DEF ProcessStartChanged
  <2>4. ~NeedsNewRun(r)
    BY <1>5, <2>1, <2>3 DEF NeedsNewRun
  <2> QED
    BY <1>3, <1>7, <2>3, <2>4
<1>8. ASSUME r.start # previous.runStart
      PROVE  /\ r.run # previous.result.run /\ \A p \in OkPolls : polls[p].run # r.run
             /\ r.restart <=> LastObserved # Journal!Nothing
  <2>1. CASE previous = NoSnapshot
    <3>1. /\ LastObserved = Journal!Nothing /\ previous.result.run = 0 /\ ~RestartDetected(r)
      BY <1>2, <2>1 DEF Journal!Nothing, NoSnapshot, NoResult, RestartDetected, HasRun
    <3>2. OkPolls = {}
      BY <1>1, <2>1, NothingUnread
         DEF Memory, BaselineIsNewest, Carrying, IInv, TypeOK, InPoll, Labels
    <3> QED
      BY <1>3, <3>1, <3>2
  <2>2. CASE previous # NoSnapshot
    <3>1. RestartDetected(r)
      BY <1>3, <1>5, <1>8, <2>2 DEF RestartDetected, ProcessStartChanged
    <3>2. LastObserved # Journal!Nothing
      BY <1>2, <1>5, <2>2 DEF Journal!Nothing
    <3>3. \A p \in OkPolls : polls[p].run # r.run
      BY <1>1, <3>1, SharedRunIsKept DEF NeedsNewRun
    <3> QED
      BY <1>3, <1>5, <1>8, <2>2, <3>1, <3>2, <3>3
  <2> QED
    BY <2>1, <2>2
<1>9. Entries' = [i \in OkPolls \cup {id} |->
                    IF i = id
                      THEN [start |-> r.start, run |-> r.run,
                            restart |-> LastObserved # Journal!Nothing
                                        /\ r.start # previous.runStart]
                      ELSE Entries[i]]
  <2>1. r.restart = (LastObserved # Journal!Nothing /\ r.start # previous.runStart)
    <3>1. r.restart \in BOOLEAN
      BY <1>3 DEF Results
    <3> QED
      BY <1>7, <1>8, <3>1
  <2> QED
    BY <1>1, <1>6, <2>1 DEF Entries
<1>10. DOMAIN Entries = OkPolls /\ \A i \in OkPolls : Entries[i].run = polls[i].run
  BY DEF Entries
<1>11. /\ id \in Nat \ {0} /\ \A i \in DOMAIN Entries : i < id
       /\ LastObserved' \in [start : Nat \ {0}, run : Nat \ {0}]
  BY <1>1, <1>3, <1>4, <1>6, <1>10
<1>12. IF LastObserved'.start = LastObserved.start
         THEN LastObserved'.run = LastObserved.run
         ELSE /\ LastObserved'.run # LastObserved.run
              /\ \A i \in DOMAIN Entries : Entries[i].run # LastObserved'.run
  BY <1>2, <1>4, <1>7, <1>8, <1>10
<1>13. Entries' =
         [i \in DOMAIN Entries \cup {id} |->
            IF i = id
              THEN Journal!Entry(LastObserved'.start, LastObserved'.run,
                                 LastObserved # Journal!Nothing
                                   /\ LastObserved'.start # LastObserved.start)
              ELSE Entries[i]]
  BY <1>2, <1>4, <1>9, <1>10 DEF Journal!Entry
<1> QED
  BY <1>11, <1>12, <1>13 DEF Journal!Append, Entries, LastObserved, NewestOk

\* Rows change, one at a time or the oldest ones, only where polls are stored
\* and where they are pruned.
LEMMA StepPolls ==
  ASSUME [Next]_vars
  PROVE  \/ polls' = polls \/ DeletePollsBefore
         \/ \E g \in Pollers : Save(g)
<1> USE DEF database
<1>1. ASSUME NEW g \in Pollers, CallPollNow(g) \/ Step(g) PROVE polls' = polls \/ Save(g)
  BY <1>1 DEF CallPollNow, Step, Lock, LoadPrevious, Collect, CollectProcessStartTime,
              DetectAppRun, Reload
<1>2. CASE LoadSuccessfulHistory \/ EnableNoPoll \/ Exit \/ AppRestarts \/ ClockMoves
           \/ UNCHANGED vars
  BY <1>2 DEF LoadSuccessfulHistory, EnableNoPoll, Exit, AppRestarts, ClockMoves, vars
<1>3. CASE RetentionCleanup \/ Boot
  BY <1>3 DEF RetentionCleanup, Boot
<1> QED
  BY <1>1, <1>2, <1>3 DEF Next

\* The newest success stays the newest while it is stored.
LEMMA NewestOkKept ==
  ASSUME TablesOK, IdsFollowTime, TablesKept, OkPolls' # {}
  PROVE  NewestOk' = NewestOk
<1>1. /\ OkPolls' \subseteq OkPolls
      /\ \A p \in OkPolls' : p \in DOMAIN polls' /\ polls'[p] = polls[p]
      /\ \A p \in OkPolls', q \in OkPolls : p <= q => q \in OkPolls'
  BY DEF TablesKept, OkPolls
<1>2. \A p \in OkPolls : p \in DOMAIN polls /\ p \in Nat /\ polls[p].at \in Nat
  BY PollType DEF OkPolls
<1>3. \A p, q \in OkPolls' : Before(p, q)' <=> Before(p, q)
  BY <1>1 DEF Before
<1>4. ASSUME NEW p \in OkPolls \ OkPolls', NEW q \in OkPolls'
      PROVE  Before(p, q) /\ ~Before(q, p)
  <2>1. p < q
    BY <1>1, <1>2, <1>4
  <2>2. polls[p].at <= polls[q].at
    BY <1>1, <1>2, <2>1 DEF IdsFollowTime
  <2> QED
    BY <1>1, <1>2, <2>1, <2>2 DEF Before
<1>5. Newest(OkPolls)' = Newest(OkPolls)
  <2>1. ASSUME NEW p \in Newest(OkPolls) PROVE p \in Newest(OkPolls)'
    <3>1. p \in OkPolls /\ \A q \in OkPolls \ {p} : Before(q, p)
      BY <2>1 DEF Newest
    <3>2. p \in OkPolls'
      BY <1>1, <1>4, <3>1
    <3> QED
      BY <1>1, <1>3, <3>1, <3>2 DEF Newest
  <2>2. ASSUME NEW p \in Newest(OkPolls)' PROVE p \in Newest(OkPolls)
    <3>1. p \in OkPolls' /\ \A q \in OkPolls' \ {p} : Before(q, p)
      BY <1>3, <2>2 DEF Newest
    <3> QED
      BY <1>1, <1>4, <3>1 DEF Newest
  <2> QED
    BY <2>1, <2>2
<1> QED
  BY <1>5 DEF NewestOk

\* Successes are stored one by one, so there is a newest.
NewestExists == OkPolls # {} => \E b \in OkPolls : \A p \in OkPolls : p <= b

LEMMA StepNewestExists ==
  ASSUME IInv, Memory, NewestExists, [Next]_vars
  PROVE  NewestExists'
<1>1. ASSUME TablesKept, OkPolls' # {}
      PROVE  \E b \in OkPolls' : \A p \in OkPolls' : p <= b
  <2>1. OkPolls' \subseteq OkPolls /\ \A p \in OkPolls', q \in OkPolls : p <= q => q \in OkPolls'
    BY <1>1 DEF TablesKept, OkPolls
  <2> QED
    BY <1>1, <2>1 DEF NewestExists
<1>2. ASSUME NEW g \in Pollers, NEW id \in 1..attempts, Stores(g, id), OkPolls' # {}
      PROVE  \E b \in OkPolls' : \A p \in OkPolls' : p <= b
  <2>1. /\ id \in Nat /\ \A p \in DOMAIN polls : p < id
        /\ DOMAIN polls' = DOMAIN polls \cup {id} /\ polls'[id] = result[g]
        /\ \A p \in DOMAIN polls : polls'[p] = polls[p] /\ p \in Nat
    BY <1>2, SaveFacts, PollType DEF Stores, IInv, TypeOK
  <2>2. CASE result[g].ok
    <3>1. id \in OkPolls' /\ \A p \in OkPolls' : p <= id
      BY <2>1, <2>2 DEF OkPolls
    <3> QED
      BY <3>1
  <2>3. CASE ~result[g].ok
    <3>1. OkPolls' = OkPolls
      BY <2>1, <2>3 DEF OkPolls
    <3> QED
      BY <1>2, <3>1 DEF NewestExists
  <2> QED
    BY <2>2, <2>3
<1> QED
  BY <1>1, <1>2, StepTables DEF NewestExists

\* While a success is stored, what the next one is compared with stays.
LEMMA LastKept ==
  ASSUME IInv, Memory, SuccessesHaveRuns, NewestExists, TablesKept, OkPolls' # {}
  PROVE  LastObserved' = LastObserved
<1>1. NewestOk' = NewestOk
  BY NewestOkKept DEF IInv, TypeOK, Memory
<1>2. NewestOk \in OkPolls /\ polls'[NewestOk] = polls[NewestOk]
  <2>1. OkPolls' \subseteq OkPolls /\ \A p \in OkPolls', q \in OkPolls : p <= q => q \in OkPolls'
    BY DEF TablesKept, OkPolls
  <2>2. PICK b \in OkPolls : \A p \in OkPolls : p <= b
    BY <2>1 DEF NewestExists
  <2>3. Newest(OkPolls) = {b}
    <3>1. OkPolls \in SUBSET DOMAIN polls
      BY DEF OkPolls
    <3> QED
      BY <2>2, <3>1, NewestIsUnique DEF IInv, TypeOK, Memory
  <2>4. NewestOk = b /\ b \in OkPolls'
    BY <2>1, <2>2, <2>3 DEF NewestOk
  <2> QED
    BY <2>2, <2>4 DEF TablesKept, OkPolls
<1>3. polls[NewestOk].run # 0 /\ polls[NewestOk].run \in DOMAIN runs
  BY <1>2 DEF SuccessesHaveRuns, IInv, Attribution, PollsAttributed, Attributed, OkPolls
<1>4. Observed(Snapshot(NewestOk))' = Observed(Snapshot(NewestOk))
  BY <1>1, <1>2, <1>3 DEF Observed, Snapshot, TablesKept
<1> QED
  BY <1>2, <1>4 DEF LastObserved

\* Every other step prunes the journal, forgets what was compared with once
\* nothing is stored, or shows nothing.
LEMMA RestIsPruned ==
  ASSUME IInv, IInv', Memory, SuccessesHaveRuns, NewestExists, "reload" \notin Faults,
         TablesKept, [Next]_vars
  PROVE  Journal!Next \/ (Entries' = Entries /\ LastObserved' = LastObserved)
<1>1. /\ OkPolls' \subseteq OkPolls
      /\ \A p \in OkPolls' : polls'[p] = polls[p]
      /\ \A p \in OkPolls', q \in OkPolls : p <= q => q \in OkPolls'
      /\ \A p \in OkPolls : p \in DOMAIN polls /\ p \in Nat
  BY PollType DEF TablesKept, OkPolls, IInv, TypeOK
<1>2. Entries' = [p \in OkPolls' |-> Entries[p]]
  BY <1>1 DEF Entries
<1>3. ASSUME OkPolls' = {}
      PROVE  LastObserved' = LastObserved \/ LastObserved' = Journal!Nothing
  <2>1. LastObserved' = Observed(previous)'
    BY <1>3 DEF LastObserved
  <2>2. CASE previous' = NoSnapshot
    BY <2>1, <2>2 DEF Observed, NoSnapshot, NoResult, Journal!Nothing
  <2>3. CASE previous' # NoSnapshot /\ OkPolls = {}
    <3>1. previous' = previous
      BY <2>3, StepBaseline
    <3> QED
      BY <2>1, <2>3, <3>1 DEF LastObserved, Observed
  <2>4. CASE previous' # NoSnapshot /\ OkPolls # {}
    <3>1. polls' # polls
      BY <1>3, <2>4 DEF OkPolls
    <3>2. previous' = previous /\ previous # NoSnapshot
      BY <2>4, <3>1, StepBaseline
    <3>3. DeletePollsBefore
      <4>1. \A g \in Pollers : Save(g) => ~TablesKept \/ polls' = polls
        BY SaveFacts DEF Save, TablesKept
      <4> QED
        BY <3>1, <4>1, StepPolls
    <3>4. SettledOk = OkPolls
      <4> SUFFICES ASSUME NEW g \in Pollers, pc[g] = "reload", pollID[g] \in OkPolls
                   PROVE  FALSE
        BY DEF SettledOk, Unread
      <4>1. polls[pollID[g]].at = now
        BY DEF Memory, CarriedIsNow, Carrying
      <4>2. pollID[g] \in DOMAIN polls'
        BY <1>1, <3>3, <4>1, PruneFacts DEF IInv, TypeOK, Memory
      <4> QED
        BY <1>1, <1>3, <4>2 DEF OkPolls, TablesKept
    <3>5. /\ previous.id \in OkPolls /\ previous = Snapshot(previous.id)
          /\ \A p \in OkPolls : p <= previous.id
      BY <2>4, <3>2, <3>4 DEF Memory, BaselineIsNewest, Current
    <3>6. LastObserved = Observed(previous)
      BY <3>5, LastOf DEF IInv, TypeOK, Memory
    <3> QED
      BY <2>1, <3>2, <3>6 DEF Observed
  <2> QED
    BY <2>2, <2>3, <2>4
<1>4. CASE OkPolls' = OkPolls
  <2>1. Entries' = Entries
    BY <1>1, <1>4 DEF Entries
  <2>2. CASE OkPolls' # {}
    BY <2>1, <2>2, LastKept
  <2>3. CASE OkPolls' = {}
    <3>1. Entries = <<>>
      BY <1>4, <2>3 DEF Entries
    <3>2. LastObserved' = Journal!Nothing => Journal!Forget
      BY <2>1, <3>1 DEF Journal!Forget, Entries, LastObserved, NewestOk
    <3> QED
      BY <1>3, <2>1, <2>3, <3>2 DEF Journal!Next
  <2> QED
    BY <2>2, <2>3
<1>5. CASE OkPolls' # OkPolls
  <2>1. DOMAIN Entries = OkPolls
    BY DEF Entries
  <2>2. \A i \in OkPolls \ OkPolls', j \in OkPolls' : i < j
    BY <1>1
  <2>3. LastObserved' = LastObserved \/ (OkPolls' = {} /\ LastObserved' = Journal!Nothing)
    BY <1>3, LastKept
  <2>4. PICK keep \in SUBSET OkPolls : keep = OkPolls'
    BY <1>1
  <2>5. Journal!Prune(keep)
    BY <1>2, <1>5, <2>1, <2>2, <2>3, <2>4
       DEF Journal!Prune, Entries, LastObserved, NewestOk
  <2> QED
    BY <2>5 DEF Journal!Next
<1> QED
  BY <1>4, <1>5

\* A failed poll is not in the journal.
LEMMA FailureIsNotJournaled ==
  ASSUME IInv, Memory, SuccessesHaveRuns, NewestExists, NEW g \in Pollers,
         NEW id \in 1..attempts, Stores(g, id), ~result[g].ok
  PROVE  Entries' = Entries /\ LastObserved' = LastObserved
<1>1. /\ UNCHANGED <<runs, previous>> /\ DOMAIN polls' = DOMAIN polls \cup {id}
      /\ polls'[id] = result[g] /\ \A p \in DOMAIN polls : polls'[p] = polls[p]
      /\ id \notin DOMAIN polls
  BY SaveFacts DEF Stores, view
<1>2. OkPolls' = OkPolls /\ \A p \in OkPolls : polls'[p] = polls[p]
  BY <1>1 DEF OkPolls
<1>3. Newest(OkPolls)' = Newest(OkPolls)
  BY <1>2 DEF Newest, Before
<1>4. NewestOk' = NewestOk
  BY <1>3 DEF NewestOk
<1>5. OkPolls # {} => NewestOk \in OkPolls
  <2> SUFFICES ASSUME OkPolls # {} PROVE NewestOk \in OkPolls
    OBVIOUS
  <2>1. PICK b \in OkPolls : \A p \in OkPolls : p <= b
    BY DEF NewestExists
  <2>2. OkPolls \in SUBSET DOMAIN polls
    BY DEF OkPolls
  <2>3. Newest(OkPolls) = {b}
    BY <2>1, <2>2, NewestIsUnique DEF IInv, TypeOK, Memory
  <2> QED
    BY <2>3 DEF NewestOk
<1>6. LastObserved' = LastObserved
  BY <1>1, <1>2, <1>4, <1>5 DEF LastObserved, Observed, Snapshot
<1> QED
  BY <1>2, <1>6 DEF Entries

\* The stored successes of a target whose every response tells its process start
\* time behave as RunJournal says: each joins the run of the one before it
\* exactly when the process is the same, opens a run no stored success is in
\* otherwise, and carries a restart event exactly when the process changed;
\* through crashes between transactions, failures of loads, detections and
\* saves, pruning, and both modes.
THEOREM JournalImplemented ==
  ASSUME ~ClockMayStepBack, OneDocument, ~Caddy, "reload" \notin Faults,
         \A e \in Exposures : "start" \in e
  PROVE  Spec => ImplementsRunJournal
<1> DEFINE Inv == /\ IInv /\ Memory /\ Attempting /\ Opening /\ Observing /\ RunOrder
                  /\ SuccessesHaveRuns /\ StartsAreKnown /\ NewestExists
<1>1. Init => Inv /\ Journal!Init
  <2> SUFFICES ASSUME Init PROVE Inv /\ Journal!Init
    OBVIOUS
  <2>1. /\ OkPolls = {} /\ previous = NoSnapshot /\ app.incarnation = 1
        /\ \A g \in Pollers : pc[g] = "idle"
    BY DEF Init, OkPolls
  <2>2. SuccessesHaveRuns /\ StartsAreKnown /\ NewestExists
    BY <2>1 DEF SuccessesHaveRuns, StartsAreKnown, NewestExists, Carrying
  <2>3. Entries = <<>>
    BY <2>1 DEF Entries
  <2>4. LastObserved = Journal!Nothing
    BY <2>1 DEF LastObserved, Observed, NoSnapshot, NoResult, Journal!Nothing
  <2>5. Journal!Init
    BY <2>3, <2>4 DEF Journal!Init, Entries, LastObserved, NewestOk
  <2> QED
    BY <2>2, <2>5, InitIInv, InitMemory, InitOrder
<1>2. Inv /\ [Next]_vars => Inv'
  <2> SUFFICES ASSUME Inv, [Next]_vars PROVE Inv'
    OBVIOUS
  <2>1. IInv' /\ Memory'
    BY StepIInv, StepMemory
  <2>2. Attempting' /\ Opening'
    BY <2>1, StepAttempting, StepRunsAreOfTarget, StepCarriedRun DEF Opening
  <2>3. Observing'
    BY <2>1, StepObservations, StepStartsAreSeen DEF Observing
  <2>4. RunOrder'
    BY <2>1, StepRunOrder
  <2>5. SuccessesHaveRuns'
    BY StepSuccessesHaveRuns DEF Opening
  <2>6. StartsAreKnown'
    BY <2>1, StepStartsAreKnown DEF Opening, Observing
  <2>7. NewestExists'
    BY StepNewestExists
  <2> QED
    BY <2>1, <2>2, <2>3, <2>4, <2>5, <2>6, <2>7
<1>3. Inv /\ Inv' /\ [Next]_vars =>
        Journal!Next \/ (Entries' = Entries /\ LastObserved' = LastObserved)
  <2> SUFFICES ASSUME Inv, Inv', [Next]_vars
               PROVE  Journal!Next \/ (Entries' = Entries /\ LastObserved' = LastObserved)
    OBVIOUS
  <2>1. CASE TablesKept
    BY <2>1, RestIsPruned
  <2>2. ASSUME NEW g \in Pollers, NEW id \in 1..attempts, Stores(g, id)
        PROVE  Journal!Next \/ (Entries' = Entries /\ LastObserved' = LastObserved)
    <3>1. CASE result[g].ok
      <4>1. Journal!Append(id)
        BY <2>2, <3>1, SuccessIsAppended
      <4>a. DOMAIN polls' = DOMAIN polls \cup {id} /\ polls'[id] = result[g]
        BY <2>2, SaveFacts DEF Stores
      <4>2. id \in OkPolls'
        BY <3>1, <4>a DEF OkPolls
      <4>3. id \in DOMAIN Entries'
        BY <4>2 DEF Entries
      <4> QED
        BY <4>1, <4>3 DEF Journal!Next, Entries
    <3>2. CASE ~result[g].ok
      BY <2>2, <3>2, FailureIsNotJournaled
    <3> QED
      BY <3>1, <3>2
  <2> QED
    BY <2>1, <2>2, StepTables
<1>4. Inv /\ Inv' /\ [Next]_vars => [Journal!Next]_<<Entries, LastObserved>>
  BY <1>3
<1> QED
  BY <1>1, <1>2, <1>4, PTL
     DEF Spec, ImplementsRunJournal, Journal!Spec, Entries, LastObserved, NewestOk
=============================================================================
