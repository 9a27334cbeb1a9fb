-------------------------- MODULE MonitorProperties --------------------------
(***************************************************************************)
(* What must hold of one target's monitor (module Monitor).                *)
(***************************************************************************)
EXTENDS Monitor

Times == 0..MaxClock
Incarnations == 0..MaxIncarnation
Samples == UNION {[S -> Levels] : S \in SUBSET Signals}

Results ==
  [at : Times, ok : BOOLEAN, start : Incarnations, samples : Samples,
   health : Health \cup {""}, break : BOOLEAN, run : Nat, restart : BOOLEAN,
   seen : Incarnations, attempt : Nat, boot : Nat]
Snapshots == [id : Nat, result : Results, runStart : Incarnations]
Observations == [value : Health \cup {""}, at : Times]
Statuses ==
  [lastPollAt : Times, lastSuccessAt : Times, lastFailedAt : Times,
   failures : Nat, lastStored : Nat, lastSuccessStored : Nat]
RunRows == [start : Incarnations, caddy : BOOLEAN, first : Times, last : Times]

Labels == {"idle", "lock", "load", "collect", "start_time", "detect", "save", "reload"}
InPoll == Labels \ {"idle", "lock"}

EnvironmentOK ==
  /\ now \in Times
  /\ app \in [incarnation : Incarnations, level : [Signals -> Levels]]
  /\ mode \in {"down", "polling", "no_poll"}
  /\ boots \in Nat /\ attempts \in Nat

TablesOK ==
  /\ polls = [p \in DOMAIN polls |-> polls[p]]
  /\ \A p \in DOMAIN polls : p \in Nat /\ polls[p] \in Results
  /\ runs = [r \in DOMAIN runs |-> runs[r]]
  /\ \A r \in DOMAIN runs : r \in Nat /\ runs[r] \in RunRows

ControlOK ==
  /\ pollMu \in SUBSET Pollers
  /\ pc \in [Pollers -> Labels]
  /\ \A g, h \in pollMu : g = h
  /\ \A g \in Pollers : g \in pollMu <=> pc[g] \in InPoll
  /\ loopAt \in {"history", "first", "wait", "follow_up", "ticker"}
  /\ history \in [loaded : BOOLEAN, snapshot : Snapshots]

WorkOK ==
  /\ result \in [Pollers -> Results]
  /\ pollID \in [Pollers -> Nat]
  /\ baseline \in Samples

ViewOK ==
  /\ previous \in Snapshots
  /\ status \in Statuses
  /\ latest \in Snapshots
  /\ health \in Observations

\* Every variable has its type, and a goroutine is inside PollNow exactly
\* while it holds pollMu, which one goroutine at a time does.
TypeOK == EnvironmentOK /\ TablesOK /\ ControlOK /\ WorkOK /\ ViewOK

-----------------------------------------------------------------------------
(* Run attribution.                                                        *)

\* A stored poll that reported a process start time belongs to the app run of
\* that start time, whatever crashed or failed between EnsureAppRun's
\* transaction and the poll's, and whoever polled.
OneStartPerRun ==
  \A p \in DOMAIN polls :
    polls[p].start # 0 =>
      /\ polls[p].run \in DOMAIN runs
      /\ runs[polls[p].run].start = polls[p].start

\* A collection names a row of app_runs, the one of its start time if it
\* reported one.
Attributed(r, table) ==
  /\ r.run # 0 \/ r.start # 0 => r.run \in DOMAIN table
  /\ r.start # 0 => table[r.run].start = r.start

\* What keeps OneStartPerRun true: stored polls and polls about to be stored
\* are attributed, and a snapshot that may serve as baseline still knows the
\* start time of its run.
PollsAttributed == \A p \in DOMAIN polls : Attributed(polls[p], runs)

WorkAttributed ==
  \A g \in Pollers :
    /\ pc[g] \in {"save", "reload"} => Attributed(result[g], runs)
    /\ Caddy => result[g].start = 0

KnowsItsRun(snapshot, table) ==
  HasRun(snapshot) =>
    /\ snapshot.result.run \in DOMAIN table
    /\ snapshot.runStart = table[snapshot.result.run].start

Attribution == PollsAttributed /\ WorkAttributed /\ KnowsItsRun(previous, runs)

-----------------------------------------------------------------------------
(* The published view.                                                     *)

Quiet == mode = "polling" /\ pollMu = {}

\* Between polls the baseline of restart detection is the newest successful
\* poll stored, once it has been read at all.
PreviousIsNewestSuccess ==
  Quiet /\ previous # NoSnapshot /\ OkPolls # {} =>
    \A p \in OkPolls : p <= previous.id

\* CurrentState pairs a status with the snapshot of the same update: the
\* snapshot is of the poll the status names as its last success.
CurrentStateIsOneUpdate ==
  mode = "polling" /\ status.lastSuccessStored # 0 =>
    /\ previous.id = status.lastSuccessStored
    /\ previous.result.ok
    /\ previous.result.at = status.lastSuccessAt

\* The baseline in memory is the newest stored success, and is published with
\* the status that names it.
BaselineIsCurrent == PreviousIsNewestSuccess /\ CurrentStateIsOneUpdate

\* Restarting with --no-poll shows what the live monitor showed, when its last
\* attempt was stored and nothing of it has been pruned since.
RestoreMatchesLive ==
  Quiet /\ status.lastStored \in DOMAIN polls =>
    \A p \in Newest(DOMAIN polls), successful \in LatestSuccessfulSnapshot :
      LET restored == RestoredStatus(Snapshot(p), successful)
      IN  /\ latest = Snapshot(p)
          /\ HealthObservation(polls[p]) = health
          /\ restored.lastStored = status.lastStored
          /\ restored.lastPollAt = status.lastPollAt
          /\ restored.failures = 0 <=> status.failures = 0
          /\ restored.failures <= TrailingLimit
          /\ status.lastSuccessStored \in OkPolls =>
               /\ restored.lastSuccessStored = status.lastSuccessStored
               /\ restored.lastSuccessAt = status.lastSuccessAt
               /\ successful = previous

-----------------------------------------------------------------------------
(* The abstract specification.                                             *)

Observed(snapshot) == [start |-> snapshot.runStart, run |-> snapshot.result.run]

Journal == INSTANCE RunJournal WITH
  Starts  <- Nat \ {0},
  Runs    <- Nat \ {0},
  Ids     <- Nat \ {0},
  journal <- [p \in OkPolls |-> [start   |-> polls[p].start,
                                 run     |-> polls[p].run,
                                 restart |-> polls[p].restart]],
  last    <- IF OkPolls = {} THEN Observed(previous)
             ELSE Observed(Snapshot(CHOOSE p \in Newest(OkPolls) : TRUE))

\* When every scrape reports the process start time, the stored successful
\* polls behave as RunJournal says, through crashes, failed transactions and
\* orphaned app runs.
ImplementsRunJournal == Journal!Spec

-----------------------------------------------------------------------------
(* Liveness.                                                               *)

\* The goroutines run: sync.Mutex hands itself to a waiter within bounded time
\* (starvation mode), hence strong fairness for Lock.  Requests, boots, exits
\* and the monitored process owe nothing.
Fairness ==
  /\ WF_vars(LoadSuccessfulHistory)
  /\ WF_vars(loopAt = "wait" /\ CallPollNow(Loop))
  /\ \A g \in Pollers :
       /\ SF_vars(Lock(g))
       /\ WF_vars(Step(g))

FairSpec == Spec /\ Fairness

\* Every call of PollNow returns unless StatLite goes down.
PollsReturn ==
  \A g \in Pollers : pc[g] # "idle" ~> (pc[g] = "idle" \/ mode = "down")

\* The loop gets past its startup, with or without a follow-up poll.
StartupSettles ==
  mode = "polling" ~> (loopAt = "ticker" \/ mode = "down")
=============================================================================
