------------------------------- MODULE Readers -------------------------------
(***************************************************************************)
(* Who reads the view a monitor publishes (module Monitor): /api/v1/status,*)
(* which takes all of it under one lock, and a row of Manager.Summaries,   *)
(* which takes it in two calls while polls go on between them.             *)
(***************************************************************************)
EXTENDS MonitorProperties

VARIABLE summary  \* a TargetSummary and how far it is: "none", "status", "done"

readerVars == <<vars, summary>>

NoSummary == [step |-> "none", status |-> NoStatus, latest |-> NoSnapshot]

-----------------------------------------------------------------------------
(* /api/v1/status: publicStatus of CurrentState.                           *)

\* Before the first poll of a process, a loaded baseline stands in.
LastSuccessShown ==
  IF status.lastSuccessAt = 0 /\ previous # NoSnapshot
  THEN previous.result.at ELSE status.lastSuccessAt

\* Health the newest attempt did not report is the one of the last success.
HealthShown ==
  IF health = NoHealth /\ previous # NoSnapshot
  THEN HealthObservation(previous.result) ELSE health

PublicStatus ==
  [collection |-> CASE status.lastPollAt = 0 -> "not_polled"
                    [] status.lastPollAt # 0 /\ status.failures > 0 -> "error"
                    [] OTHER -> "ok",
   lastPollAt |-> status.lastPollAt,
   lastSuccessAt |-> LastSuccessShown,
   lastFailedAt |-> status.lastFailedAt,
   failures |-> status.failures,
   health |-> HealthShown]

-----------------------------------------------------------------------------
(* Manager.Summaries.                                                      *)

\* Mutant: the snapshot is taken before the status.
TakeLatestFirst ==
  \/ /\ summary.step # "latest"
     /\ summary' = [NoSummary EXCEPT !.step = "latest", !.latest = latest]
  \/ /\ summary.step = "latest"
     /\ summary' = [summary EXCEPT !.step = "done", !.status = status]

\* Monitor.Status(), then Monitor.LatestSnapshot().
Take ==
  \/ /\ summary.step # "status"
     /\ summary' = [NoSummary EXCEPT !.step = "status", !.status = status]
  \/ /\ summary.step = "status"
     /\ summary' = [summary EXCEPT !.step = "done", !.latest = latest]

Summarize ==
  /\ mode # "down"
  /\ Take
  /\ UNCHANGED vars

\* A response in progress ends with its process.
MonitorStep ==
  /\ Next
  /\ summary' = IF mode' = "down" THEN NoSummary ELSE summary

ReadersInit == Init /\ summary = NoSummary
ReadersNext == MonitorStep \/ Summarize
ReadersSpec == ReadersInit /\ [][ReadersNext]_readerVars

-----------------------------------------------------------------------------
(* Properties.                                                             *)

\* docs/api.md:56-70: the fields of one response, taken from the status, the
\* baseline and the health of the newest attempt, describe one state, of a live
\* monitor and of one restored with --no-poll: "ok" and "error" are of the
\* latest poll, and health is of the latest poll or of the last success.
StatusIsOneAnswer ==
  LET shown == PublicStatus
  IN  /\ shown.collection = "ok" => shown.lastSuccessAt = shown.lastPollAt
      /\ shown.collection = "error" =>
           shown.lastFailedAt = shown.lastPollAt /\ shown.lastSuccessAt <= shown.lastPollAt
      /\ shown.health # NoHealth =>
           /\ shown.health.at \in {shown.lastPollAt, shown.lastSuccessAt}
           /\ shown.lastSuccessAt <= shown.health.at

\* docs/api.md:56, last_successful_poll_at is the "completion time of the latest
\* successful collection": once the baseline has been read, never older than a
\* success in the database, before the first poll of a process too.
NewestSuccessShown ==
  (Quiet \/ mode = "no_poll") /\ previous # NoSnapshot =>
    \A p \in OkPolls : polls[p].at <= PublicStatus.lastSuccessAt

\* A row of /api/summary never pairs a status with a snapshot older than the
\* poll that status names, whatever polls completed between the two calls.
SummaryNotBehind ==
  summary.step = "done" /\ summary.status.lastStored # 0 =>
    summary.status.lastPollAt <= summary.latest.result.at

\* Every reader of the view is shown one state of the monitor, the newest: by
\* /api/v1/status, of which the last success is the newest stored, and by a row
\* of /api/summary.
ReadersSeeOneState == StatusIsOneAnswer /\ NewestSuccessShown /\ SummaryNotBehind
=============================================================================
