---------------------------- MODULE RunAttribution ----------------------------
(***************************************************************************)
(* The tables a monitor writes (module Monitor), and what the attribution  *)
(* of polls to app runs promises to those who read them.                   *)
(***************************************************************************)
EXTENDS Naturals

VARIABLES
  polls,  \* table polls (with samples and events), id -> result
  runs    \* table app_runs, id -> [start, caddy, first, last]

OkPolls == {p \in DOMAIN polls : polls[p].ok}

Successive(p, q) ==
  /\ p \in OkPolls /\ q \in OkPolls /\ p < q
  /\ \A o \in OkPolls : o <= p \/ q <= o

\* The counters of which two must decrease before a restart is inferred.
CoreCounters == {"http_requests_total", "http_request_time_total_seconds"}

Decreased(s, before, after) ==
  /\ s \in DOMAIN before
  /\ s \in DOMAIN after
  /\ after[s] < before[s]

DecreasedCoreCounters(before, after) ==
  {s \in CoreCounters : Decreased(s, before, after)}

-----------------------------------------------------------------------------
\* A run is never left and entered again: the polls between two polls of one
\* run are in that run.  Deltas are taken within a run, so a run resumed later
\* would be charted across what happened in between.
RunsAreContiguous ==
  \A p, q, o \in OkPolls :
    p < o /\ o < q /\ polls[p].run = polls[q].run => polls[o].run = polls[p].run

\* Two successive polls of one run never hide a process restart: no decrease of
\* the uptime, nor of both core counters, nor of one core counter after a
\* failed poll of the same StatLite process.
NoMaskedReset ==
  \A p, q \in OkPolls :
    Successive(p, q) /\ polls[p].run = polls[q].run =>
      LET drops == DecreasedCoreCounters(polls[p].samples, polls[q].samples)
      IN  /\ ~Decreased("process_uptime", polls[p].samples, polls[q].samples)
          /\ drops # CoreCounters
          /\ drops = {} \/ \A f \in DOMAIN polls \ OkPolls :
                             p < f /\ f < q => polls[f].boot # polls[q].boot

\* monitor.go:45, "EventTypeRestartDetected is recorded when detectAppRun
\* observes a new app run": the event is stored with the first successful poll
\* of the run and with no other poll of it, and it is there when the start time
\* changed.
RestartEventsMarkNewRuns ==
  \A p, q \in OkPolls :
    /\ p # q /\ polls[p].restart /\ polls[q].restart => polls[p].run # polls[q].run
    /\ Successive(p, q) =>
         /\ polls[q].restart => polls[p].run # polls[q].run
         /\ polls[p].start # 0 /\ polls[q].start # 0 /\ polls[p].start # polls[q].start
              => polls[q].restart

\* Counters compared within a run come from one process, when both polls report
\* its start time: docs/product.md:327, "Counter deltas do not cross detected
\* process runs".
DeltasStayInOneProcess ==
  \A p, q \in OkPolls :
    /\ Successive(p, q) /\ polls[p].run = polls[q].run
    /\ polls[p].start # 0 /\ polls[q].start # 0
    => polls[p].seen = polls[q].seen

\* A run of a Caddy target holds the polls of consecutive attempts of one
\* StatLite process: no failed attempt, stored or not, and no restart of StatLite
\* inside it.
CaddyRunsUnbroken ==
  \A p, q \in OkPolls :
    p < q /\ polls[p].run = polls[q].run /\ runs[polls[p].run].caddy =>
      /\ polls[p].boot = polls[q].boot
      /\ polls[q].attempt - polls[p].attempt = q - p
      /\ \A o \in p..q : o \in OkPolls
=============================================================================
