---------------------------- MODULE MCAttribution ----------------------------
(***************************************************************************)
(* Two targets for TLC, checked one beside the other: one whose scrapes    *)
(* are partial and one collected by the Caddy collector.  "target" says    *)
(* which of them the monitor of a behaviour polls; it never changes.  What *)
(* RunAttribution promises of the tables is promised of either.            *)
(***************************************************************************)
EXTENDS FiniteSets, RunAttribution

CONSTANTS
  Loop,
  MaxIncarnation, MaxClock, MaxAttempts, MaxBoots  \* bounds

VARIABLES
  target, now, app, mode, boots, attempts, pollMu, pc, result, pollID,
  baseline, previous, status, latest, health, loopAt, history

\* The start time, the uptime and one of the counters come and go, and saving
\* may fail.
Partial ==
  INSTANCE MonitorProperties WITH
    Callers <- {}, Caddy <- FALSE, OneDocument <- TRUE,
    Exposures <-
      {{"start", "http_requests_total"},
       {"process_uptime", "http_requests_total", "http_request_time_total_seconds"}},
    MaxLevel <- 1, Health <- {""}, Faults <- {"save"}, ClockMayStepBack <- FALSE,
    Retention <- 2, TrailingLimit <- 2

\* Two label tuples, the second of which may appear and vanish, and every
\* storage fault.
Proxy ==
  INSTANCE MonitorProperties WITH
    Callers <- {}, Caddy <- TRUE, OneDocument <- TRUE,
    Exposures <- {{"tuple1"}, {"tuple1", "tuple2"}},
    MaxLevel <- 1, Health <- {""},
    Faults <- {"load", "detect", "save", "reload"}, ClockMayStepBack <- FALSE,
    Retention <- 1, TrailingLimit <- 2

vars == <<target, Partial!vars>>

Init ==
  \/ target = "partial" /\ Partial!Init
  \/ target = "proxy" /\ Proxy!Init

Next ==
  /\ UNCHANGED target
  /\ \/ target = "partial" /\ Partial!Next
     \/ target = "proxy" /\ Proxy!Next

Spec == Init /\ [][Next]_vars
=============================================================================
