-------------------------------- MODULE MCLive --------------------------------
(***************************************************************************)
(* What must go on, for TLC: one target's monitor and, beside it, the      *)
(* process from its start to its exit.  "part" says which of them a        *)
(* behaviour is about; it never changes, and neither do the variables of   *)
(* the other: a monitor of a process that is down, or a process that has   *)
(* exited, which fairness asks nothing of.                                 *)
(***************************************************************************)
EXTENDS MonitorProperties, Lifecycle

VARIABLE part

\* A target whose scrapes are partial: the start time, the uptime and one of the
\* counters come and go.
Partial ==
  {{"start", "http_requests_total"},
   {"process_uptime", "http_requests_total", "http_request_time_total_seconds"}}

allVars == <<part, vars, processVars>>

Exited ==
  /\ main = "exited" /\ signalled = TRUE /\ store = "none"
  /\ shutdown = "none" /\ serving = "none" /\ inShutdown = FALSE /\ serveErr = FALSE
  /\ checks = "none" /\ cancelSet = FALSE /\ toCancel = {}
  /\ checker = "none" /\ verdict = "unknown" /\ storageHealth = "unknown"
  /\ request = [r \in Requests |-> "none"]

LiveInit ==
  /\ Init
  /\ \/ part = "monitor" /\ Exited
     \/ part = "process" /\ ProcessInit

LiveNext ==
  /\ UNCHANGED part
  /\ \/ part = "monitor" /\ Next /\ UNCHANGED processVars
     \/ part = "process" /\ ProcessNext /\ UNCHANGED vars

LiveSpec == LiveInit /\ [][LiveNext]_allVars /\ Fairness /\ ProcessFairness
=============================================================================
