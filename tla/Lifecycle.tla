------------------------------ MODULE Lifecycle ------------------------------
(***************************************************************************)
(* One process of StatLite from storage.Open to its exit: main, the        *)
(* goroutine that waits for a signal and shuts the HTTP server down, the   *)
(* one that serves, the storage check behind /healthz and the requests     *)
(* that read its last verdict.  What net/http does is marked external.     *)
(***************************************************************************)
EXTENDS Naturals

CONSTANT Requests  \* requests for /healthz

VARIABLES
  main,       \* where runMonitor is
  signalled,  \* the context of NotifyContext is done
  store,      \* "none", "open", "closed"
  shutdown,   \* the goroutine that calls Server.Shutdown
  serving,    \* the goroutine that calls Server.Serve
  inShutdown, \* http.Server: Shutdown was called
  serveErr,   \* the channel has a value
  checks,     \* the context of the storage checks: "none", "live", "cancelled"
  cancelSet,  \* Server.storageCancel # nil
  toCancel,   \* who took storageCancel and has yet to call it
  checker,    \* the goroutine of the ticker
  verdict,    \* of a check that has not published it yet
  storageHealth,
  request     \* where each request is; at last, what it was told

boot == <<main, store>>
http == <<shutdown, serving, inShutdown, serveErr>>
healthChecks == <<checks, cancelSet, toCancel, checker, verdict, storageHealth>>
processVars == <<main, signalled, store, shutdown, serving, inShutdown, serveErr,
                 checks, cancelSet, toCancel, checker, verdict, storageHealth, request>>

ProcessInit ==
  /\ main = "open" /\ signalled = FALSE /\ store = "none"
  /\ shutdown = "none" /\ serving = "none" /\ inShutdown = FALSE /\ serveErr = FALSE
  /\ checks = "none" /\ cancelSet = FALSE /\ toCancel = {}
  /\ checker = "none" /\ verdict = "unknown" /\ storageHealth = "unknown"
  /\ request = [r \in Requests |-> "none"]

Running == main # "exited"

-----------------------------------------------------------------------------
(* runMonitor.                                                             *)

Signal ==
  /\ Running
  /\ signalled' = TRUE
  /\ UNCHANGED <<boot, http, healthChecks, request>>

\* A failed open closes its handle and is returned at once; with the context
\* done it fails.
OpenStore ==
  /\ main = "open"
  /\ \/ ~signalled /\ store' = "open" /\ main' = "prepare"
     \/ UNCHANGED store /\ main' = "exited"
  /\ UNCHANGED <<signalled, http, healthChecks, request>>

\* RegisterTargets, Listen and the first cleanup; the goroutines start last.
Prepare ==
  /\ main = "prepare"
  /\ \/ /\ main' = "wait"
        /\ shutdown' = "waiting"
        /\ serving' = "start"
     \/ /\ main' = "return"
        /\ UNCHANGED <<shutdown, serving>>
  /\ UNCHANGED <<signalled, store, inShutdown, serveErr, healthChecks, request>>

ReceiveServeErr ==
  /\ main = "wait" /\ serveErr
  /\ main' = "return"
  /\ UNCHANGED <<signalled, store, http, healthChecks, request>>

\* The deferred store.Close and stop, then the process ends with every
\* goroutine, the drain of Server.Shutdown included.
CloseStore ==
  /\ main = "return" /\ store = "open"
  /\ store' = "closed"
  /\ UNCHANGED <<main, signalled, http, healthChecks, request>>

StopAndExit ==
  /\ main = "return" /\ store # "open"
  /\ main' = "exited" /\ signalled' = TRUE
  /\ UNCHANGED <<store, http, healthChecks, request>>

-----------------------------------------------------------------------------
(* The storage checks.                                                     *)

\* stopStorageHealthChecks takes the function under the lock and calls it after.
TakeCancel(g) ==
  /\ cancelSet' = FALSE
  /\ toCancel' = IF cancelSet THEN toCancel \cup {g} ELSE toCancel
  /\ UNCHANGED <<checks, checker, verdict, storageHealth>>

CallCancel(g) ==
  /\ toCancel' = toCancel \ {g}
  /\ checks' = IF g \in toCancel THEN "cancelled" ELSE checks
  /\ UNCHANGED <<cancelSet, checker, verdict, storageHealth>>

\* Ping, within storageHealthCheckTimeout; the one connection may be busy.
Ping ==
  /\ verdict' \in IF checks = "live" /\ store = "open" THEN {"ok", "error"} ELSE {"error"}
  /\ UNCHANGED <<checks, cancelSet, toCancel, storageHealth>>

Publish ==
  /\ storageHealth' = verdict
  /\ UNCHANGED <<checks, cancelSet, toCancel, verdict>>

\* With a tick and a done context both ready, select takes either.
Tick ==
  /\ Running /\ checker = "ticker"
  /\ checker' = "publish" /\ Ping
  /\ UNCHANGED <<boot, signalled, http, request>>

PublishTick ==
  /\ Running /\ checker = "publish"
  /\ checker' = "ticker" /\ Publish
  /\ UNCHANGED <<boot, signalled, http, request>>

ChecksDone ==
  /\ Running /\ checker = "ticker" /\ checks = "cancelled"
  /\ checker' = "done"
  /\ UNCHANGED <<boot, signalled, http, request, checks, cancelSet, toCancel,
                 verdict, storageHealth>>

-----------------------------------------------------------------------------
(* Server.Serve.                                                           *)

ServeGoto(step) ==
  /\ serving' = step
  /\ UNCHANGED <<shutdown, inShutdown, boot, signalled, request>>

StartChecks ==
  /\ Running /\ serving = "start"
  /\ checks' = "live" /\ cancelSet' = TRUE
  /\ ServeGoto("first_check")
  /\ UNCHANGED <<serveErr, toCancel, checker, verdict, storageHealth>>

\* The first check runs before the goroutine of the ticker and before Accept.
FirstCheck ==
  /\ Running /\ serving = "first_check"
  /\ Ping /\ ServeGoto("first_verdict")
  /\ UNCHANGED <<serveErr, checker>>

\* Mutant: the first check is left to the goroutine.
LaunchUnpublished ==
  /\ checker' = "publish"
  /\ UNCHANGED <<checks, cancelSet, toCancel, verdict, storageHealth>>

LaunchChecker == checker' = "ticker" /\ Publish

FirstVerdict ==
  /\ Running /\ serving = "first_verdict"
  /\ LaunchChecker /\ ServeGoto("accept")
  /\ UNCHANGED serveErr

\* http.Server.Serve returns once Shutdown was called, before or after it, or
\* when the listener fails (external).
ServeReturns ==
  /\ Running /\ serving = "accept"
  /\ ServeGoto("stop_checks")
  /\ UNCHANGED <<serveErr, healthChecks>>

\* Mutant: only Shutdown stops the checks.
LeaveChecks == UNCHANGED healthChecks

ServeTakesCancel == TakeCancel("serve")

ServeStopsChecks ==
  /\ Running /\ serving = "stop_checks"
  /\ ServeTakesCancel /\ ServeGoto("cancel_checks")
  /\ UNCHANGED serveErr

ServeCancelsChecks ==
  /\ Running /\ serving = "cancel_checks"
  /\ CallCancel("serve") /\ ServeGoto("report")
  /\ UNCHANGED serveErr

\* Mutant: ErrServerClosed is not reported.
ReportErrors == serveErr' = ~inShutdown

\* serveErr <- err, or nil for ErrServerClosed.
SendServeErr == serveErr' = TRUE

Report ==
  /\ Running /\ serving = "report"
  /\ SendServeErr /\ ServeGoto("done")
  /\ UNCHANGED healthChecks

-----------------------------------------------------------------------------
(* Server.Shutdown.                                                        *)

ShutdownGoto(step) ==
  /\ shutdown' = step
  /\ UNCHANGED <<serving, serveErr, boot, signalled, request>>

ShutdownStopsChecks ==
  /\ Running /\ shutdown = "waiting" /\ signalled
  /\ TakeCancel("shutdown") /\ ShutdownGoto("cancel_checks")
  /\ UNCHANGED inShutdown

ShutdownCancelsChecks ==
  /\ Running /\ shutdown = "cancel_checks"
  /\ CallCancel("shutdown") /\ ShutdownGoto("close")
  /\ UNCHANGED inShutdown

\* http.Server.Shutdown closes the listener and waits for the requests or ten
\* seconds (external); nobody waits for it.
ShutdownHTTP ==
  /\ Running /\ shutdown = "close"
  /\ inShutdown' = TRUE
  /\ ShutdownGoto("draining")
  /\ UNCHANGED healthChecks

-----------------------------------------------------------------------------
(* /healthz.                                                               *)

Answer(r, what) ==
  /\ request' = [request EXCEPT ![r] = what]
  /\ UNCHANGED <<boot, signalled, http, healthChecks>>

AcceptRequest(r) ==
  /\ Running /\ request[r] = "none" /\ serving = "accept" /\ ~inShutdown
  /\ Answer(r, "accepted")

\* storageAvailable
CheckAvailable(r) ==
  /\ Running /\ request[r] = "accepted"
  /\ Answer(r, IF store = "open" THEN "available" ELSE "error")

\* The cached verdict, under its lock.
ReadVerdict(r) ==
  /\ Running /\ request[r] = "available"
  /\ Answer(r, storageHealth)

-----------------------------------------------------------------------------
ProcessNext ==
  \/ Signal
  \/ OpenStore \/ Prepare \/ ReceiveServeErr \/ CloseStore \/ StopAndExit
  \/ Tick \/ PublishTick \/ ChecksDone
  \/ StartChecks \/ FirstCheck \/ FirstVerdict
  \/ ServeReturns \/ ServeStopsChecks \/ ServeCancelsChecks \/ Report
  \/ ShutdownStopsChecks \/ ShutdownCancelsChecks \/ ShutdownHTTP
  \/ \E r \in Requests : AcceptRequest(r) \/ CheckAvailable(r) \/ ReadVerdict(r)

ProcessSpec == ProcessInit /\ [][ProcessNext]_processVars

\* Every goroutine that can run does.  Signals, ticks, requests and the failure
\* of a listener owe nothing.
ProcessFairness ==
  /\ WF_processVars(OpenStore) /\ WF_processVars(Prepare) /\ WF_processVars(ReceiveServeErr)
  /\ WF_processVars(CloseStore) /\ WF_processVars(StopAndExit)
  /\ WF_processVars(StartChecks) /\ WF_processVars(FirstCheck) /\ WF_processVars(FirstVerdict)
  /\ WF_processVars(inShutdown /\ ServeReturns)
  /\ WF_processVars(ServeStopsChecks) /\ WF_processVars(ServeCancelsChecks) /\ WF_processVars(Report)
  /\ WF_processVars(ShutdownStopsChecks) /\ WF_processVars(ShutdownCancelsChecks)
  /\ WF_processVars(ShutdownHTTP)

FairProcessSpec == ProcessSpec /\ ProcessFairness

-----------------------------------------------------------------------------
(* Properties.                                                             *)

\* main.go:255-256, requests "cannot observe partial startup initialization": no
\* answer of /healthz is the verdict of a check that has not been made.
NoUnknownAnswer == \A r \in Requests : request[r] # "unknown"

\* Once Serve has returned no storage check goes on, whoever stopped the checks
\* first, and if Shutdown was called before they had begun.
ChecksStopped ==
  serving \in {"report", "done"} /\ toCancel = {} => checks = "cancelled" /\ ~cancelSet

\* A signal ends the process wherever it comes: while the database opens,
\* before Serve, during its first check or with requests in flight.
SignalEndsProcess == signalled ~> main = "exited"
=============================================================================
