-------------------------- MODULE HealthCapability --------------------------
(***************************************************************************)
(* How the Quarkus and Micronaut collectors learn whether the application  *)
(* has a health endpoint at the conventional URL, and when they stop and   *)
(* resume asking.  A collection is two requests, the metrics scrape and    *)
(* the health request, and the application may restart between them.       *)
(* 0 stands for a nil time.                                                *)
(***************************************************************************)
EXTENDS Naturals

CONSTANTS
  Frameworks,        \* "quarkus", "micronaut" or both
  NotFoundOptional,  \* TRUE for the derived URL, FALSE for a configured one
  Scrapes,           \* what a scrape may yield: "start", "no_start", "failed"
  MaxIncarnation     \* bound

ASSUME FrameworkAssumption == Frameworks \subseteq {"quarkus", "micronaut"}
ASSUME OptionalAssumption == NotFoundOptional \in BOOLEAN
ASSUME ScrapesAssumption == Scrapes \subseteq {"start", "no_start", "failed"}
ASSUME BoundAssumption == MaxIncarnation \in Nat \ {0}

VARIABLES
  framework,   \* which of the two collectors this is
  app,         \* the application: incarnation, and whether it serves health
  capability,  \* healthCapability: "unknown", "available" or "absent"
  start,       \* healthProcessStartTime
  pc,          \* "idle", or "health" between the two requests
  poll,        \* the newest collection
  observed,    \* history: the start time reported last to this collector
  answered     \* history: health has answered since that start time changed

vars == <<framework, app, capability, start, pc, poll, observed, answered>>

NoPoll == [metrics |-> FALSE, start |-> 0, changed |-> FALSE, probed |-> FALSE,
           answer |-> "none", warned |-> FALSE]

Differs(old, new) == old # 0 /\ new # 0 /\ old # new

-----------------------------------------------------------------------------
\* Mutant: a changed start time is taken over without reopening discovery.
ShouldProbeHealthKeeping(reported) ==
  /\ capability' = capability
  /\ start' = IF reported = 0 THEN start ELSE reported
  /\ pc' = IF capability' = "absent" THEN "idle" ELSE "health"

\* shouldProbeHealth: another start time reopens discovery.
ShouldProbeHealth(reported) ==
  /\ capability' = IF Differs(start, reported) THEN "unknown" ELSE capability
  /\ start' = IF reported = 0 THEN start ELSE reported
  /\ pc' = IF capability' = "absent" THEN "idle" ELSE "health"

\* Collect, up to the decision whether health is asked for.
Scrape(outcome) ==
  /\ pc = "idle"
  /\ LET reported == IF outcome = "start" THEN app.incarnation ELSE 0
         changed  == Differs(observed, reported)
     IN  /\ ShouldProbeHealth(reported)
         /\ poll' = [NoPoll EXCEPT !.metrics = outcome # "failed", !.start = reported,
                                   !.changed = changed, !.probed = (pc' = "health")]
         /\ observed' = IF reported = 0 THEN observed ELSE reported
         /\ answered' = (answered /\ ~changed)
  /\ UNCHANGED <<framework, app>>

\* markHealthAvailable and markHealthAbsent: only Micronaut keeps the known
\* start time when the scrape reported none.
Mark(c) ==
  /\ capability' = c
  /\ start' = IF framework = "micronaut" /\ poll.start = 0 THEN start ELSE poll.start

\* Mutant: a known endpoint may be missing.
QuietUnlessAbsent ==
  /\ NotFoundOptional
  /\ capability # "absent"
  /\ framework = "micronaut" => poll.metrics

\* A 404 that is no warning.
Quiet ==
  /\ NotFoundOptional
  /\ capability = "unknown"
  /\ framework = "micronaut" => poll.metrics

NotFound ==
  IF Quiet
    THEN /\ poll' = [poll EXCEPT !.answer = "not_found"]
         /\ IF poll.metrics THEN Mark("absent") ELSE UNCHANGED <<capability, start>>
    ELSE /\ poll' = [poll EXCEPT !.answer = "not_found", !.warned = TRUE]
         /\ UNCHANGED <<capability, start>>

FetchHealth ==
  /\ pc = "health" /\ pc' = "idle"
  /\ \/ /\ app.health
        /\ poll' = [poll EXCEPT !.answer = "status"]
        /\ Mark("available") /\ answered' = TRUE
     \/ ~app.health /\ NotFound /\ UNCHANGED answered
     \/ \* any other failure
        /\ poll' = [poll EXCEPT !.answer = "error", !.warned = TRUE]
        /\ UNCHANGED <<capability, start, answered>>
  /\ UNCHANGED <<framework, app, observed>>

\* StatLite restarts: the collector is a new one.
CollectorRestarts ==
  /\ capability' = "unknown" /\ start' = 0 /\ pc' = "idle" /\ poll' = NoPoll
  /\ observed' = 0 /\ answered' = FALSE
  /\ UNCHANGED <<framework, app>>

AppRestarts ==
  /\ app.incarnation < MaxIncarnation
  /\ \E h \in BOOLEAN : app' = [incarnation |-> app.incarnation + 1, health |-> h]
  /\ UNCHANGED <<framework, capability, start, pc, poll, observed, answered>>

\* A gateway or a security setting hides or shows the endpoint.
HealthToggles ==
  /\ app' = [app EXCEPT !.health = ~@]
  /\ UNCHANGED <<framework, capability, start, pc, poll, observed, answered>>

-----------------------------------------------------------------------------
Init ==
  /\ framework \in Frameworks
  /\ app \in [incarnation : {1}, health : BOOLEAN]
  /\ capability = "unknown" /\ start = 0 /\ pc = "idle" /\ poll = NoPoll
  /\ observed = 0 /\ answered = FALSE

Next ==
  \/ \E outcome \in Scrapes : Scrape(outcome)
  \/ FetchHealth \/ CollectorRestarts \/ AppRestarts \/ HealthToggles

Spec == Init /\ [][Next]_vars

-----------------------------------------------------------------------------
(* Properties.                                                             *)

Times == 0..MaxIncarnation

\* Every variable has its type, and the health request is pending exactly
\* while discovery is not closed.
TypeOK ==
  /\ framework \in Frameworks
  /\ app \in [incarnation : Times \ {0}, health : BOOLEAN]
  /\ capability \in {"unknown", "available", "absent"}
  /\ start \in Times
  /\ pc \in {"idle", "health"}
  /\ poll \in [metrics : BOOLEAN, start : Times, changed : BOOLEAN, probed : BOOLEAN,
               answer : {"none", "status", "not_found", "error"}, warned : BOOLEAN]
  /\ observed \in Times
  /\ answered \in BOOLEAN
  /\ pc = "health" => poll.probed /\ capability # "absent"

\* docs/targets/quarkus.md:63, "Health discovery resumes when the observed
\* process-start identity changes": a collection that reports another start time
\* than the one reported last asks for health, whatever was concluded before.
DiscoveryResumes == poll.changed => poll.probed

\* micronaut.go:153, "A failed or partial metrics scrape must not erase the
\* restart baseline": Micronaut's discovery resumes across any such scrapes.
MicronautResumes == framework = "micronaut" => DiscoveryResumes

\* Once health has answered, its loss is a warning in every collection until
\* the process changes, and discovery stays open.
LossIsReported ==
  answered => /\ poll.answer = "not_found" => poll.warned
              /\ capability # "absent"
=============================================================================
