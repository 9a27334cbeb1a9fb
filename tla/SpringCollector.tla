--------------------------- MODULE SpringCollector ---------------------------
(***************************************************************************)
(* Collecting from a Spring application: the choice between its Prometheus *)
(* document and its Actuator endpoints, and the session of one Actuator    *)
(* collection, which is a request for the sum of all responses, one for    *)
(* each status seen, and one for the start time, while the application     *)
(* serves requests and may restart between any two of them.                *)
(*                                                                         *)
(* Gauges (heap, CPU, host resources) are left out: they change nothing in *)
(* the collector.  Durations follow the request count.                     *)
(***************************************************************************)
EXTENDS Naturals, FiniteSets, Functions

CONSTANTS
  Statuses,        \* HTTP statuses the application answers with, of 100..599
  Configured,      \* metrics_source: "auto", "prometheus" or "actuator"
  Exposures,       \* what a Prometheus scrape may find, see below
  Failures,        \* TRUE when an Actuator request may fail
  MaxCount,        \* bound: answers of one process
  MaxIncarnation,  \* bound: processes of the application
  MaxCollections   \* bound: collections

ASSUME StatusesAssumption == Statuses \subseteq 100..599

\* A scrape finds "compatible": the start time and a supported family; "unlabelled": the same
\* with a sample that has no status label; "incompatible": neither; "absent":
\* 404; "failed": any other failure.

VARIABLES
  incarnation,  \* the running process of the application
  count,        \* status -> answers of this process so far
  selected,     \* SpringActuatorCollector.selectedSource, "" while undecided
  pc,           \* where Collect is
  begun,        \* the incarnation when Collect began
  samples,      \* the http_requests_total sample of this collection, if any
  listed,       \* whether the statuses were listed
  todo,         \* Actuator requests to make: [key, status]
  answers,      \* session.rawResults by request, and for whom it was made
  result,       \* the last CollectionResult
  previous,     \* the one before it
  collections,  \* how many collections were begun
  denied        \* history: a scrape by this collector found no such endpoint

application == <<incarnation, count>>
session == <<begun, samples, listed, todo, answers>>
results == <<result, previous>>
vars == <<application, selected, pc, session, results, collections, denied>>

Keys == {"http_404_total", "http_4xx_total", "http_5xx_total"}

StatusesOf(key) ==
  CASE key = "http_404_total" -> Statuses \cap {404}
    [] key = "http_4xx_total" -> Statuses \cap 400..499
    [] key = "http_5xx_total" -> Statuses \cap 500..599

\* The order of the calls of collectHTTPStatusTotal.
Rank(key) ==
  CASE key = "http_404_total" -> 1 [] key = "http_4xx_total" -> 2
    [] key = "http_5xx_total" -> 3

Failed == [ok |-> FALSE, value |-> 0]
Answer(n) == [ok |-> TRUE, value |-> n]

NoSamples == [key \in {} |-> 0]
NoAnswers == [r \in {} |-> Failed]
NoResult == [source |-> "", samples |-> NoSamples, start |-> 0, from |-> 0, ok |-> FALSE]

Total(S) == SumFunctionOnSet(count, S)
Seen == {s \in Statuses : count[s] > 0}

Init ==
  /\ incarnation = 1
  /\ count = [s \in Statuses |-> 0]
  /\ selected = IF Configured = "auto" THEN "" ELSE Configured
  /\ pc = "idle"
  /\ begun = 0 /\ samples = NoSamples
  /\ listed = FALSE /\ todo = {} /\ answers = NoAnswers
  /\ result = NoResult /\ previous = NoResult
  /\ collections = 0 /\ denied = FALSE

-----------------------------------------------------------------------------
(* The application.                                                        *)

Serve(s) ==
  /\ Total(Statuses) < MaxCount
  /\ count' = [count EXCEPT ![s] = @ + 1]
  /\ UNCHANGED <<incarnation, selected, pc, session, results, collections, denied>>

Restart ==
  /\ incarnation < MaxIncarnation
  /\ incarnation' = incarnation + 1
  /\ count' = [s \in Statuses |-> 0]
  /\ UNCHANGED <<selected, pc, session, results, collections, denied>>

-----------------------------------------------------------------------------
(* Collect.                                                                *)

Collect ==
  /\ pc = "idle"
  /\ collections < MaxCollections
  /\ collections' = collections + 1
  /\ begun' = incarnation
  /\ pc' = IF selected = "actuator" THEN "http" ELSE "prometheus"
  /\ UNCHANGED <<application, selected, samples, listed, todo, answers, results, denied>>

\* Collect's end, and its session's: without a sample there is no success,
\* whatever else was found.
Finish(source, found, start) ==
  /\ pc' = "idle"
  /\ previous' = result
  /\ result' = [source |-> source, samples |-> found, start |-> start,
                from |-> begun, ok |-> start # 0 \/ DOMAIN found # {}]
  /\ begun' = 0 /\ samples' = NoSamples
  /\ listed' = FALSE /\ todo' = {} /\ answers' = NoAnswers

\* What addPrometheusSamples makes of one document: nothing before the first
\* request, no errors unless every sample has its status label.
Document(labelled) ==
  [key \in IF Seen = {} THEN {}
           ELSE {"http_requests_total"} \cup (IF Seen \subseteq labelled THEN Keys ELSE {}) |->
     Total(IF key \in Keys THEN StatusesOf(key) \cap labelled ELSE Statuses)]

Select(source) == selected' = source

\* Mutant: any failed scrape makes auto fall back.
FallsBackOnFailure(exposure) == exposure \in {"incompatible", "absent", "failed"}

\* A valid document of something else, or a 404.
FallsBack(exposure) == exposure \in {"incompatible", "absent"}

\* One document of one process.  In auto mode the first conclusive one decides;
\* any other failure ends the collection without samples.
ScrapePrometheus ==
  /\ pc = "prometheus"
  /\ \E exposure \in Exposures :
       /\ \/ /\ exposure \in {"compatible", "unlabelled"}
             /\ Select("prometheus")
             /\ \E labelled \in IF exposure = "compatible" THEN {Statuses} ELSE SUBSET Statuses :
                  Finish("prometheus", Document(labelled), incarnation)
          \/ /\ selected = "" /\ FallsBack(exposure)
             /\ Select("actuator")
             /\ pc' = "http"
             /\ UNCHANGED <<session, results>>
          \/ /\ exposure \notin {"compatible", "unlabelled"}
             /\ selected = "prometheus" \/ ~FallsBack(exposure)
             /\ Finish(selected, NoSamples, 0)
             /\ UNCHANGED selected
       /\ denied' = (denied \/ exposure \in {"incompatible", "absent"})
  /\ UNCHANGED <<application, collections>>

\* GET metrics/http.server.requests: the sum over all statuses and the list of
\* them, of which either may be missing; 404 before the first request.
FetchRequests ==
  /\ pc = "http"
  /\ \E counted, tagged \in IF Failures THEN BOOLEAN ELSE {TRUE} :
       \/ /\ Seen # {}
          /\ samples' = [key \in IF counted THEN {"http_requests_total"} ELSE {} |->
                          Total(Statuses)]
          /\ listed' = tagged
          /\ todo' = {r \in [key : Keys, status : IF tagged THEN Seen ELSE {}] :
                        r.status \in StatusesOf(r.key)}
       \/ /\ Failures \/ Seen = {}
          /\ UNCHANGED <<samples, listed, todo>>
  /\ pc' = "statuses"
  /\ UNCHANGED <<application, selected, begun, answers, results, collections, denied>>

\* The answers this session already has for a status.
Cached(status) == {answers[r] : r \in {q \in DOMAIN answers : q.status = status}}

\* The request of one status for one key; what the session has already
\* fetched, a failure included, is not fetched again.
FetchStatus ==
  /\ pc = "statuses"
  /\ \E r \in todo :
       /\ \A q \in todo : Rank(r.key) <= Rank(q.key)
       /\ \E a \in IF Cached(r.status) # {} THEN Cached(r.status)
                   ELSE (IF count[r.status] > 0 THEN {Answer(count[r.status])} ELSE {Failed})
                        \cup (IF Failures THEN {Failed} ELSE {}) :
            answers' = [q \in DOMAIN answers \cup {r} |-> IF q = r THEN a ELSE answers[q]]
       /\ todo' = todo \ {r}
  /\ UNCHANGED <<application, selected, pc, begun, samples, listed, results, collections, denied>>

AnswersFor(key) == {r \in DOMAIN answers : r.key = key}

\* Mutant: what could be fetched is published as the total.
PartialTotals == IF listed THEN Keys ELSE {}

\* A key is published when every one of its requests was answered, 0 when it
\* had none; nothing is known of it without the list of statuses.
CompleteTotals ==
  {key \in Keys : listed /\ \A r \in AnswersFor(key) : answers[r].ok}

\* GET metrics/process.start.time, the last request.
FetchStartTime ==
  /\ pc = "statuses" /\ todo = {}
  /\ \E start \in {incarnation} \cup (IF Failures THEN {0} ELSE {}) :
       Finish("actuator",
              [key \in DOMAIN samples \cup CompleteTotals |->
                 IF key \in Keys
                 THEN SumFunctionOnSet([r \in DOMAIN answers |-> answers[r].value], AnswersFor(key))
                 ELSE samples[key]],
              start)
  /\ UNCHANGED <<application, selected, collections, denied>>

\* StatLite restarts: a new collector.
Recreate ==
  /\ pc = "idle" /\ result # NoResult
  /\ selected' = IF Configured = "auto" THEN "" ELSE Configured
  /\ result' = NoResult /\ previous' = NoResult
  /\ denied' = FALSE
  /\ UNCHANGED <<application, pc, session, collections>>

Next ==
  \/ \E s \in Statuses : Serve(s)
  \/ Restart \/ Collect \/ ScrapePrometheus
  \/ FetchRequests \/ FetchStatus \/ FetchStartTime \/ Recreate

Spec == Init /\ [][Next]_vars

-----------------------------------------------------------------------------
(* Properties.                                                             *)

\* Whatever was served or restarted between the requests of one collection,
\* its 404 responses are among its 4xx responses: the two totals share the
\* session's answer for 404.
NotFoundWithinClientErrors ==
  {"http_404_total", "http_4xx_total"} \subseteq DOMAIN result.samples =>
    result.samples["http_404_total"] <= result.samples["http_4xx_total"]

\* Automatic selection settles for Actuator only when a scrape found that there
\* is no such Prometheus endpoint; no sequence of failed scrapes gets it there.
FailuresNeverDowngrade ==
  Configured = "auto" /\ "actuator" \in {selected, result.source} => denied

\* Successive collections within one process of the application never show a
\* total decrease, failed requests and new statuses notwithstanding.
NoPhantomReset ==
  previous.ok /\ result.ok /\ previous.from = incarnation =>
    \A key \in DOMAIN previous.samples \cap DOMAIN result.samples :
      previous.samples[key] <= result.samples[key]

\* The totals made from many requests fit together, in one collection and from
\* one to the next.
TotalsAreConsistent == NotFoundWithinClientErrors /\ NoPhantomReset
=============================================================================
