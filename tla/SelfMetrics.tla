----------------------------- MODULE SelfMetrics -----------------------------
(***************************************************************************)
(* StatLite's metrics about itself: every request handler adds to a few    *)
(* atomic counters, one after the other, while a scrape of                 *)
(* /statlite/metrics (itself not counted) loads them one after the other.  *)
(* Each atomic operation is an action.  The counters are monotonic 64-bit  *)
(* integers far from their limit; durations are small numbers.             *)
(***************************************************************************)
EXTENDS Integers, Sequences, FiniteSets, Functions

CONSTANTS
  Handlers,     \* goroutines that serve requests
  Headers,      \* statuses a handler may pass to WriteHeader
  Durations,    \* how long a request may take
  MaxWrites,    \* bound: calls of WriteHeader or Write by one handler
  MaxRequests,  \* bound: requests
  MaxScrapes    \* bound: scrapes

Counters == {"requests", "404", "4xx", "5xx", "duration", "max"}

VARIABLES
  total,    \* requestsTotal, notFoundTotal, ..., durationMaxNS
  pc,       \* where each handler is in countRequests
  recorder, \* its statusRecorder: status, wroteHeader; sent: what the client got
  took,     \* the duration of its request
  current,  \* what updateAtomicMax loaded
  document, \* the response the scrape builds, or the last one
  loading,  \* the counters it has not loaded yet, in order
  between,  \* history: the handlers between counting a 404 and counting a 4xx
            \* when the scrape loaded the 404s
  scrapes,  \* how many scrapes were begun
  answered  \* history: the finished requests, [status, took] -> how many

handlers == <<pc, recorder, took, current>>
scraper == <<document, loading, between, scrapes>>
vars == <<total, handlers, scraper, answered>>

NoResponse == [status |-> 200, wrote |-> FALSE, sent |-> 0, writes |-> 0]
Nothing == [c \in Counters |-> 0]
Answers == [status : {200} \cup Headers, took : Durations]

Init ==
  /\ total = Nothing
  /\ pc = [h \in Handlers |-> "idle"]
  /\ recorder = [h \in Handlers |-> NoResponse]
  /\ took = [h \in Handlers |-> 0]
  /\ current = [h \in Handlers |-> 0]
  /\ document = Nothing /\ loading = <<>> /\ between = {} /\ scrapes = 0
  /\ answered = [a \in Answers |-> 0]

-----------------------------------------------------------------------------
(* countRequests around one request.                                       *)

Goto(h, step) == pc' = [pc EXCEPT ![h] = step]

Add(counter, n) == total' = [total EXCEPT ![counter] = @ + n]

Begin(h) ==
  /\ pc[h] = "idle"
  /\ total["requests"] < MaxRequests
  /\ Add("requests", 1)
  /\ Goto(h, "handler")
  /\ UNCHANGED <<recorder, took, current, scraper, answered>>

Informational(status) == status < 200 /\ status # 101

\* net/http sends the first final status and ignores the others (external).
Sent(response, status) ==
  IF response.sent # 0 \/ Informational(status) THEN response.sent ELSE status

\* statusRecorder.WriteHeader
FirstHeader(response, status) ==
  IF response.wrote \/ Informational(status)
  THEN [response EXCEPT !.sent = Sent(response, status), !.writes = @ + 1]
  ELSE [response EXCEPT !.status = status, !.wrote = TRUE, !.sent = Sent(response, status),
                        !.writes = @ + 1]

WriteHeader(h) ==
  /\ pc[h] = "handler"
  /\ recorder[h].writes < MaxWrites
  /\ \E status \in Headers :
       recorder' = [recorder EXCEPT ![h] = FirstHeader(@, status)]
  /\ UNCHANGED <<total, pc, took, current, scraper, answered>>

\* statusRecorder.Write: the first write sends 200.
Write(h) ==
  /\ pc[h] = "handler"
  /\ recorder[h].writes < MaxWrites
  /\ recorder' = [recorder EXCEPT ![h] = FirstHeader(@, 200)]
  /\ UNCHANGED <<total, pc, took, current, scraper, answered>>

\* The handler returns: durationTotalNS.Add
AddDuration(h) ==
  /\ pc[h] = "handler"
  /\ \E d \in Durations :
       /\ took' = [took EXCEPT ![h] = d]
       /\ Add("duration", d)
  /\ Goto(h, "load_max")
  /\ UNCHANGED <<recorder, current, scraper, answered>>

LoadMax(h) ==
  /\ pc[h] = "load_max"
  /\ IF took[h] > total["max"]
     THEN current' = [current EXCEPT ![h] = total["max"]] /\ Goto(h, "swap_max")
     ELSE UNCHANGED current /\ Goto(h, "404")
  /\ UNCHANGED <<total, recorder, took, scraper, answered>>

\* Mutant: a plain store.
StoreMax(h) == total' = [total EXCEPT !["max"] = took[h]] /\ Goto(h, "404")

\* CompareAndSwap; a failed one loads again.
CompareAndSwap(h) ==
  IF total["max"] = current[h]
  THEN total' = [total EXCEPT !["max"] = took[h]] /\ Goto(h, "404")
  ELSE UNCHANGED total /\ Goto(h, "load_max")

SwapMax(h) ==
  /\ pc[h] = "swap_max"
  /\ CompareAndSwap(h)
  /\ current' = [current EXCEPT ![h] = 0]
  /\ UNCHANGED <<recorder, took, scraper, answered>>

\* The status counters, each incremented for the statuses it counts.
Counts(counter, status) ==
  CASE counter = "404" -> status = 404
    [] counter = "4xx" -> status \in 400..499
    [] counter = "5xx" -> status >= 500

Count(h, counter, next) ==
  /\ pc[h] = counter
  /\ Goto(h, next)
  /\ IF Counts(counter, recorder[h].status) THEN Add(counter, 1) ELSE UNCHANGED total
  /\ UNCHANGED <<current, scraper>>

CountNotFound(h) == Count(h, "404", "4xx") /\ UNCHANGED <<recorder, took, answered>>
CountClientError(h) == Count(h, "4xx", "5xx") /\ UNCHANGED <<recorder, took, answered>>

\* The last counter, and the end of the handler's variables; without a write
\* net/http answers 200.
CountServerError(h) ==
  /\ Count(h, "5xx", "idle")
  /\ LET status == IF recorder[h].sent = 0 THEN 200 ELSE recorder[h].sent
     IN  answered' = [answered EXCEPT ![[status |-> status, took |-> took[h]]] = @ + 1]
  /\ recorder' = [recorder EXCEPT ![h] = NoResponse]
  /\ took' = [took EXCEPT ![h] = 0]

-----------------------------------------------------------------------------
(* handleStatliteMetrics.                                                  *)

\* The order of the fields of the composite literal.
LoadOrder == <<"requests", "404", "4xx", "5xx", "duration", "max">>

BeginScrape ==
  /\ loading = <<>>
  /\ scrapes < MaxScrapes
  /\ scrapes' = scrapes + 1
  /\ loading' = LoadOrder
  /\ document' = Nothing /\ between' = {}
  /\ UNCHANGED <<total, handlers, answered>>

Load ==
  /\ loading # <<>>
  /\ document' = [document EXCEPT ![Head(loading)] = total[Head(loading)]]
  /\ between' = IF Head(loading) = "404" THEN {h \in Handlers : pc[h] = "4xx"} ELSE between
  /\ loading' = Tail(loading)
  /\ UNCHANGED <<total, handlers, scrapes, answered>>

Step(h) ==
  \/ AddDuration(h) \/ LoadMax(h) \/ SwapMax(h)
  \/ CountNotFound(h) \/ CountClientError(h) \/ CountServerError(h)

Next ==
  \/ \E h \in Handlers : Begin(h) \/ WriteHeader(h) \/ Write(h) \/ Step(h)
  \/ BeginScrape \/ Load

Spec == Init /\ [][Next]_vars

-----------------------------------------------------------------------------
(* Properties.                                                             *)

Answered(statuses) == SumFunctionOnSet(answered, {a \in Answers : a.status \in statuses})

\* Between requests the counters are exact, and the maximum is the longest
\* duration, whatever headers the handlers wrote and however their additions
\* and swaps interleaved.
ExactWhenIdle ==
  (\A h \in Handlers : pc[h] = "idle") =>
    /\ total["requests"] = SumFunction(answered)
    /\ total["404"] = Answered({404})
    /\ total["4xx"] = Answered(400..499)
    /\ total["5xx"] = Answered(500..599)
    /\ total["duration"] = SumFunction([a \in Answers |-> answered[a] * a.took])
    /\ \A a \in Answers : answered[a] > 0 => a.took <= total["max"]
    /\ total["max"] # 0 => \E a \in Answers : answered[a] > 0 /\ a.took = total["max"]

\* A document is torn by requests in flight, not by those that came and went
\* while it was built: its 404 responses exceed the 4xx ones by no more than the
\* handlers that stood between the two additions when the 404s were loaded.
TornByHandlersOnly ==
  loading = <<>> => document["404"] <= document["4xx"] + Cardinality(between)

\* The counters add up: exactly between requests, and in a document up to the
\* handlers in flight.
MetricsAddUp == ExactWhenIdle /\ TornByHandlersOnly
=============================================================================
