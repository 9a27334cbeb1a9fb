--------------------------- MODULE CaddyCollector ---------------------------
(***************************************************************************)
(* The counters of one Caddy host.  Caddy keeps a count and a duration for *)
(* every tuple of labels; the collector adds them up and remembers the     *)
(* tuples of its last successful collection, to tell the monitor when the  *)
(* sums of two collections must not be compared (CounterContinuityBreak).  *)
(*                                                                         *)
(* Other hosts and handlers are left out, and so is the float arithmetic.  *)
(***************************************************************************)
EXTENDS Integers, FiniteSets, Functions

CONSTANTS
  Labels,          \* tuples of labels beside the server's: [code : 100..599, method]
  Servers,         \* names of Caddy servers that may route the host
  MaxTuples,       \* caddyMaxTuples
  MaxRequests,     \* bound: requests served
  MaxResets,       \* bound: resets of Caddy's registry
  MaxCollections   \* bound: collections

VARIABLES
  server,       \* the Caddy server that routes the host now
  exposed,      \* Caddy's registry: [server, label] -> [count, sum]
  traffic,      \* history: label -> [count, sum] ever served
  baseline,     \* CaddyCollector.previous, a function like exposed
  known,        \* FALSE when previous is nil
  from,         \* CaddyCollector.server
  result,       \* the last collection
  before,       \* the one before it
  good,         \* the last successful one before result
  resets, collections  \* counters of the bounds

caddy == <<server, exposed, traffic, resets>>
collector == <<baseline, known, from, result, before, good, collections>>
vars == <<caddy, collector>>

Keys == {"http_requests_total", "http_404_total", "http_4xx_total", "http_5xx_total",
         "http_request_time_total_seconds"}

\* The codes a key counts.
Codes(key) ==
  CASE key = "http_404_total" -> {404}
    [] key = "http_4xx_total" -> 400..499
    [] key = "http_5xx_total" -> 500..599
    [] OTHER -> 100..599

Zero == [count |-> 0, sum |-> 0]
NoTuples == [t \in {} |-> Zero]
NoResult == [ok |-> FALSE, break |-> FALSE, totals |-> [key \in Keys |-> 0],
             traffic |-> [key \in Keys |-> 0], resets |-> 0]

\* What a row adds to a key.
Amount(key, row) == IF key = "http_request_time_total_seconds" THEN row.sum ELSE row.count

\* caddyPopulation.totals
Totals(f) ==
  [key \in Keys |->
     SumFunctionOnSet([t \in DOMAIN f |-> Amount(key, f[t])],
                      {t \in DOMAIN f : t.code \in Codes(key)})]

Tuple(l) == [server |-> server, code |-> l.code, method |-> l.method]

Init ==
  /\ server \in Servers
  /\ exposed = NoTuples
  /\ traffic = [l \in Labels |-> Zero]
  /\ baseline = NoTuples /\ known = FALSE /\ from = ""
  /\ result = NoResult /\ before = NoResult /\ good = NoResult
  /\ resets = 0 /\ collections = 0

-----------------------------------------------------------------------------
(* Caddy (external).                                                       *)

Served == SumFunctionOnSet([l \in Labels |-> traffic[l].count], Labels)

\* A request is counted, its duration added.
Serve(l, duration) ==
  /\ Served < MaxRequests
  /\ LET t == Tuple(l)
         Added(row) == [count |-> row.count + 1, sum |-> row.sum + duration]
     IN  /\ exposed' = [u \in DOMAIN exposed \cup {t} |->
                          IF u # t THEN exposed[u]
                          ELSE Added(IF t \in DOMAIN exposed THEN exposed[t] ELSE Zero)]
         /\ traffic' = [traffic EXCEPT ![l] = Added(@)]
  /\ UNCHANGED <<server, resets, collector>>

\* A restart or a reload loses tuples and may route the host elsewhere.
Reset ==
  /\ resets < MaxResets
  /\ resets' = resets + 1
  /\ server' \in Servers
  /\ \E lost \in SUBSET DOMAIN exposed :
       exposed' = [t \in DOMAIN exposed \ lost |-> exposed[t]]
  /\ UNCHANGED <<traffic, collector>>

-----------------------------------------------------------------------------
(* Collect.                                                                *)

\* One server's tuples, not too many of them, at least one.
Usable ==
  /\ exposed # NoTuples
  /\ \A t, u \in DOMAIN exposed : t.server = u.server
  /\ Cardinality(DOMAIN exposed) <= MaxTuples

\* Mutant: a tuple that is gone does not matter.
DiffersWhereBoth ==
  \E t \in DOMAIN baseline \cap DOMAIN exposed :
    exposed[t].count < baseline[t].count \/ exposed[t].sum < baseline[t].sum

\* A tuple of the baseline is gone or has decreased.
TuplesReset ==
  \E t \in DOMAIN baseline :
    \/ t \notin DOMAIN exposed
    \/ exposed[t].count < baseline[t].count
    \/ exposed[t].sum < baseline[t].sum

ServerOf(f) == (CHOOSE t \in DOMAIN f : TRUE).server

Publish(r) ==
  /\ result' = r
  /\ before' = result
  /\ good' = IF result.ok THEN result ELSE good

CollectSucceeds ==
  /\ Usable
  /\ Publish([ok |-> TRUE,
              break |-> ~known \/ from # ServerOf(exposed) \/ TuplesReset,
              totals |-> Totals(exposed), traffic |-> Totals(traffic),
              resets |-> resets])
  /\ baseline' = exposed /\ known' = TRUE /\ from' = ServerOf(exposed)

ForgetBaseline == baseline' = NoTuples /\ known' = FALSE /\ from' = ""

\* No answer, a malformed sample or pair, or an unusable population.
CollectFails ==
  /\ Publish(NoResult)
  /\ ForgetBaseline

Collect ==
  /\ collections < MaxCollections
  /\ collections' = collections + 1
  /\ CollectSucceeds \/ CollectFails
  /\ UNCHANGED caddy

\* StatLite restarts with a new collector.
Recreate ==
  /\ result # NoResult
  /\ ForgetBaseline
  /\ Publish(NoResult)
  /\ UNCHANGED <<caddy, collections>>

Next ==
  \/ \E l \in Labels, duration \in {0, 1} : Serve(l, duration)
  \/ Reset \/ Collect \/ Recreate

Spec == Init /\ [][Next]_vars

-----------------------------------------------------------------------------
(* Properties.                                                             *)

\* What is charted between two successful collections without a break was
\* served between them: no delta is negative, and none exceeds the traffic,
\* however tuples came, went and grew again meanwhile.
DeltasAreTraffic ==
  result.ok /\ good.ok /\ ~result.break =>
    \A key \in Keys :
      LET delta == result.totals[key] - good.totals[key]
      IN  0 <= delta /\ delta <= result.traffic[key] - good.traffic[key]

\* docs/targets/caddy.md:146, "New complete method/status tuples can join
\* without a break": while Caddy resets nothing, successive collections are
\* compared and the deltas are the whole traffic.
NewTuplesJoin ==
  result.ok /\ before.ok /\ before.resets = result.resets =>
    /\ ~result.break
    /\ \A key \in Keys :
         result.totals[key] - before.totals[key] = result.traffic[key] - before.traffic[key]

\* The summed tuples are compared neither too often nor too seldom.
DeltasAreServed == DeltasAreTraffic /\ NewTuplesJoin
=============================================================================
