------------------------- MODULE MicrometerCollector -------------------------
(***************************************************************************)
(* The whole Collect of a Quarkus or Micronaut target: the scrape, whose   *)
(* samples are folded into fixed-size aggregates one by one as they are    *)
(* parsed, and then the health request (module HealthCapability).          *)
(*                                                                         *)
(* A series stands for its full set of labels; code 0 marks labels the     *)
(* framework's validator rejects.  -1 stands for every value that is not   *)
(* finite and nonnegative, MaxTotal for the largest float.                 *)
(***************************************************************************)
EXTENDS HealthCapability, Integers, FiniteSets, Functions, BagsExt

CONSTANTS
  Series,         \* series of the HTTP timer, [id, code]
  Values,         \* values of its samples
  MaxTotal,
  MatchingLimit,  \* micrometerHTTPMatchingStateLimit
  MaxSamples      \* bound: samples of one document

ASSUME SeriesAssumption == \A s \in Series : s.code \in {0} \cup 100..599
ASSUME ValuesAssumption == Values \subseteq -1..MaxTotal
ASSUME LimitsAssumption ==
  MaxTotal \in Nat /\ MaxIncarnation <= MaxTotal /\ MatchingLimit \in Nat /\ MaxSamples \in Nat

VARIABLES
  http,      \* micrometerHTTPValues
  runtime,   \* micrometerRuntimeValues
  document   \* history: the samples of this document so far, a bag

scrape == <<http, runtime, document>>

Requests == "http_requests_total"
Time == "http_request_time_total_seconds"
StatusKeys == {"http_404_total", "http_4xx_total", "http_5xx_total"}
HTTPKeys == {Requests, Time} \cup StatusKeys
RuntimeKeys == {"process_cpu_usage", "jvm_heap_used_bytes", "process_start_time",
                "process_uptime"}

\* What a count of this status is added to.
KeysOf(code) ==
  {Requests} \cup {k \in StatusKeys :
    \/ k = "http_404_total" /\ code = 404
    \/ k = "http_4xx_total" /\ code \in 400..499
    \/ k = "http_5xx_total" /\ code >= 500}

\* counted and timed: the identities in countDimensions and durationDimensions,
\* none of which is there twice; sawCount and sawDuration differ from their not
\* being empty only after matchingOverflow, when nothing depends on it.
NoHTTP ==
  [totals |-> [k \in HTTPKeys |-> 0], overflow |-> {}, counted |-> {}, timed |-> {},
   invalid |-> {}, duplicate |-> {}, matchingOverflow |-> FALSE]
NoRuntime == [value |-> [k \in RuntimeKeys |-> 0], saw |-> {}, invalid |-> {}]
NoSamples == [s \in {} |-> 0]

-----------------------------------------------------------------------------
(* One sample.                                                             *)

\* addFiniteNonnegative to every key: a sum too large leaves the total alone.
Added(v, keys, value) ==
  LET over == {k \in keys : v.totals[k] + value > MaxTotal}
  IN  [v EXCEPT !.totals = [k \in HTTPKeys |-> @[k] + IF k \in keys \ over THEN value ELSE 0],
                !.overflow = @ \cup over]

\* Mutant: counts and sums have a budget each.
MatchingStatesOfEach(v) ==
  IF Cardinality(v.counted) > Cardinality(v.timed)
  THEN Cardinality(v.counted) ELSE Cardinality(v.timed)

MatchingStates(v) == Cardinality(v.counted) + Cardinality(v.timed)

\* addMatchingDimension of an identity that is not there yet.
AddMatchingDimension(v, field, series) ==
  IF v.matchingOverflow \/ MatchingStates(v) = MatchingLimit
  THEN [v EXCEPT !.matchingOverflow = TRUE]
  ELSE [v EXCEPT ![field] = @ \cup {series}]

\* acceptCount, field "counted", and acceptDuration, field "timed".
Accept(v, field, s) ==
  LET keys == IF field = "counted" THEN KeysOf(s.series.code) ELSE {Time}
  IN  IF s.series.code = 0 \/ s.value < 0 THEN [v EXCEPT !.invalid = @ \cup {field}]
      ELSE IF s.series \in v[field] THEN [v EXCEPT !.duplicate = @ \cup {field}]
      ELSE AddMatchingDimension(Added(v, keys, s.value), field, s.series)

InRange(key, value) ==
  /\ value >= 0
  /\ key = "process_cpu_usage" => value <= 1
  /\ key = "process_start_time" => value # 0

\* micrometerRuntimeValues.accept: heap areas are summed, of anything else there
\* is one.
AcceptRuntime(v, key, value) ==
  LET heap  == key = "jvm_heap_used_bytes"
      total == IF heap THEN v.value[key] + value ELSE value
  IN  IF ~InRange(key, value) \/ (~heap /\ key \in v.saw)
      THEN [v EXCEPT !.invalid = @ \cup {key}]
      ELSE IF heap /\ total > MaxTotal
      THEN [v EXCEPT !.saw = @ \cup {key}, !.invalid = @ \cup {key}]
      ELSE [v EXCEPT !.saw = @ \cup {key}, !.value[key] = total]

-----------------------------------------------------------------------------
(* The result.                                                             *)

DurationMatchesCounts(v) ==
  /\ ~v.matchingOverflow /\ Time \notin v.overflow /\ v.duplicate = {}
  /\ v.counted # {} /\ v.timed = v.counted

\* micrometerHTTPValues.addTo
PublishedHTTP(v) ==
  LET countable == v.counted # {} /\ "counted" \notin v.duplicate /\ ~v.matchingOverflow
      counts    == IF ~countable THEN {}
                   ELSE {Requests} \cup IF "counted" \in v.invalid THEN {} ELSE StatusKeys
  IN  (counts \ v.overflow) \cup IF DurationMatchesCounts(v) THEN {Time} ELSE {}

PublishedRuntime(v) == v.saw \ v.invalid

KeyOf(field) == IF field = "counted" THEN Requests ELSE Time

\* The keys named by the warnings of addQuarkusHTTPWarnings and its Micronaut
\* twin; "" is the one about the matching limit.
WarnedHTTP(v) ==
  LET mismatch == /\ v.timed # {} /\ ~DurationMatchesCounts(v)
                  /\ Time \notin v.overflow /\ v.duplicate = {} /\ ~v.matchingOverflow
  IN  {KeyOf(field) : field \in v.invalid \cup v.duplicate}
      \cup v.overflow
      \cup (IF mismatch THEN {Time} ELSE {})
      \cup (IF v.matchingOverflow THEN {""} ELSE {})

\* quarkusRuntimeCompatible; uptime alone is not enough.
Compatible == PublishedRuntime(runtime) \ {"process_uptime"} # {}

\* What evaluate tells the rest of Collect.
Outcome ==
  IF ~Compatible THEN "failed"
  ELSE IF "process_start_time" \in PublishedRuntime(runtime) THEN "start" ELSE "no_start"

-----------------------------------------------------------------------------
(* Steps.                                                                  *)

Sample(name, series, value) == [name |-> name, series |-> series, value |-> value]

HTTPSamples ==
  {Sample(field, s, value) : field \in {"counted", "timed"}, s \in Series, value \in Values}

NoSeries == [id |-> 0, code |-> 0]

RuntimeSamples ==
  {Sample(key, NoSeries, value) : key \in RuntimeKeys \ {"process_start_time"}, value \in Values}
  \cup {Sample("process_start_time", NoSeries, value) : value \in {0, app.incarnation}}

AcceptSample(s) ==
  /\ pc = "idle"
  /\ SumFunction(document) < MaxSamples
  /\ document' = BagAdd(document, s)
  /\ IF s.name \in RuntimeKeys
     THEN runtime' = AcceptRuntime(runtime, s.name, s.value) /\ UNCHANGED http
     ELSE http' = Accept(http, s.name, s) /\ UNCHANGED runtime
  /\ UNCHANGED vars

ForgetScrape == http' = NoHTTP /\ runtime' = NoRuntime /\ document' = NoSamples

ScrapeEnds == Scrape(Outcome) /\ ForgetScrape

\* No document, or one that breaks off or exceeds a limit of the parser.
ScrapeFails == Scrape("failed") /\ ForgetScrape

\* A document comes from one process.
Elsewhere ==
  /\ document = NoSamples
  /\ FetchHealth \/ CollectorRestarts \/ AppRestarts \/ HealthToggles
  /\ UNCHANGED scrape

CollectorInit == Init /\ http = NoHTTP /\ runtime = NoRuntime /\ document = NoSamples

CollectorNext ==
  \/ \E s \in HTTPSamples \cup RuntimeSamples : AcceptSample(s)
  \/ ScrapeEnds \/ ScrapeFails \/ Elsewhere

CollectorSpec == CollectorInit /\ [][CollectorNext]_<<vars, scrape>>

-----------------------------------------------------------------------------
(* The reference: what a document means, whatever the order of its samples. *)

SamplesOf(name) == {s \in DOMAIN document : s.name = name}
Valid(field) == {s \in SamplesOf(field) : s.series.code # 0 /\ s.value >= 0}
SeriesOf(field) == {s.series : s \in Valid(field)}

SomeSeriesTwice(field) ==
  \E s, t \in Valid(field) : s.series = t.series /\ (s # t \/ document[s] > 1)

TooManySeries ==
  Cardinality(SeriesOf("counted")) + Cardinality(SeriesOf("timed")) > MatchingLimit

\* The samples whose values make up a key's.
Summands(key) ==
  IF key \in RuntimeKeys THEN SamplesOf(key)
  ELSE IF key = Time THEN Valid("timed")
  ELSE {s \in Valid("counted") : key \in KeysOf(s.series.code)}

TotalOf(key) ==
  SumFunctionOnSet([s \in DOMAIN document |-> s.value * document[s]], Summands(key))

\* Whether a document says what the value of the key is.
Meant(key) ==
  /\ key \in HTTPKeys =>
       /\ Valid("counted") # {} /\ ~SomeSeriesTwice("counted") /\ ~TooManySeries
       /\ key \in StatusKeys => Valid("counted") = SamplesOf("counted")
       /\ key = Time => SeriesOf("timed") = SeriesOf("counted") /\ ~SomeSeriesTwice("timed")
  /\ key \in RuntimeKeys =>
       /\ SamplesOf(key) # {} /\ \A s \in SamplesOf(key) : InRange(key, s.value)
       /\ key # "jvm_heap_used_bytes" =>
            \A s, t \in SamplesOf(key) : s = t /\ document[s] = 1
  /\ TotalOf(key) <= MaxTotal

-----------------------------------------------------------------------------
(* Properties.                                                             *)

\* What is published depends on the set of samples, not on their order: the
\* documented concepts, with their sums, and each only where the document
\* determines it; a latency's time and requests are of the same series.
PublishedAsMeant ==
  /\ PublishedHTTP(http) = {k \in HTTPKeys : Meant(k)}
  /\ PublishedRuntime(runtime) = {k \in RuntimeKeys : Meant(k)}
  /\ \A k \in PublishedHTTP(http) : http.totals[k] = TotalOf(k)
  /\ \A k \in PublishedRuntime(runtime) : runtime.value[k] = TotalOf(k)

\* No HTTP concept that the document has samples of is omitted without a warning.
OmissionsAreReported ==
  /\ SamplesOf("counted") # {} /\ ~(HTTPKeys \ {Time} \subseteq PublishedHTTP(http))
       => WarnedHTTP(http) # {}
  /\ SamplesOf("timed") # {} /\ Time \notin PublishedHTTP(http)
       => WarnedHTTP(http) # {}

\* docs/targets/micronaut.md:83, "Invalid or duplicate series, mismatches, and
\* overflowing aggregates omit affected concepts and record focused warnings.
\* Independent valid concepts remain usable."
EvaluationIsExact == PublishedAsMeant /\ OmissionsAreReported
=============================================================================
