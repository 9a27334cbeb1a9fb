-------------------------- MODULE MicrometerProofs --------------------------
(***************************************************************************)
(* Proofs about the collectors of Quarkus and Micronaut: what they know of *)
(* health, for any number of restarts and any mix of scrapes, and what     *)
(* they make of a document, for any samples in any order.                  *)
(***************************************************************************)
EXTENDS MicrometerCollector, SumTheorems, TLAPS

-----------------------------------------------------------------------------
(* Health: types, and Micronaut's rediscovery after an observed restart.   *)

\* The start time a Micronaut collector compares with is the one reported
\* last, and a pending health request will not replace it by another.
KeepsObserved ==
  /\ pc = "health" => poll.start \in {0, observed}
  /\ framework = "micronaut" => start = observed

\* The inductive invariant.
IInv == TypeOK /\ KeepsObserved /\ MicronautResumes

\* What a new collector starts from satisfies the invariant.
LEMMA NewCollector ==
  ASSUME framework \in Frameworks, app \in [incarnation : Times \ {0}, health : BOOLEAN], 0 \in Times,
         capability = "unknown", start = 0, pc = "idle", poll = NoPoll,
         observed = 0, answered = FALSE
  PROVE  IInv
<1>1. poll \in [metrics : BOOLEAN, start : Times, changed : BOOLEAN, probed : BOOLEAN,
                answer : {"none", "status", "not_found", "error"}, warned : BOOLEAN]
  BY DEF NoPoll
<1>2. TypeOK
  BY <1>1 DEF TypeOK
<1>3. DiscoveryResumes
  BY DEF DiscoveryResumes, NoPoll
<1> QED
  BY <1>2, <1>3 DEF IInv, KeepsObserved, MicronautResumes

\* The invariant holds initially.
LEMMA InitIInv == Init => IInv
<1> SUFFICES ASSUME Init PROVE IInv
  OBVIOUS
<1>1. app \in [incarnation : Times \ {0}, health : BOOLEAN] /\ 0 \in Times
  BY BoundAssumption DEF Init, Times
<1> QED
  BY <1>1, NewCollector DEF Init

\* The scrape decides whether health is asked for.
LEMMA StepScrape ==
  ASSUME IInv, NEW outcome, Scrape(outcome)
  PROVE  IInv'
<1> DEFINE reported == IF outcome = "start" THEN app.incarnation ELSE 0
           changed  == Differs(observed, reported)
<1>1. reported \in Times /\ changed \in BOOLEAN
  BY BoundAssumption DEF IInv, TypeOK, Times, Differs
<1>2. /\ poll' = [NoPoll EXCEPT !.metrics = outcome # "failed", !.start = reported,
                                !.changed = changed, !.probed = (pc' = "health")]
      /\ observed' = IF reported = 0 THEN observed ELSE reported
      /\ answered' = (answered /\ ~changed)
      /\ ShouldProbeHealth(reported)
      /\ UNCHANGED <<framework, app>>
  BY DEF Scrape
<1>3. /\ poll' = [metrics |-> outcome # "failed", start |-> reported, changed |-> changed,
                  probed |-> (pc' = "health"), answer |-> "none", warned |-> FALSE]
      /\ observed' = IF reported = 0 THEN observed ELSE reported
      /\ answered' = (answered /\ ~changed)
      /\ ShouldProbeHealth(reported)
      /\ framework' = framework /\ app' = app
  BY <1>2 DEF NoPoll
<1> HIDE DEF reported, changed
<1>4. TypeOK'
  BY <1>1, <1>3 DEF IInv, TypeOK, ShouldProbeHealth
<1>5. KeepsObserved'
  BY <1>3 DEF IInv, KeepsObserved, ShouldProbeHealth
<1>6. ASSUME framework = "micronaut" PROVE DiscoveryResumes'
  <2>1. start = observed
    BY <1>6 DEF IInv, KeepsObserved
  <2>2. CASE ~changed
    BY <1>3, <2>2 DEF DiscoveryResumes
  <2>3. CASE changed
    BY <1>3, <2>1, <2>3 DEF DiscoveryResumes, ShouldProbeHealth, changed
  <2> QED
    BY <2>2, <2>3
<1> QED
  BY <1>3, <1>4, <1>5, <1>6 DEF IInv, MicronautResumes

\* The answer to the health request.
LEMMA StepFetchHealth ==
  ASSUME IInv, FetchHealth
  PROVE  IInv'
<1>1. /\ capability' \in {"unknown", "available", "absent"}
      /\ start' \in Times
      /\ answered' \in BOOLEAN
      /\ framework = "micronaut" => start' = observed
  BY DEF IInv, TypeOK, KeepsObserved, FetchHealth, NotFound, Mark
<1>2. /\ poll' \in [metrics : BOOLEAN, start : Times, changed : BOOLEAN, probed : BOOLEAN,
                    answer : {"none", "status", "not_found", "error"}, warned : BOOLEAN]
      /\ poll'.changed = poll.changed /\ poll'.probed = poll.probed
  BY DEF IInv, TypeOK, FetchHealth, NotFound
<1>3. TypeOK'
  BY <1>1, <1>2 DEF IInv, TypeOK, FetchHealth
<1> QED
  BY <1>1, <1>2, <1>3 DEF IInv, KeepsObserved, MicronautResumes, DiscoveryResumes, FetchHealth

\* Every step of the collector, the application and StatLite keeps the
\* invariant.
LEMMA StepIInv == IInv /\ [Next]_vars => IInv'
<1> SUFFICES ASSUME IInv, [Next]_vars PROVE IInv'
  OBVIOUS
<1>1. CASE CollectorRestarts
  <2>1. app' \in [incarnation : Times \ {0}, health : BOOLEAN] /\ 0 \in Times
    BY <1>1, BoundAssumption DEF CollectorRestarts, IInv, TypeOK, Times
  <2>2. poll' \in [metrics : BOOLEAN, start : Times, changed : BOOLEAN, probed : BOOLEAN,
                   answer : {"none", "status", "not_found", "error"}, warned : BOOLEAN]
    BY <1>1, <2>1 DEF CollectorRestarts, NoPoll
  <2>3. TypeOK'
    BY <1>1, <2>1, <2>2 DEF CollectorRestarts, IInv, TypeOK, Times
  <2>4. DiscoveryResumes'
    BY <1>1 DEF CollectorRestarts, DiscoveryResumes, NoPoll
  <2> QED
    BY <1>1, <2>3, <2>4 DEF CollectorRestarts, IInv, KeepsObserved, MicronautResumes
<1>2. CASE AppRestarts
  <2>1. app' \in [incarnation : Times \ {0}, health : BOOLEAN]
    BY <1>2, BoundAssumption DEF AppRestarts, IInv, TypeOK, Times
  <2> QED
    BY <1>2, <2>1 DEF AppRestarts, IInv, TypeOK, KeepsObserved, MicronautResumes, DiscoveryResumes
<1>3. CASE HealthToggles
  <2>1. app' \in [incarnation : Times \ {0}, health : BOOLEAN]
    BY <1>3 DEF HealthToggles, IInv, TypeOK
  <2> QED
    BY <1>3, <2>1 DEF HealthToggles, IInv, TypeOK, KeepsObserved, MicronautResumes, DiscoveryResumes
<1>4. CASE UNCHANGED vars
  BY <1>4 DEF vars, IInv, TypeOK, KeepsObserved, MicronautResumes, DiscoveryResumes
<1> QED
  BY <1>1, <1>2, <1>3, <1>4, StepScrape, StepFetchHealth DEF Next

\* A Micronaut collector that sees another start time than the last one
\* reported always asks for health again, however many scrapes in between
\* failed or came without a start time.
THEOREM MicronautRediscovers == Spec => []MicronautResumes
<1>1. IInv => MicronautResumes
  BY DEF IInv
<1> QED
  BY <1>1, InitIInv, StepIInv, PTL DEF Spec

-----------------------------------------------------------------------------
(* The loss of a health endpoint that has answered.                        *)

\* The start time a collector compares with is forgotten at worst: so what has
\* answered stays known until another start time is reported.
KnownSinceAnswer ==
  /\ start \in {0, observed}
  /\ answered => capability = "available"
  /\ answered /\ poll.answer = "not_found" => poll.warned

LEMMA StepKnown ==
  ASSUME IInv, KnownSinceAnswer, [Next]_vars
  PROVE  KnownSinceAnswer'
<1>1. ASSUME NEW outcome, Scrape(outcome) PROVE KnownSinceAnswer'
  <2> DEFINE reported == IF outcome = "start" THEN app.incarnation ELSE 0
             changed  == Differs(observed, reported)
  <2>1. poll'.answer = "none"
    BY <1>1 DEF Scrape, NoPoll
  <2>2. /\ observed' = IF reported = 0 THEN observed ELSE reported
        /\ start' = IF reported = 0 THEN start ELSE reported
        /\ capability' = IF Differs(start, reported) THEN "unknown" ELSE capability
        /\ answered' = (answered /\ ~changed)
    BY <1>1 DEF Scrape, ShouldProbeHealth
  <2>3. changed \/ ~Differs(start, reported)
    BY DEF KnownSinceAnswer, Differs
  <2> HIDE DEF reported, changed
  <2> QED  BY <2>1, <2>2, <2>3 DEF KnownSinceAnswer
<1>2. CASE FetchHealth
  <2>1. start' \in {0, observed'} /\ observed' = observed
    BY <1>2 DEF FetchHealth, NotFound, Mark, IInv, KeepsObserved, KnownSinceAnswer
  <2>2. CASE app.health /\ Mark("available") /\ poll' = [poll EXCEPT !.answer = "status"]
    BY <2>1, <2>2 DEF Mark, KnownSinceAnswer, IInv, TypeOK
  <2>3. CASE NotFound /\ UNCHANGED answered
    BY <2>1, <2>3 DEF NotFound, Quiet, KnownSinceAnswer, IInv, TypeOK
  <2>4. CASE /\ poll' = [poll EXCEPT !.answer = "error", !.warned = TRUE]
             /\ UNCHANGED <<capability, answered>>
    BY <2>1, <2>4 DEF KnownSinceAnswer, IInv, TypeOK
  <2> QED  BY <1>2, <2>2, <2>3, <2>4 DEF FetchHealth
<1>3. CASE CollectorRestarts
  BY <1>3 DEF CollectorRestarts, KnownSinceAnswer
<1>4. CASE AppRestarts \/ HealthToggles \/ UNCHANGED vars
  BY <1>4 DEF AppRestarts, HealthToggles, vars, KnownSinceAnswer
<1> QED  BY <1>1, <1>2, <1>3, <1>4 DEF Next

\* Both collectors, Quarkus' too with a start time it forgot, report the loss of
\* known health in every collection and keep asking.
THEOREM LossReported == Spec => []LossIsReported
<1>1. Init => KnownSinceAnswer
  BY DEF Init, KnownSinceAnswer
<1>2. KnownSinceAnswer => LossIsReported
  BY DEF KnownSinceAnswer, LossIsReported
<1>3. IInv /\ KnownSinceAnswer /\ [Next]_vars => IInv' /\ KnownSinceAnswer'
  BY StepIInv, StepKnown
<1> QED  BY <1>1, <1>2, <1>3, InitIInv, PTL DEF Spec

-----------------------------------------------------------------------------
(* The samples of a document, and what the collector has made of them.     *)

Fields == {"counted", "timed"}
KeysFor(field) == IF field = "counted" THEN HTTPKeys \ {Time} ELSE {Time}

SampleOK(s) ==
  /\ s \in [name : Fields \cup RuntimeKeys, series : Series \cup {NoSeries}, value : Int]
  /\ s.value <= MaxTotal
  /\ IF s.name \in RuntimeKeys THEN s.series = NoSeries ELSE s.series \in Series

DocumentOK ==
  /\ document \in [DOMAIN document -> Nat \ {0}]
  /\ IsFiniteSet(DOMAIN document)
  /\ \A s \in DOMAIN document : SampleOK(s)

HTTPRecords ==
  [totals : [HTTPKeys -> 0..MaxTotal], overflow : SUBSET HTTPKeys,
   counted : SUBSET Series, timed : SUBSET Series,
   invalid : SUBSET Fields, duplicate : SUBSET Fields, matchingOverflow : BOOLEAN]
RuntimeRecords ==
  [value : [RuntimeKeys -> 0..MaxTotal], saw : SUBSET RuntimeKeys, invalid : SUBSET RuntimeKeys]

\* Until the matching limit is passed the identities are those of the document;
\* it is passed exactly by a document with too many.
Identities ==
  /\ \A field \in Fields : field \in http.invalid <=> Valid(field) # SamplesOf(field)
  /\ http.matchingOverflow <=> TooManySeries
  /\ ~http.matchingOverflow =>
       \A field \in Fields :
         /\ http[field] = SeriesOf(field)
         /\ field \in http.duplicate <=> SomeSeriesTwice(field)

\* As long as a field's samples are of different series, its sums are those of
\* the document, or the document's are too large.
Summed ==
  \A field \in Fields : ~http.matchingOverflow /\ field \notin http.duplicate =>
    \A key \in KeysFor(field) :
      IF key \in http.overflow THEN TotalOf(key) > MaxTotal ELSE TotalOf(key) = http.totals[key]

Heap == "jvm_heap_used_bytes"
Repeated(key) == \E s, t \in SamplesOf(key) : s # t \/ document[s] # 1

RuntimeIsRead ==
  \A key \in RuntimeKeys :
    /\ key \in runtime.saw <=> \E s \in SamplesOf(key) : InRange(key, s.value)
    /\ key \in runtime.invalid <=>
         \/ \E s \in SamplesOf(key) : ~InRange(key, s.value)
         \/ IF key = Heap THEN TotalOf(key) > MaxTotal ELSE Repeated(key)
    /\ key \notin runtime.invalid => runtime.value[key] = TotalOf(key)

ScrapeInvariant ==
  /\ DocumentOK /\ http \in HTTPRecords /\ runtime \in RuntimeRecords
  /\ Identities /\ Summed /\ RuntimeIsRead

\* What the start of a scrape has made of no samples.
LEMMA NothingRead ==
  ASSUME http = NoHTTP, runtime = NoRuntime, document = NoSamples
  PROVE  ScrapeInvariant
<1>1. DOMAIN document = {}
  BY DEF NoSamples
<1>2. DocumentOK
  BY <1>1, FS_EmptySet DEF DocumentOK
<1>3. http \in HTTPRecords /\ runtime \in RuntimeRecords
  BY LimitsAssumption DEF HTTPRecords, RuntimeRecords, NoHTTP, NoRuntime
<1>4. \A name : SamplesOf(name) = {} /\ Valid(name) = {} /\ SeriesOf(name) = {}
  BY <1>1 DEF SamplesOf, Valid, SeriesOf
<1>5. \A key : TotalOf(key) = 0
  <2> TAKE key
  <2>1. Summands(key) = {}
    BY <1>4 DEF Summands
  <2> QED
    BY <2>1, SumEmpty DEF TotalOf
<1>6. ~TooManySeries
  BY <1>4, FS_EmptySet, LimitsAssumption DEF TooManySeries
<1>7. Identities
  BY <1>4, <1>6 DEF Identities, NoHTTP, SomeSeriesTwice, Fields
<1>8. Summed
  BY <1>5 DEF Summed, NoHTTP, KeysFor, HTTPKeys, Time, Requests, StatusKeys, Fields
<1>9. RuntimeIsRead
  BY <1>4, <1>5, LimitsAssumption DEF RuntimeIsRead, NoRuntime, Repeated
<1> QED
  BY <1>2, <1>3, <1>7, <1>8, <1>9 DEF ScrapeInvariant

-----------------------------------------------------------------------------
(* One sample more.                                                        *)

\* A sample whose value is one of a key's summands.
Belongs(key, s) ==
  IF key \in RuntimeKeys THEN s.name = key
  ELSE /\ s.series.code # 0 /\ s.value >= 0
       /\ IF key = Time THEN s.name = "timed"
          ELSE s.name = "counted" /\ key \in KeysOf(s.series.code)

LEMMA DocumentGrows ==
  ASSUME DocumentOK, NEW s, SampleOK(s), document' = BagAdd(document, s)
  PROVE  /\ DocumentOK' /\ DOMAIN document' = DOMAIN document \cup {s}
         /\ \A t \in DOMAIN document \ {s} : document'[t] = document[t]
         /\ document'[s] = IF s \in DOMAIN document THEN document[s] + 1 ELSE 1
<1>1. document \in [DOMAIN document -> Nat \ {0}]
  BY DEF DocumentOK
<1>2. /\ DOMAIN document' = DOMAIN document \cup {s}
      /\ \A t \in DOMAIN document \ {s} : document'[t] = document[t]
      /\ document'[s] = IF s \in DOMAIN document THEN document[s] + 1 ELSE 1
      /\ document' = [t \in DOMAIN document' |-> document'[t]]
  BY DEF BagAdd
<1>3. document' \in [DOMAIN document' -> Nat \ {0}]
  <2>1. \A t \in DOMAIN document' : document'[t] \in Nat \ {0}
    BY <1>1, <1>2
  <2> QED
    BY <1>2, <2>1
<1>4. IsFiniteSet(DOMAIN document')
  BY <1>2, FS_AddElement DEF DocumentOK
<1>5. \A t \in DOMAIN document' : SampleOK(t)'
  BY <1>2 DEF DocumentOK, SampleOK
<1> QED
  BY <1>2, <1>3, <1>4, <1>5 DEF DocumentOK

LEMMA SummandsAre ==
  ASSUME NEW key
  PROVE  /\ Summands(key) = {s \in DOMAIN document : Belongs(key, s)}
         /\ Summands(key)' = {s \in DOMAIN document' : Belongs(key, s)}
<1>1. CASE key \in RuntimeKeys
  BY <1>1 DEF Summands, SamplesOf, Belongs
<1>2. CASE key \notin RuntimeKeys /\ key = Time
  BY <1>2 DEF Summands, SamplesOf, Valid, Belongs
<1>3. CASE key \notin RuntimeKeys /\ key # Time
  BY <1>3 DEF Summands, SamplesOf, Valid, Belongs
<1> QED
  BY <1>1, <1>2, <1>3

\* A key's sum grows by the value of a sample that belongs to it.
LEMMA TotalGrows ==
  ASSUME DocumentOK, NEW s, SampleOK(s), document' = BagAdd(document, s), NEW key,
         \A t \in Summands(key) : t.value >= 0, Belongs(key, s) => s.value >= 0
  PROVE  /\ TotalOf(key) \in Nat
         /\ TotalOf(key)' = TotalOf(key) + IF Belongs(key, s) THEN s.value ELSE 0
<1> DEFINE D == DOMAIN document
           f == [t \in D |-> t.value * document[t]]
           g == [t \in DOMAIN document' |-> t.value * document'[t]]
           S == Summands(key)
           R == S \ {s}
<1>1. /\ DOMAIN document' = D \cup {s}
      /\ \A t \in D \ {s} : document'[t] = document[t]
      /\ document'[s] = IF s \in D THEN document[s] + 1 ELSE 1
  BY DocumentGrows
<1>2. S = {t \in D : Belongs(key, t)} /\ Summands(key)' = {t \in DOMAIN document' : Belongs(key, t)}
  BY SummandsAre
<1>3. TotalOf(key) = SumFunctionOnSet(f, S) /\ TotalOf(key)' = SumFunctionOnSet(g, Summands(key)')
  BY DEF TotalOf
<1>4. IsFiniteSet(S) /\ IsFiniteSet(R) /\ R \subseteq D /\ s \notin R
  BY <1>2, FS_Subset DEF DocumentOK
<1>5. \A t \in D : t.value \in Int /\ document[t] \in Nat
  BY DEF DocumentOK, SampleOK
<1>6. \A t \in S : f[t] \in Nat
  <2> SUFFICES ASSUME NEW t \in S PROVE t.value * document[t] \in Nat
    BY <1>2
  <2>1. t.value \in Nat /\ document[t] \in Nat
    BY <1>2, <1>5
  <2> QED
    BY <2>1
<1>7. \A t \in R : g[t] = f[t]
  BY <1>1, <1>4
<1>8. SumFunctionOnSet(g, R) = SumFunctionOnSet(f, R) /\ SumFunctionOnSet(f, R) \in Nat
  BY <1>4, <1>6, <1>7, SumSame, SumType
<1>9. CASE ~Belongs(key, s)
  <2>1. S = R /\ Summands(key)' = R
    BY <1>1, <1>2, <1>9
  <2> HIDE DEF f, g, R, S
  <2> QED
    BY <1>3, <1>8, <1>9, <2>1
<1>10. CASE Belongs(key, s)
  <2>1. Summands(key)' = R \cup {s} /\ s.value \in Nat
    BY <1>1, <1>2, <1>10 DEF SampleOK
  <2>2. CASE s \notin D
    <3>1. S = R /\ g[s] = s.value
      BY <1>1, <1>2, <2>1, <2>2
    <3>2. SumFunctionOnSet(g, R \cup {s}) = g[s] + SumFunctionOnSet(g, R)
      BY <1>4, <1>6, <1>7, <2>1, <3>1, SumAdd
    <3> HIDE DEF f, g, R, S
    <3> QED
      BY <1>3, <1>8, <1>10, <2>1, <3>1, <3>2
  <2>3. CASE s \in D
    <3>1. s \in S /\ S = R \cup {s}
      BY <1>2, <1>10, <2>3
    <3>2. document[s] \in Nat /\ f[s] = s.value * document[s] /\ g[s] = s.value * (document[s] + 1)
      BY <1>1, <1>5, <2>3
    <3>3. g[s] = f[s] + s.value /\ f[s] \in Nat /\ g[s] \in Nat
      <4> HIDE DEF f, g
      <4>1. s.value * (document[s] + 1) = s.value * document[s] + s.value
        BY <2>1, <3>2
      <4>2. s.value * document[s] \in Nat
        BY <2>1, <3>2
      <4> QED
        BY <2>1, <3>2, <4>1, <4>2
    <3>4. SumFunctionOnSet(g, R \cup {s}) = g[s] + SumFunctionOnSet(g, R)
      BY <1>4, <1>6, <1>7, <3>3, SumAdd
    <3>5. SumFunctionOnSet(f, R \cup {s}) = f[s] + SumFunctionOnSet(f, R)
      BY <1>4, <1>6, <3>3, SumAdd
    <3> HIDE DEF f, g, R, S
    <3> QED
      BY <1>3, <1>8, <1>10, <2>1, <3>1, <3>3, <3>4, <3>5
  <2> QED
    BY <2>2, <2>3
<1> QED
  BY <1>9, <1>10

\* What a sample adds to the samples of a field, valid ones, and series.
LEMMA FieldGrows ==
  ASSUME DocumentOK, NEW s, SampleOK(s), document' = BagAdd(document, s), NEW field \in Fields
  PROVE  LET new == s.name = field
             ok  == new /\ s.series.code # 0 /\ s.value >= 0
         IN  /\ SamplesOf(field)' = SamplesOf(field) \cup IF new THEN {s} ELSE {}
             /\ Valid(field)' = Valid(field) \cup IF ok THEN {s} ELSE {}
             /\ SeriesOf(field)' = SeriesOf(field) \cup IF ok THEN {s.series} ELSE {}
             /\ SomeSeriesTwice(field)' <=>
                  SomeSeriesTwice(field) \/ (ok /\ s.series \in SeriesOf(field))
             /\ (Valid(field)' # SamplesOf(field)') <=>
                  (Valid(field) # SamplesOf(field) \/ (new /\ ~ok))
             /\ Valid(field) \subseteq SamplesOf(field) /\ SamplesOf(field) \subseteq DOMAIN document
<1> DEFINE new == s.name = field
           ok  == new /\ s.series.code # 0 /\ s.value >= 0
<1>1. /\ DOMAIN document' = DOMAIN document \cup {s}
      /\ \A t \in DOMAIN document \ {s} : document'[t] = document[t]
      /\ document'[s] = IF s \in DOMAIN document THEN document[s] + 1 ELSE 1
  BY DocumentGrows
<1>2. \A t \in DOMAIN document : document[t] \in Nat \ {0}
  BY DEF DocumentOK
<1>3. SamplesOf(field)' = SamplesOf(field) \cup IF new THEN {s} ELSE {}
  BY <1>1 DEF SamplesOf
<1>4. Valid(field)' = Valid(field) \cup IF ok THEN {s} ELSE {}
  BY <1>1, <1>3 DEF Valid
<1>5. SeriesOf(field)' = SeriesOf(field) \cup IF ok THEN {s.series} ELSE {}
  <2>1. SeriesOf(field)' = {t.series : t \in Valid(field)'} /\ SeriesOf(field) = {t.series : t \in Valid(field)}
    BY DEF SeriesOf
  <2>2. CASE ok
    BY <1>4, <2>1, <2>2
  <2>3. CASE ~ok
    BY <1>4, <2>1, <2>3
  <2> QED
    BY <2>2, <2>3
<1>6. /\ Valid(field) \subseteq SamplesOf(field) /\ SamplesOf(field) \subseteq DOMAIN document
      /\ \A t \in Valid(field) : t.name = field /\ t.series.code # 0 /\ t.value >= 0
      /\ \A t \in DOMAIN document : t.name = field /\ t.series.code # 0 /\ t.value >= 0 => t \in Valid(field)
  BY DEF Valid, SamplesOf
<1>7. (Valid(field)' # SamplesOf(field)') <=> (Valid(field) # SamplesOf(field) \/ (new /\ ~ok))
  <2>1. ok => new
    OBVIOUS
  <2>2. new /\ ~ok => s \notin Valid(field)
    BY <1>6
  <2>3. CASE ok
    <3>1. s \in SamplesOf(field) => s \in Valid(field)
      BY <1>6, <2>3
    <3> HIDE DEF ok, new
    <3> QED
      BY <1>3, <1>4, <1>6, <2>1, <2>3, <3>1
  <2>4. CASE ~ok /\ new
    <3> HIDE DEF ok, new
    <3> QED
      BY <1>3, <1>4, <1>6, <2>2, <2>4
  <2>5. CASE ~ok /\ ~new
    <3> HIDE DEF ok, new
    <3> QED
      BY <1>3, <1>4, <2>5
  <2> QED
    BY <2>3, <2>4, <2>5
<1>8. SomeSeriesTwice(field)' <=> SomeSeriesTwice(field) \/ (ok /\ s.series \in SeriesOf(field))
  <2> DEFINE Twice(a, b, V, d) == a \in V /\ b \in V /\ a.series = b.series /\ (a # b \/ d[a] > 1)
  <2>1. /\ SomeSeriesTwice(field)' <=> \E a, b : Twice(a, b, Valid(field)', document')
        /\ SomeSeriesTwice(field) <=> \E a, b : Twice(a, b, Valid(field), document)
    BY DEF SomeSeriesTwice
  <2>2. ASSUME NEW a, NEW b, Twice(a, b, Valid(field), document)
        PROVE  Twice(a, b, Valid(field)', document')
    <3>1. document[a] \in Nat /\ (document[a] > 1 => document'[a] > 1)
      BY <1>1, <1>2, <1>6, <2>2
    <3> HIDE DEF ok
    <3> QED
      BY <1>4, <2>2, <3>1
  <2>3. ASSUME ok, s.series \in SeriesOf(field) PROVE \E a, b : Twice(a, b, Valid(field)', document')
    <3>1. PICK t \in Valid(field) : t.series = s.series
      BY <2>3 DEF SeriesOf
    <3>2. CASE t # s
      <4>1. Twice(t, s, Valid(field)', document')
        BY <1>4, <2>3, <3>1, <3>2
      <4> QED
        BY <4>1
    <3>3. CASE t = s
      <4>1. document'[s] > 1
        BY <1>1, <1>2, <1>6, <3>3
      <4>2. Twice(s, s, Valid(field)', document')
        BY <1>4, <2>3, <4>1
      <4> QED
        BY <4>2
    <3> QED
      BY <3>2, <3>3
  <2>4. ASSUME NEW a, NEW b, Twice(a, b, Valid(field)', document'),
               ~(ok /\ s.series \in SeriesOf(field))
        PROVE  Twice(a, b, Valid(field), document)
    <3>1. ok => s \notin Valid(field) /\ s \notin DOMAIN document
      BY <1>6, <2>4 DEF SeriesOf
    <3>2. ASSUME ok PROVE a # s /\ b # s
      <4>1. document'[s] = 1
        BY <1>1, <3>1, <3>2
      <4>2. CASE a = s
        <5>1. b # s /\ b \in Valid(field) /\ b.series = s.series
          BY <1>4, <2>4, <4>1, <4>2
        <5> QED
          BY <2>4, <3>2, <5>1 DEF SeriesOf
      <4>3. CASE b = s /\ a # s
        <5>1. a \in Valid(field) /\ a.series = s.series
          BY <1>4, <2>4, <4>3
        <5> QED
          BY <2>4, <3>2, <5>1 DEF SeriesOf
      <4> QED
        BY <4>2, <4>3
    <3>3. a \in Valid(field) /\ b \in Valid(field)
      BY <1>4, <2>4, <3>2
    <3>4. a # s \/ ~ok
      BY <3>2
    <3>5. a # s \/ b # a \/ document[a] > 1
      BY <1>1, <1>2, <1>6, <2>4, <3>3, <3>4
    <3> QED
      BY <1>1, <1>6, <2>4, <3>3, <3>5
  <2> HIDE DEF Twice
  <2> QED
    BY <2>1, <2>2, <2>3, <2>4
<1> QED
  BY <1>3, <1>4, <1>5, <1>6, <1>7, <1>8

LEMMA KeysAre ==
  /\ \A field \in Fields : KeysFor(field) \subseteq HTTPKeys
  /\ HTTPKeys \cap RuntimeKeys = {} /\ Fields \cap RuntimeKeys = {} /\ Fields = {"counted", "timed"}
  /\ \A key \in HTTPKeys : \E field \in Fields : key \in KeysFor(field)
  /\ \A code : KeysOf(code) \subseteq KeysFor("counted")
  /\ KeysFor("timed") = {Time} /\ Time \notin KeysFor("counted")
BY DEF KeysFor, HTTPKeys, Time, Requests, StatusKeys, RuntimeKeys, Fields, KeysOf

\* The keys a valid sample of a field is added to.
KeysOfSample(s) == IF s.name = "counted" THEN KeysOf(s.series.code) ELSE {Time}

LEMMA BelongsWhere ==
  ASSUME NEW s, s.name \in Fields, NEW field \in Fields, NEW key \in KeysFor(field)
  PROVE  Belongs(key, s) <=>
           s.name = field /\ s.series.code # 0 /\ s.value >= 0 /\ key \in KeysOfSample(s)
<1>1. key \notin RuntimeKeys
  BY KeysAre
<1>2. CASE field = "counted"
  BY <1>1, <1>2, KeysAre DEF Belongs, KeysOfSample
<1>3. CASE field = "timed"
  BY <1>1, <1>3, KeysAre DEF Belongs, KeysOfSample
<1> QED
  BY <1>2, <1>3, KeysAre

\* The summands of an HTTP key are valid.
LEMMA SummandsAreValid ==
  ASSUME NEW key \in HTTPKeys
  PROVE  \A s \in Summands(key) : s.value >= 0
<1>1. key \notin RuntimeKeys
  BY KeysAre
<1> QED
  BY <1>1 DEF Summands, Valid

\* Added, field by field.
LEMMA AddedIs ==
  ASSUME NEW v \in HTTPRecords, NEW keys \in SUBSET HTTPKeys, NEW value \in Nat
  PROVE  LET a == Added(v, keys, value)
         IN  /\ a \in HTTPRecords
             /\ a.counted = v.counted /\ a.timed = v.timed /\ a.invalid = v.invalid
             /\ a.duplicate = v.duplicate /\ a.matchingOverflow = v.matchingOverflow
             /\ \A k \in HTTPKeys :
                  IF k \in keys /\ v.totals[k] + value > MaxTotal
                  THEN k \in a.overflow /\ a.totals[k] = v.totals[k]
                  ELSE /\ k \in a.overflow <=> k \in v.overflow
                       /\ a.totals[k] = v.totals[k] + IF k \in keys THEN value ELSE 0
<1> DEFINE over == {k \in keys : v.totals[k] + value > MaxTotal}
           sums == [k \in HTTPKeys |-> v.totals[k] + IF k \in keys \ over THEN value ELSE 0]
           u == [v EXCEPT !.totals = sums]
           a == [u EXCEPT !.overflow = v.overflow \cup over]
<1>1. v = [totals |-> v.totals, overflow |-> v.overflow, counted |-> v.counted, timed |-> v.timed,
           invalid |-> v.invalid, duplicate |-> v.duplicate, matchingOverflow |-> v.matchingOverflow]
  BY DEF HTTPRecords
<1>2. Added(v, keys, value) = a
  BY <1>1 DEF Added
<1>3. sums \in [HTTPKeys -> 0..MaxTotal]
  <2> SUFFICES ASSUME NEW k \in HTTPKeys
               PROVE  v.totals[k] + (IF k \in keys \ over THEN value ELSE 0) \in 0..MaxTotal
    OBVIOUS
  <2>1. v.totals[k] \in 0..MaxTotal
    BY DEF HTTPRecords
  <2> QED
    BY <2>1, LimitsAssumption
<1>4. over \subseteq HTTPKeys
  OBVIOUS
<1>5. \A k \in HTTPKeys : sums[k] = v.totals[k] + IF k \in keys \ over THEN value ELSE 0
  OBVIOUS
<1>6. \A k \in HTTPKeys : k \in over <=> k \in keys /\ v.totals[k] + value > MaxTotal
  OBVIOUS
<1>7. \A k \in HTTPKeys : v.totals[k] \in Nat
  BY LimitsAssumption DEF HTTPRecords
<1> HIDE DEF sums, over
<1>8. u = [totals |-> sums, overflow |-> v.overflow, counted |-> v.counted, timed |-> v.timed,
           invalid |-> v.invalid, duplicate |-> v.duplicate, matchingOverflow |-> v.matchingOverflow]
  BY ONLY <1>1
<1> HIDE DEF u
<1>9. a = [totals |-> sums, overflow |-> v.overflow \cup over, counted |-> v.counted, timed |-> v.timed,
           invalid |-> v.invalid, duplicate |-> v.duplicate, matchingOverflow |-> v.matchingOverflow]
  BY ONLY <1>8
<1> HIDE DEF a
<1>10. a \in HTTPRecords
  BY <1>3, <1>4, <1>9 DEF HTTPRecords
<1> QED
  BY <1>2, <1>5, <1>6, <1>7, <1>9, <1>10

\* What else Accept does with a record.
LEMMA InvalidMarked ==
  ASSUME NEW v \in HTTPRecords, NEW field \in Fields, NEW w, w = [v EXCEPT !.invalid = @ \cup {field}]
  PROVE  /\ w \in HTTPRecords /\ w.invalid = v.invalid \cup {field}
         /\ w.totals = v.totals /\ w.overflow = v.overflow
         /\ w.duplicate = v.duplicate /\ w.matchingOverflow = v.matchingOverflow
         /\ w.counted = v.counted /\ w.timed = v.timed
BY DEF HTTPRecords

LEMMA DuplicateMarked ==
  ASSUME NEW v \in HTTPRecords, NEW field \in Fields, NEW w, w = [v EXCEPT !.duplicate = @ \cup {field}]
  PROVE  /\ w \in HTTPRecords /\ w.duplicate = v.duplicate \cup {field}
         /\ w.totals = v.totals /\ w.overflow = v.overflow
         /\ w.invalid = v.invalid /\ w.matchingOverflow = v.matchingOverflow
         /\ w.counted = v.counted /\ w.timed = v.timed
BY DEF HTTPRecords

LEMMA LimitMarked ==
  ASSUME NEW v \in HTTPRecords, NEW w, w = [v EXCEPT !.matchingOverflow = TRUE]
  PROVE  w \in HTTPRecords /\ w.matchingOverflow /\ w.invalid = v.invalid
BY DEF HTTPRecords

\* How many series a field has, and how many more with one sample.
LEMMA SeriesGrow ==
  ASSUME DocumentOK, NEW s, SampleOK(s), document' = BagAdd(document, s), NEW field \in Fields
  PROVE  /\ Cardinality(SeriesOf(field)) \in Nat
         /\ Cardinality(SeriesOf(field)') = Cardinality(SeriesOf(field)) +
              IF /\ s.name = field /\ s.series.code # 0 /\ s.value >= 0
                 /\ s.series \notin SeriesOf(field)
              THEN 1 ELSE 0
<1> DEFINE ok == s.name = field /\ s.series.code # 0 /\ s.value >= 0
           S == SeriesOf(field)
<1>1. Valid(field) \subseteq DOMAIN document
  BY FieldGrows
<1>2. IsFiniteSet(Valid(field))
  BY <1>1, FS_Subset DEF DocumentOK
<1>3. IsFiniteSet(S)
  <2> DEFINE series == [t \in Valid(field) |-> t.series]
  <2>1. series \in Surjection(Valid(field), S)
    BY DEF SeriesOf, Surjection
  <2> HIDE DEF series, S
  <2> QED
    BY <1>2, <2>1, FS_Surjection
<1>4. SeriesOf(field)' = S \cup IF ok THEN {s.series} ELSE {}
  BY FieldGrows
<1>5. Cardinality(S) \in Nat
  BY <1>3, FS_CardinalityType
<1> HIDE DEF S
<1>6. CASE ok /\ s.series \notin S
  <2>1. SeriesOf(field)' = S \cup {s.series}
    BY <1>4, <1>6
  <2>2. Cardinality(S \cup {s.series}) = Cardinality(S) + 1
    BY <1>3, <1>6, FS_AddElement
  <2> QED
    BY <1>5, <1>6, <2>1, <2>2 DEF S
<1>7. CASE ~(ok /\ s.series \notin S)
  <2>1. SeriesOf(field)' = S
    BY <1>4, <1>7
  <2> QED
    BY <1>5, <1>7, <2>1 DEF S
<1> QED
  BY <1>6, <1>7

\* The sums of a field grow by the values of its valid samples only.
LEMMA FieldTotals ==
  ASSUME DocumentOK, NEW s, SampleOK(s), document' = BagAdd(document, s), s.name \in Fields,
         NEW field \in Fields, NEW key \in KeysFor(field)
  PROVE  /\ TotalOf(key) \in Nat
         /\ TotalOf(key)' = TotalOf(key) +
              IF s.name = field /\ s.series.code # 0 /\ s.value >= 0 /\ key \in KeysOfSample(s)
              THEN s.value ELSE 0
<1>1. key \in HTTPKeys
  BY KeysAre
<1>2. Belongs(key, s) <=>
        s.name = field /\ s.series.code # 0 /\ s.value >= 0 /\ key \in KeysOfSample(s)
  BY BelongsWhere
<1>3. \A t \in Summands(key) : t.value >= 0
  BY <1>1, SummandsAreValid
<1>4. /\ TotalOf(key) \in Nat
      /\ TotalOf(key)' = TotalOf(key) + IF Belongs(key, s) THEN s.value ELSE 0
  BY <1>2, <1>3, TotalGrows
<1> QED
  BY <1>2, <1>4

LEMMA HTTPStep ==
  ASSUME DocumentOK, http \in HTTPRecords, Identities, Summed,
         NEW s, SampleOK(s), s.name \in Fields,
         document' = BagAdd(document, s), http' = Accept(http, s.name, s)
  PROVE  http' \in HTTPRecords /\ Identities' /\ Summed'
<1> DEFINE f == s.name
           ok == s.series.code # 0 /\ s.value >= 0
           N(field) == Cardinality(SeriesOf(field))
           New(field) == f = field /\ ok
           More(field, key) == New(field) /\ key \in KeysOfSample(s)
<1>1. \A field \in Fields :
        /\ SeriesOf(field)' = SeriesOf(field) \cup IF New(field) THEN {s.series} ELSE {}
        /\ SomeSeriesTwice(field)' <=>
             SomeSeriesTwice(field) \/ (New(field) /\ s.series \in SeriesOf(field))
        /\ (Valid(field)' # SamplesOf(field)') <=>
             (Valid(field) # SamplesOf(field) \/ (f = field /\ ~ok))
  <2> TAKE field \in Fields
  <2> QED
    BY FieldGrows
<1>2. \A field \in Fields :
        /\ N(field) \in Nat
        /\ N(field)' = N(field) + IF New(field) /\ s.series \notin SeriesOf(field) THEN 1 ELSE 0
  <2> TAKE field \in Fields
  <2> QED
    BY SeriesGrow
<1>3. \A field \in Fields : \A key \in KeysFor(field) :
        /\ TotalOf(key) \in Nat
        /\ TotalOf(key)' = TotalOf(key) + IF More(field, key) THEN s.value ELSE 0
  <2> TAKE field \in Fields
  <2> TAKE key \in KeysFor(field)
  <2> QED
    BY FieldTotals
<1>4. /\ TooManySeries <=> N("counted") + N("timed") > MatchingLimit
      /\ TooManySeries' <=> N("counted")' + N("timed")' > MatchingLimit
  BY DEF TooManySeries
<1>5. f \in Fields /\ f \notin RuntimeKeys /\ s.series \in Series /\ s.value \in Int
  BY KeysAre DEF SampleOK
<1>6. TooManySeries => TooManySeries'
  <2>1. \A field \in Fields : N(field) \in Nat /\ N(field)' \in Nat /\ N(field) <= N(field)'
    BY <1>2
  <2> HIDE DEF N
  <2> QED
    BY <1>4, <2>1, KeysAre, LimitsAssumption
<1>7. /\ \A field \in Fields : field \in http.invalid <=> Valid(field) # SamplesOf(field)
      /\ http.matchingOverflow <=> TooManySeries
      /\ ~http.matchingOverflow =>
           \A field \in Fields :
             /\ http[field] = SeriesOf(field)
             /\ field \in http.duplicate <=> SomeSeriesTwice(field)
  BY DEF Identities
<1>8. /\ http.invalid \in SUBSET Fields /\ http.duplicate \in SUBSET Fields
      /\ http.overflow \in SUBSET HTTPKeys /\ http.matchingOverflow \in BOOLEAN
      /\ \A key \in HTTPKeys : http.totals[key] \in Nat
  BY LimitsAssumption DEF HTTPRecords
<1>9. CASE ~ok
  <2>1. http' = [http EXCEPT !.invalid = @ \cup {f}]
    BY <1>5, <1>9 DEF Accept
  <2>2. /\ http' \in HTTPRecords /\ http'.invalid = http.invalid \cup {f}
        /\ http'.totals = http.totals /\ http'.overflow = http.overflow
        /\ http'.duplicate = http.duplicate /\ http'.matchingOverflow = http.matchingOverflow
        /\ http'.counted = http.counted /\ http'.timed = http.timed
    BY <1>5, <2>1, InvalidMarked
  <2>3. \A field \in Fields : http'[field] = http[field]
    BY <2>2, KeysAre
  <2>4. \A field \in Fields : N(field)' = N(field)
    BY <1>2, <1>9
  <2>5. TooManySeries' <=> TooManySeries
    BY <1>4, <2>4, KeysAre
  <2>6. \A field \in Fields : SeriesOf(field)' = SeriesOf(field) /\ (SomeSeriesTwice(field)' <=> SomeSeriesTwice(field))
    BY <1>1, <1>9
  <2>7. Identities'
    <3> HIDE DEF ok, f
    <3> QED
      BY <1>1, <1>7, <1>9, <2>2, <2>3, <2>5, <2>6 DEF Identities
  <2>8. \A field \in Fields : \A key \in KeysFor(field) : TotalOf(key)' = TotalOf(key)
    BY <1>3, <1>9
  <2>9. Summed'
    BY <2>2, <2>8 DEF Summed
  <2> QED
    BY <2>2, <2>7, <2>9
<1>10. CASE ok /\ s.series \in http[f]
  <2>1. http' = [http EXCEPT !.duplicate = @ \cup {f}]
    BY <1>5, <1>10 DEF Accept
  <2>2. /\ http' \in HTTPRecords /\ http'.duplicate = http.duplicate \cup {f}
        /\ http'.totals = http.totals /\ http'.overflow = http.overflow
        /\ http'.invalid = http.invalid /\ http'.matchingOverflow = http.matchingOverflow
        /\ http'.counted = http.counted /\ http'.timed = http.timed
    BY <1>5, <2>1, DuplicateMarked
  <2>3. \A field \in Fields : http'[field] = http[field]
    BY <2>2, KeysAre
  <2>4. ASSUME ~http.matchingOverflow
        PROVE  /\ \A field \in Fields : N(field)' = N(field) /\ SeriesOf(field)' = SeriesOf(field)
               /\ \A field \in Fields : SomeSeriesTwice(field)' <=> SomeSeriesTwice(field) \/ field = f
               /\ ~TooManySeries'
    <3>1. s.series \in SeriesOf(f)
      BY <1>5, <1>7, <1>10, <2>4
    <3>2. \A field \in Fields : N(field)' = N(field) /\ SeriesOf(field)' = SeriesOf(field)
      BY <1>1, <1>2, <3>1
    <3>3. \A field \in Fields : SomeSeriesTwice(field)' <=> SomeSeriesTwice(field) \/ field = f
      BY <1>1, <1>5, <1>10, <3>1
    <3>4. ~TooManySeries'
      BY <1>4, <1>7, <2>4, <3>2, KeysAre
    <3> QED
      BY <3>2, <3>3, <3>4
  <2>5. Identities'
    <3>1. \A field \in Fields : (field \in http'.invalid) <=> Valid(field)' # SamplesOf(field)'
      BY <1>1, <1>7, <1>10, <2>2
    <3>2. http'.matchingOverflow <=> TooManySeries'
      BY <1>6, <1>7, <2>2, <2>4
    <3>3. ASSUME ~http'.matchingOverflow, NEW field \in Fields
          PROVE  http'[field] = SeriesOf(field)' /\ ((field \in http'.duplicate) <=> SomeSeriesTwice(field)')
      BY <1>7, <2>2, <2>3, <2>4, <3>3
    <3> QED
      BY <3>1, <3>2, <3>3 DEF Identities
  <2>6. \A field \in Fields \ {f} : \A key \in KeysFor(field) : TotalOf(key)' = TotalOf(key)
    BY <1>3
  <2>7. Summed'
    <3> SUFFICES ASSUME NEW field \in Fields, ~http'.matchingOverflow, field \notin http'.duplicate,
                        NEW key \in KeysFor(field)
                 PROVE  IF key \in http'.overflow THEN TotalOf(key)' > MaxTotal
                        ELSE TotalOf(key)' = http'.totals[key]
      BY DEF Summed
    <3> QED
      BY <2>2, <2>6 DEF Summed
  <2> QED
    BY <2>2, <2>5, <2>7
<1>11. CASE ok /\ s.series \notin http[f]
  <2> DEFINE a == Added(http, KeysOfSample(s), s.value)
  <2>1. KeysOfSample(s) \in SUBSET KeysFor(f) /\ KeysFor(f) \subseteq HTTPKeys /\ s.value \in Nat
    BY <1>5, <1>11, KeysAre DEF KeysOfSample
  <2>2. http' = AddMatchingDimension(a, f, s.series)
    BY <1>5, <1>11, KeysAre DEF Accept, KeysOfSample
  <2>3. /\ a \in HTTPRecords
        /\ a.counted = http.counted /\ a.timed = http.timed /\ a.invalid = http.invalid
        /\ a.duplicate = http.duplicate /\ a.matchingOverflow = http.matchingOverflow
        /\ \A k \in HTTPKeys :
             IF k \in KeysOfSample(s) /\ http.totals[k] + s.value > MaxTotal
             THEN k \in a.overflow /\ a.totals[k] = http.totals[k]
             ELSE /\ k \in a.overflow <=> k \in http.overflow
                  /\ a.totals[k] = http.totals[k] + IF k \in KeysOfSample(s) THEN s.value ELSE 0
    BY <2>1, AddedIs
  <2>4. \A field \in Fields : a[field] = http[field]
    BY <2>3, KeysAre
  <2> HIDE DEF a
  <2>5. CASE a.matchingOverflow \/ MatchingStates(a) = MatchingLimit
    <3>1. http' = [a EXCEPT !.matchingOverflow = TRUE]
      BY <2>2, <2>5 DEF AddMatchingDimension
    <3>2. http' \in HTTPRecords /\ http'.matchingOverflow /\ http'.invalid = a.invalid
      BY <1>5, <2>3, <3>1, LimitMarked
    <3>3. TooManySeries'
      <4>1. CASE http.matchingOverflow
        BY <1>6, <1>7, <4>1
      <4>2. CASE ~http.matchingOverflow
        <5>1. MatchingStates(a) = N("counted") + N("timed") /\ s.series \notin SeriesOf(f)
          BY <1>5, <1>7, <1>11, <2>3, <4>2, KeysAre DEF MatchingStates
        <5>2. N("counted") + N("timed") = MatchingLimit
          BY <2>3, <2>5, <4>2, <5>1
        <5>3. N(f)' = N(f) + 1 /\ \A field \in Fields \ {f} : N(field)' = N(field)
          BY <1>2, <1>5, <1>11, <5>1
        <5>4. \A field \in Fields : N(field) \in Nat
          BY <1>2
        <5> HIDE DEF N, f
        <5>5. f \in {"counted", "timed"}
          BY <1>5, KeysAre
        <5> QED
          BY <1>4, <5>2, <5>3, <5>4, <5>5, KeysAre
      <4> QED
        BY <1>8, <4>1, <4>2
    <3>4. \A field \in Fields : (field \in http'.invalid) <=> Valid(field)' # SamplesOf(field)'
      BY <1>1, <1>7, <1>11, <2>3, <3>2
    <3>5. Identities'
      BY <3>2, <3>3, <3>4 DEF Identities
    <3>6. Summed'
      BY <3>2 DEF Summed
    <3> QED
      BY <3>2, <3>5, <3>6
  <2>6. CASE ~a.matchingOverflow /\ MatchingStates(a) # MatchingLimit
    <3>1. http' = [a EXCEPT ![f] = @ \cup {s.series}]
      BY <2>2, <2>6 DEF AddMatchingDimension
    <3>2. /\ http' \in HTTPRecords /\ http'.matchingOverflow = a.matchingOverflow
          /\ http'.totals = a.totals /\ http'.overflow = a.overflow
          /\ http'.invalid = a.invalid /\ http'.duplicate = a.duplicate
          /\ \A field \in Fields : http'[field] = a[field] \cup IF field = f THEN {s.series} ELSE {}
      <4>1. f \in Fields /\ s.series \in Series /\ a \in HTTPRecords
        BY <1>5, <2>3
      <4> HIDE DEF f
      <4>2. CASE f = "counted"
        <5>1. http' = [a EXCEPT !.counted = @ \cup {s.series}]
          BY ONLY <3>1, <4>2
        <5> QED
          BY ONLY <4>1, <4>2, <5>1 DEF HTTPRecords, Fields
      <4>3. CASE f = "timed"
        <5>1. http' = [a EXCEPT !.timed = @ \cup {s.series}]
          BY ONLY <3>1, <4>3
        <5> QED
          BY ONLY <4>1, <4>3, <5>1 DEF HTTPRecords, Fields
      <4> QED
        BY <4>1, <4>2, <4>3 DEF Fields
    <3>3. ~http.matchingOverflow /\ ~http'.matchingOverflow
      BY <2>3, <2>6, <3>2
    <3>4. s.series \notin SeriesOf(f)
      BY <1>5, <1>7, <1>11, <3>3
    <3>5. ~TooManySeries'
      <4>1. MatchingStates(a) = N("counted") + N("timed")
        BY <1>7, <2>3, <3>3, KeysAre DEF MatchingStates
      <4>2. N("counted") + N("timed") # MatchingLimit /\ ~(N("counted") + N("timed") > MatchingLimit)
        BY <1>4, <1>7, <2>6, <3>3, <4>1
      <4>3. \A field \in Fields : N(field) \in Nat /\ N(field)' = N(field) + IF field = f THEN 1 ELSE 0
        BY <1>2, <1>11, <3>4
      <4> HIDE DEF N, f
      <4> QED
        BY <1>4, <4>2, <4>3, KeysAre, LimitsAssumption
    <3>6. \A field \in Fields : (field \in http'.invalid) <=> Valid(field)' # SamplesOf(field)'
      BY <1>1, <1>7, <1>11, <2>3, <3>2
    <3>7. \A field \in Fields : http'[field] = SeriesOf(field)'
      <4>1. \A field \in Fields : http[field] = SeriesOf(field)
        BY <1>7, <3>3
      <4>2. \A field \in Fields : SeriesOf(field)' = SeriesOf(field) \cup IF field = f THEN {s.series} ELSE {}
        BY <1>1, <1>11
      <4>3. \A field \in Fields :
              http'[field] = http[field] \cup IF field = f THEN {s.series} ELSE {}
        BY <2>4, <3>2
      <4> HIDE DEF f
      <4> QED
        BY ONLY <4>1, <4>2, <4>3
    <3>8. \A field \in Fields : (field \in http'.duplicate) <=> SomeSeriesTwice(field)'
      BY <1>1, <1>7, <2>3, <3>2, <3>3, <3>4
    <3>9. Identities'
      BY <3>3, <3>5, <3>6, <3>7, <3>8 DEF Identities
    <3>10. Summed'
      <4> SUFFICES ASSUME NEW field \in Fields, field \notin http.duplicate, NEW key \in KeysFor(field)
                   PROVE  IF key \in a.overflow THEN TotalOf(key)' > MaxTotal
                          ELSE TotalOf(key)' = a.totals[key]
        BY <2>3, <3>2 DEF Summed
      <4>1. IF key \in http.overflow THEN TotalOf(key) > MaxTotal ELSE TotalOf(key) = http.totals[key]
        BY <3>3 DEF Summed
      <4>2. key \in HTTPKeys /\ (key \in KeysOfSample(s) => field = f)
        BY <1>5, <2>1, KeysAre
      <4>3. /\ TotalOf(key) \in Nat /\ http.totals[key] \in Nat
            /\ TotalOf(key)' = TotalOf(key) + IF key \in KeysOfSample(s) THEN s.value ELSE 0
        BY <1>3, <1>8, <1>11, <4>2
      <4> HIDE DEF f
      <4> QED
        BY <2>1, <2>3, <4>1, <4>2, <4>3, LimitsAssumption
    <3> QED
      BY <3>2, <3>9, <3>10
  <2> QED
    BY <2>3, <2>5, <2>6
<1> QED
  BY <1>9, <1>10, <1>11

\* What a sample adds to the samples of a runtime key.
LEMMA KeyGrows ==
  ASSUME DocumentOK, NEW s, SampleOK(s), document' = BagAdd(document, s), NEW key \in RuntimeKeys
  PROVE  /\ SamplesOf(key)' = SamplesOf(key) \cup IF s.name = key THEN {s} ELSE {}
         /\ Repeated(key)' <=> Repeated(key) \/ (s.name = key /\ SamplesOf(key) # {})
         /\ \A t \in SamplesOf(key) : t.value \in Int /\ t.value <= MaxTotal
<1>1. /\ DOMAIN document' = DOMAIN document \cup {s}
      /\ \A t \in DOMAIN document \ {s} : document'[t] = document[t]
      /\ document'[s] = IF s \in DOMAIN document THEN document[s] + 1 ELSE 1
  BY DocumentGrows
<1>2. /\ SamplesOf(key) = {t \in DOMAIN document : t.name = key}
      /\ SamplesOf(key)' = {t \in DOMAIN document' : t.name = key}
  BY DEF SamplesOf
<1>3. SamplesOf(key)' = SamplesOf(key) \cup IF s.name = key THEN {s} ELSE {}
  BY <1>1, <1>2
<1>4. \A t \in DOMAIN document : document[t] \in Nat \ {0} /\ t.value \in Int /\ t.value <= MaxTotal
  BY DEF DocumentOK, SampleOK
<1>5. /\ Repeated(key) <=> \E a, b \in SamplesOf(key) : a # b \/ document[a] # 1
      /\ Repeated(key)' <=> \E a, b \in SamplesOf(key)' : a # b \/ document'[a] # 1
  BY DEF Repeated
<1>6. CASE s.name # key
  <2>1. SamplesOf(key)' = SamplesOf(key) /\ \A t \in SamplesOf(key) : document'[t] = document[t]
    BY <1>1, <1>2, <1>3, <1>6
  <2> QED
    BY <1>2, <1>3, <1>4, <1>5, <1>6, <2>1
<1>7. CASE s.name = key /\ SamplesOf(key) = {}
  <2>1. SamplesOf(key)' = {s} /\ s \notin DOMAIN document
    BY <1>2, <1>3, <1>7
  <2>2. document'[s] = 1
    BY <1>1, <2>1
  <2> QED
    BY <1>3, <1>5, <1>7, <2>1, <2>2
<1>8. CASE s.name = key /\ SamplesOf(key) # {}
  <2>1. PICK t \in SamplesOf(key) : TRUE
    BY <1>8
  <2>2. t # s \/ document'[s] # 1
    BY <1>1, <1>2, <1>4, <2>1
  <2>3. s \in SamplesOf(key)' /\ t \in SamplesOf(key)'
    BY <1>3, <1>8, <2>1
  <2>4. Repeated(key)'
    BY <1>5, <2>2, <2>3
  <2> QED
    BY <1>2, <1>3, <1>4, <1>8, <2>4
<1> QED
  BY <1>6, <1>7, <1>8

\* The sum of a runtime key whose samples are in range.
LEMMA KeyTotal ==
  ASSUME DocumentOK, NEW s, SampleOK(s), document' = BagAdd(document, s), NEW key \in RuntimeKeys,
         \A t \in SamplesOf(key) : InRange(key, t.value), s.name = key => s.value >= 0
  PROVE  /\ TotalOf(key) \in Nat
         /\ TotalOf(key)' = TotalOf(key) + IF s.name = key THEN s.value ELSE 0
         /\ SamplesOf(key) = {} => TotalOf(key) = 0
<1>1. Summands(key) = SamplesOf(key)
  BY DEF Summands
<1>2. \A t \in Summands(key) : t.value >= 0
  BY <1>1 DEF InRange
<1>3. Belongs(key, s) <=> s.name = key
  BY DEF Belongs
<1>4. /\ TotalOf(key) \in Nat
      /\ TotalOf(key)' = TotalOf(key) + IF Belongs(key, s) THEN s.value ELSE 0
  BY <1>2, <1>3, TotalGrows
<1>5. ASSUME SamplesOf(key) = {} PROVE TotalOf(key) = 0
  BY <1>1, <1>5, SumEmpty DEF TotalOf
<1> QED
  BY <1>3, <1>4, <1>5

\* What the three ways of accepting a runtime sample leave of its record.
LEMMA RuntimeRefused ==
  ASSUME NEW v \in RuntimeRecords, NEW key \in RuntimeKeys, NEW w,
         w = [v EXCEPT !.invalid = @ \cup {key}]
  PROVE  /\ w \in RuntimeRecords
         /\ w.saw = v.saw /\ w.invalid = v.invalid \cup {key} /\ w.value = v.value
BY DEF RuntimeRecords

LEMMA RuntimeExceeded ==
  ASSUME NEW v \in RuntimeRecords, NEW key \in RuntimeKeys, NEW w,
         w = [v EXCEPT !.saw = @ \cup {key}, !.invalid = @ \cup {key}]
  PROVE  /\ w \in RuntimeRecords
         /\ w.saw = v.saw \cup {key} /\ w.invalid = v.invalid \cup {key} /\ w.value = v.value
BY DEF RuntimeRecords

LEMMA RuntimeStep ==
  ASSUME DocumentOK, runtime \in RuntimeRecords, RuntimeIsRead,
         NEW s, SampleOK(s), s.name \in RuntimeKeys,
         document' = BagAdd(document, s), runtime' = AcceptRuntime(runtime, s.name, s.value)
  PROVE  runtime' \in RuntimeRecords /\ RuntimeIsRead'
<1> DEFINE k == s.name
           good == InRange(k, s.value)
           Bad(key) == \E t \in SamplesOf(key) : ~InRange(key, t.value)
           Good(key) == \E t \in SamplesOf(key) : InRange(key, t.value)
           Excess(key) == IF key = Heap THEN TotalOf(key) > MaxTotal ELSE Repeated(key)
           Read(key) == /\ key \in runtime.saw <=> Good(key)
                        /\ key \in runtime.invalid <=> Bad(key) \/ Excess(key)
                        /\ key \notin runtime.invalid => runtime.value[key] = TotalOf(key)
<1>1. \A key \in RuntimeKeys : Read(key)
  BY DEF RuntimeIsRead
<1>2. RuntimeIsRead' <=> \A key \in RuntimeKeys : Read(key)'
  BY DEF RuntimeIsRead
<1>3. \A key \in RuntimeKeys :
        /\ SamplesOf(key)' = SamplesOf(key) \cup IF k = key THEN {s} ELSE {}
        /\ Repeated(key)' <=> Repeated(key) \/ (k = key /\ SamplesOf(key) # {})
  BY KeyGrows
<1>4. \A key \in RuntimeKeys :
        /\ Bad(key)' <=> Bad(key) \/ (k = key /\ ~good)
        /\ Good(key)' <=> Good(key) \/ (k = key /\ good)
  <2> TAKE key \in RuntimeKeys
  <2>1. CASE k = key
    <3>1. SamplesOf(key)' = SamplesOf(key) \cup {s}
      BY <1>3, <2>1
    <3> QED
      BY <2>1, <3>1
  <2>2. CASE k # key
    <3>1. SamplesOf(key)' = SamplesOf(key)
      BY <1>3, <2>2
    <3> QED
      BY <2>2, <3>1
  <2> QED
    BY <2>1, <2>2
<1>5. ASSUME NEW key \in RuntimeKeys, ~Bad(key)'
      PROVE  /\ TotalOf(key) \in Nat
             /\ TotalOf(key)' = TotalOf(key) + IF k = key THEN s.value ELSE 0
             /\ SamplesOf(key) = {} => TotalOf(key) = 0
             /\ k = key => s.value >= 0
  <2>1. ~Bad(key) /\ (k = key => good)
    BY <1>4, <1>5
  <2>2. k = key => s.value >= 0
    BY <2>1 DEF InRange
  <2>3. \A t \in SamplesOf(key) : InRange(key, t.value)
    BY <2>1
  <2> QED
    BY <2>2, <2>3, KeyTotal
<1>6. k \in RuntimeKeys /\ s.value \in Int /\ s.value <= MaxTotal /\ (good => s.value >= 0)
  BY DEF SampleOK, InRange
<1>7. /\ runtime.saw \in SUBSET RuntimeKeys /\ runtime.invalid \in SUBSET RuntimeKeys
      /\ runtime.value \in [RuntimeKeys -> 0..MaxTotal]
  BY DEF RuntimeRecords
<1>8. ~Bad(k) /\ ~Good(k) => SamplesOf(k) = {}
  OBVIOUS
<1> DEFINE total == runtime.value[k] + s.value
           kept == IF k = Heap THEN total ELSE s.value
           refused == ~good \/ (k # Heap /\ k \in runtime.saw)
           tooLarge == k = Heap /\ total > MaxTotal
<1>9. /\ refused => runtime' = [runtime EXCEPT !.invalid = @ \cup {k}]
      /\ ~refused /\ tooLarge => runtime' = [runtime EXCEPT !.saw = @ \cup {k}, !.invalid = @ \cup {k}]
      /\ ~refused /\ ~tooLarge => runtime' = [runtime EXCEPT !.saw = @ \cup {k}, !.value[k] = kept]
  BY DEF AcceptRuntime, Heap
<1>10. total \in Int /\ (~refused /\ ~tooLarge => kept \in 0..MaxTotal)
  <2>1. runtime.value[k] \in Nat /\ (good => s.value \in Nat)
    BY <1>6, <1>7, LimitsAssumption
  <2> QED
    BY <1>6, <2>1, LimitsAssumption
<1> HIDE DEF k, good, Bad, Good, total, kept, refused, tooLarge
<1>11. /\ refused => /\ runtime' \in RuntimeRecords /\ runtime'.saw = runtime.saw
                     /\ runtime'.invalid = runtime.invalid \cup {k} /\ runtime'.value = runtime.value
       /\ ~refused /\ tooLarge =>
            /\ runtime' \in RuntimeRecords /\ runtime'.saw = runtime.saw \cup {k}
            /\ runtime'.invalid = runtime.invalid \cup {k} /\ runtime'.value = runtime.value
  <2>1. CASE refused
    <3>1. runtime' = [runtime EXCEPT !.invalid = @ \cup {k}]
      BY <1>9, <2>1
    <3> QED
      BY ONLY <1>6, <2>1, <3>1, RuntimeRefused, runtime \in RuntimeRecords
  <2>2. CASE ~refused /\ tooLarge
    <3>1. runtime' = [runtime EXCEPT !.saw = @ \cup {k}, !.invalid = @ \cup {k}]
      BY <1>9, <2>2
    <3> QED
      BY ONLY <1>6, <2>2, <3>1, RuntimeExceeded, runtime \in RuntimeRecords
  <2> QED
    BY <2>1, <2>2
<1>12. ASSUME ~refused, ~tooLarge
       PROVE  /\ runtime' \in RuntimeRecords /\ runtime'.saw = runtime.saw \cup {k}
              /\ runtime'.invalid = runtime.invalid /\ runtime'.value = [runtime.value EXCEPT ![k] = kept]
  <2>1. runtime' = [runtime EXCEPT !.saw = @ \cup {k}, !.value[k] = kept]
    BY <1>9, <1>12
  <2>2. kept \in 0..MaxTotal
    BY <1>10, <1>12
  <2>3. runtime = [value |-> runtime.value, saw |-> runtime.saw, invalid |-> runtime.invalid]
    BY DEF RuntimeRecords
  <2>4. runtime' = [value |-> [runtime.value EXCEPT ![k] = kept], saw |-> runtime.saw \cup {k},
                    invalid |-> runtime.invalid]
    <3> DEFINE u == [runtime EXCEPT !.saw = @ \cup {k}]
    <3>1. u = [value |-> runtime.value, saw |-> runtime.saw \cup {k}, invalid |-> runtime.invalid]
      BY ONLY <2>3
    <3>2. runtime' = [u EXCEPT !.value = [u.value EXCEPT ![k] = kept]]
      BY ONLY <2>1
    <3> HIDE DEF u
    <3> QED
      BY ONLY <3>1, <3>2
  <2>5. [runtime.value EXCEPT ![k] = kept] \in [RuntimeKeys -> 0..MaxTotal]
    BY ONLY <1>6, <1>7, <2>2
  <2> HIDE DEF RuntimeKeys
  <2> QED
    BY ONLY <1>6, <1>7, <2>4, <2>5 DEF RuntimeRecords
<1>13. ASSUME NEW key \in RuntimeKeys \ {k} PROVE Read(key)'
  <2>1. /\ (key \in runtime'.saw) <=> key \in runtime.saw
        /\ (key \in runtime'.invalid) <=> key \in runtime.invalid
        /\ runtime'.value[key] = runtime.value[key]
    BY <1>6, <1>7, <1>11, <1>12
  <2>2. (Bad(key)' <=> Bad(key)) /\ (Good(key)' <=> Good(key)) /\ (Repeated(key)' <=> Repeated(key))
    BY <1>3, <1>4
  <2>3. ~Bad(key)' => TotalOf(key)' = TotalOf(key)
    BY <1>5
  <2> QED
    BY <1>1, <2>1, <2>2, <2>3
<1>14. Read(k)'
  <2>1. (k \in runtime.saw <=> Good(k)) /\ (k \in runtime.invalid <=> Bad(k) \/ Excess(k))
        /\ (k \notin runtime.invalid => runtime.value[k] = TotalOf(k))
    BY <1>1, <1>6
  <2>2. (Bad(k)' <=> Bad(k) \/ ~good) /\ (Good(k)' <=> Good(k) \/ good)
        /\ (Repeated(k)' <=> Repeated(k) \/ SamplesOf(k) # {})
    BY <1>3, <1>4, <1>6
  <2>3. CASE ~good
    <3>1. refused
      BY <2>3 DEF refused
    <3> QED
      BY <1>6, <1>11, <2>1, <2>2, <2>3, <3>1
  <2>4. CASE good /\ k # Heap /\ k \in runtime.saw
    <3>1. refused
      BY <2>4 DEF refused
    <3>2. SamplesOf(k) # {}
      BY <2>1, <2>4 DEF Good
    <3> QED
      BY <1>6, <1>11, <2>1, <2>2, <2>4, <3>1, <3>2
  <2>5. CASE good /\ k # Heap /\ k \notin runtime.saw
    <3>1. ~refused /\ ~tooLarge /\ kept = s.value
      BY <2>5 DEF refused, tooLarge, kept
    <3>2. k \in runtime'.saw /\ runtime'.value[k] = s.value /\ runtime'.invalid = runtime.invalid
      BY <1>6, <1>7, <1>12, <3>1
    <3>3. CASE k \in runtime.invalid
      BY <2>1, <2>2, <2>5, <3>2, <3>3
    <3>4. CASE k \notin runtime.invalid
      <4>1. SamplesOf(k) = {} /\ ~Bad(k)' /\ ~Repeated(k)'
        BY <1>8, <2>1, <2>2, <2>5, <3>4
      <4>2. TotalOf(k)' = s.value
        BY <1>5, <1>6, <4>1
      <4> QED
        BY <2>2, <2>5, <3>2, <3>4, <4>1, <4>2
    <3> QED
      BY <3>3, <3>4
  <2>6. CASE good /\ k = Heap
    <3>1. ~refused
      BY <2>6 DEF refused
    <3>2. k \in runtime'.saw /\ Good(k)'
      BY <1>11, <1>12, <2>2, <2>6, <3>1
    <3>3. ~Bad(k) => TotalOf(k) \in Nat /\ TotalOf(k)' = TotalOf(k) + s.value /\ s.value >= 0
      BY <1>5, <1>6, <2>2, <2>6
    <3>4. CASE k \in runtime.invalid
      <4>1. k \in runtime'.invalid
        BY <1>11, <1>12, <3>1, <3>4
      <4>2. Bad(k)' \/ TotalOf(k)' > MaxTotal
        BY <1>6, <2>1, <2>2, <2>6, <3>3, <3>4, LimitsAssumption
      <4> QED
        BY <2>6, <3>2, <4>1, <4>2
    <3>5. CASE k \notin runtime.invalid
      <4>1. ~Bad(k) /\ ~Bad(k)' /\ TotalOf(k)' = total
        BY <2>1, <2>2, <2>6, <3>3, <3>5 DEF total
      <4>2. CASE tooLarge
        <5>1. k \in runtime'.invalid /\ TotalOf(k)' > MaxTotal
          BY <1>11, <3>1, <4>1, <4>2 DEF tooLarge
        <5> QED
          BY <2>6, <3>2, <5>1
      <4>3. CASE ~tooLarge
        <5>1. k \notin runtime'.invalid /\ runtime'.value[k] = total /\ ~(TotalOf(k)' > MaxTotal)
          BY <1>6, <1>7, <1>12, <2>6, <3>1, <3>5, <4>1, <4>3 DEF tooLarge, kept
        <5> QED
          BY <2>6, <3>2, <4>1, <5>1
      <4> QED
        BY <4>2, <4>3
    <3> QED
      BY <3>4, <3>5
  <2> QED
    BY <2>3, <2>4, <2>5, <2>6
<1>15. runtime' \in RuntimeRecords
  BY <1>11, <1>12
<1> QED
  BY <1>2, <1>13, <1>14, <1>15

-----------------------------------------------------------------------------
(* What is published.                                                      *)

LEMMA TotalType ==
  ASSUME DocumentOK, NEW key, \A t \in Summands(key) : t.value >= 0
  PROVE  TotalOf(key) \in Nat
<1> DEFINE f == [t \in DOMAIN document |-> t.value * document[t]]
           S == Summands(key)
<1>1. S \subseteq DOMAIN document
  BY SummandsAre
<1>2. IsFiniteSet(S)
  BY <1>1, FS_Subset DEF DocumentOK
<1>3. \A t \in S : f[t] \in Nat
  <2> SUFFICES ASSUME NEW t \in S PROVE t.value * document[t] \in Nat
    BY <1>1
  <2>1. t.value \in Nat /\ document[t] \in Nat
    BY <1>1 DEF DocumentOK, SampleOK
  <2> QED
    BY <2>1
<1> HIDE DEF f, S
<1>4. SumFunctionOnSet(f, S) \in Nat
  BY <1>2, <1>3, SumType
<1> QED
  BY <1>4 DEF TotalOf, f, S

\* The record determines what the document means to say of HTTP.
LEMMA HTTPExact ==
  ASSUME DocumentOK, http \in HTTPRecords, Identities, Summed
  PROVE  /\ PublishedHTTP(http) = {k \in HTTPKeys : Meant(k)}
         /\ \A k \in PublishedHTTP(http) : http.totals[k] = TotalOf(k)
<1> DEFINE Countable == http.counted # {} /\ "counted" \notin http.duplicate /\ ~http.matchingOverflow
<1>1. /\ http.invalid \in SUBSET Fields /\ http.duplicate \in SUBSET Fields
      /\ http.overflow \in SUBSET HTTPKeys /\ http.matchingOverflow \in BOOLEAN
      /\ \A key \in HTTPKeys : http.totals[key] \in Nat /\ http.totals[key] <= MaxTotal
  BY LimitsAssumption DEF HTTPRecords
<1>2. \A key \in HTTPKeys : TotalOf(key) \in Nat
  BY SummandsAreValid, TotalType
<1>3. \A field : SeriesOf(field) = {} <=> Valid(field) = {}
  BY DEF SeriesOf
<1>4. ASSUME ~http.matchingOverflow
      PROVE  /\ http.counted = SeriesOf("counted") /\ http.timed = SeriesOf("timed")
             /\ "counted" \in http.duplicate <=> SomeSeriesTwice("counted")
             /\ "timed" \in http.duplicate <=> SomeSeriesTwice("timed")
  BY <1>4, KeysAre DEF Identities
<1>5. /\ http.matchingOverflow <=> TooManySeries
      /\ "counted" \in http.invalid <=> Valid("counted") # SamplesOf("counted")
  BY KeysAre DEF Identities
<1>6. ASSUME ~http.matchingOverflow, NEW field \in Fields, field \notin http.duplicate,
             NEW key \in KeysFor(field)
      PROVE  /\ key \in http.overflow <=> ~(TotalOf(key) <= MaxTotal)
             /\ key \notin http.overflow => http.totals[key] = TotalOf(key)
  <2>1. key \in HTTPKeys
    BY KeysAre
  <2>2. IF key \in http.overflow THEN TotalOf(key) > MaxTotal ELSE TotalOf(key) = http.totals[key]
    BY <1>6 DEF Summed
  <2> QED
    BY <1>1, <1>2, <2>1, <2>2, LimitsAssumption
<1>7. /\ Time \in HTTPKeys /\ Requests \in HTTPKeys /\ StatusKeys \subseteq HTTPKeys
      /\ Time \notin StatusKeys /\ Time # Requests /\ Requests \notin StatusKeys
      /\ HTTPKeys = {Requests, Time} \cup StatusKeys
      /\ KeysFor("counted") = {Requests} \cup StatusKeys /\ KeysFor("timed") = {Time}
  BY DEF HTTPKeys, Time, Requests, StatusKeys, KeysFor
<1>8. /\ PublishedHTTP(http) \subseteq HTTPKeys
      /\ Time \in PublishedHTTP(http) <=> DurationMatchesCounts(http)
      /\ \A k \in HTTPKeys \ {Time} : k \in PublishedHTTP(http) <=>
           /\ Countable /\ k \notin http.overflow
           /\ k \in StatusKeys => "counted" \notin http.invalid
  BY <1>7 DEF PublishedHTTP
<1>9. \A k \in HTTPKeys : Meant(k) <=>
        /\ Valid("counted") # {} /\ ~SomeSeriesTwice("counted") /\ ~TooManySeries
        /\ k \in StatusKeys => Valid("counted") = SamplesOf("counted")
        /\ k = Time => SeriesOf("timed") = SeriesOf("counted") /\ ~SomeSeriesTwice("timed")
        /\ TotalOf(k) <= MaxTotal
  BY KeysAre DEF Meant
<1> HIDE DEF Countable
<1>10. ASSUME NEW k \in HTTPKeys \ {Time}
       PROVE  /\ k \in PublishedHTTP(http) <=> Meant(k)
              /\ k \in PublishedHTTP(http) => http.totals[k] = TotalOf(k)
  <2>1. k \in KeysFor("counted") /\ "counted" \in Fields
    BY <1>7, KeysAre
  <2>2. CASE ~http.matchingOverflow /\ "counted" \notin http.duplicate
    <3>1. /\ k \in http.overflow <=> ~(TotalOf(k) <= MaxTotal)
          /\ k \notin http.overflow => http.totals[k] = TotalOf(k)
      BY <1>6, <2>1, <2>2
    <3> QED
      BY <1>3, <1>4, <1>5, <1>8, <1>9, <2>2, <3>1 DEF Countable
  <2>3. CASE http.matchingOverflow \/ "counted" \in http.duplicate
    BY <1>4, <1>5, <1>8, <1>9, <2>3 DEF Countable
  <2> QED
    BY <1>1, <2>2, <2>3
<1>11. /\ Time \in PublishedHTTP(http) <=> Meant(Time)
       /\ Time \in PublishedHTTP(http) => http.totals[Time] = TotalOf(Time)
  <2>1. http.duplicate = {} <=> "counted" \notin http.duplicate /\ "timed" \notin http.duplicate
    BY <1>1 DEF Fields
  <2>2. CASE ~http.matchingOverflow /\ http.duplicate = {}
    <3>1. /\ Time \in http.overflow <=> ~(TotalOf(Time) <= MaxTotal)
          /\ Time \notin http.overflow => http.totals[Time] = TotalOf(Time)
      BY <1>6, <1>7, <2>2, KeysAre
    <3> QED
      BY <1>3, <1>4, <1>5, <1>7, <1>8, <1>9, <2>1, <2>2, <3>1 DEF DurationMatchesCounts
  <2>3. CASE http.matchingOverflow \/ http.duplicate # {}
    BY <1>4, <1>5, <1>7, <1>8, <1>9, <2>1, <2>3 DEF DurationMatchesCounts
  <2> QED
    BY <1>1, <2>2, <2>3
<1>12. \A k \in HTTPKeys : /\ k \in PublishedHTTP(http) <=> Meant(k)
                           /\ k \in PublishedHTTP(http) => http.totals[k] = TotalOf(k)
  BY <1>10, <1>11
<1> QED
  BY <1>8, <1>12

\* And what it means to say of the process.
LEMMA RuntimeExact ==
  ASSUME DocumentOK, runtime \in RuntimeRecords, RuntimeIsRead
  PROVE  /\ PublishedRuntime(runtime) = {k \in RuntimeKeys : Meant(k)}
         /\ \A k \in PublishedRuntime(runtime) : runtime.value[k] = TotalOf(k)
<1>1. /\ runtime.saw \in SUBSET RuntimeKeys
      /\ \A key \in RuntimeKeys : runtime.value[key] \in Nat /\ runtime.value[key] <= MaxTotal
  BY LimitsAssumption DEF RuntimeRecords
<1>2. ASSUME NEW k \in RuntimeKeys
      PROVE  /\ k \in runtime.saw \ runtime.invalid <=> Meant(k)
             /\ k \in runtime.saw \ runtime.invalid => runtime.value[k] = TotalOf(k)
  <2>1. Meant(k) <=>
          /\ SamplesOf(k) # {} /\ \A s \in SamplesOf(k) : InRange(k, s.value)
          /\ k # Heap => \A s, t \in SamplesOf(k) : s = t /\ document[s] = 1
          /\ TotalOf(k) <= MaxTotal
    BY KeysAre DEF Meant, Heap
  <2>2. /\ k \in runtime.saw <=> \E s \in SamplesOf(k) : InRange(k, s.value)
        /\ k \in runtime.invalid <=>
             \/ \E s \in SamplesOf(k) : ~InRange(k, s.value)
             \/ IF k = Heap THEN TotalOf(k) > MaxTotal ELSE Repeated(k)
        /\ k \notin runtime.invalid => runtime.value[k] = TotalOf(k)
    BY DEF RuntimeIsRead
  <2>3. Repeated(k) <=> ~(\A s, t \in SamplesOf(k) : s = t /\ document[s] = 1)
    BY DEF Repeated
  <2>4. ASSUME \A s \in SamplesOf(k) : InRange(k, s.value) PROVE TotalOf(k) \in Nat
    <3>1. \A s \in Summands(k) : s.value >= 0
      BY <2>4 DEF Summands, InRange
    <3> QED
      BY <3>1, TotalType
  <2>5. ASSUME k \notin runtime.invalid PROVE TotalOf(k) <= MaxTotal
    BY <1>1, <2>2, <2>5
  <2>6. ASSUME Meant(k) PROVE ~(TotalOf(k) > MaxTotal)
    BY <2>1, <2>4, <2>6, LimitsAssumption
  <2> HIDE DEF Heap
  <2> QED
    BY <2>1, <2>2, <2>3, <2>5, <2>6
<1> QED
  BY <1>1, <1>2 DEF PublishedRuntime

\* Without a warning there is nothing to omit.
LEMMA NothingHidden ==
  ASSUME http \in HTTPRecords, Identities
  PROVE  OmissionsAreReported
<1> SUFFICES ASSUME WarnedHTTP(http) = {}
             PROVE  /\ SamplesOf("counted") # {} => HTTPKeys \ {Time} \subseteq PublishedHTTP(http)
                    /\ SamplesOf("timed") # {} => Time \in PublishedHTTP(http)
  BY DEF OmissionsAreReported
<1>1. /\ http.invalid = {} /\ http.duplicate = {} /\ http.overflow = {} /\ ~http.matchingOverflow
      /\ http.timed # {} => DurationMatchesCounts(http)
  BY DEF WarnedHTTP
<1>2. \A field \in Fields : Valid(field) = SamplesOf(field)
  BY <1>1 DEF Identities
<1>3. http.counted = SeriesOf("counted") /\ http.timed = SeriesOf("timed")
  BY <1>1, KeysAre DEF Identities
<1>4. \A field \in Fields : SamplesOf(field) # {} => SeriesOf(field) # {}
  BY <1>2 DEF SeriesOf
<1>5. ASSUME SamplesOf("counted") # {} PROVE HTTPKeys \ {Time} \subseteq PublishedHTTP(http)
  <2>1. http.counted # {}
    BY <1>3, <1>4, <1>5, KeysAre
  <2> QED
    BY <1>1, <2>1 DEF PublishedHTTP, HTTPKeys
<1>6. ASSUME SamplesOf("timed") # {} PROVE Time \in PublishedHTTP(http)
  <2>1. DurationMatchesCounts(http)
    BY <1>1, <1>3, <1>4, <1>6, KeysAre
  <2> QED
    BY <2>1 DEF PublishedHTTP
<1> QED
  BY <1>5, <1>6

LEMMA ScrapeExact == ScrapeInvariant => EvaluationIsExact
BY HTTPExact, RuntimeExact, NothingHidden
DEF ScrapeInvariant, EvaluationIsExact, PublishedAsMeant

-----------------------------------------------------------------------------
(* The steps of Collect.                                                   *)

LEMMA SamplesAreOK ==
  ASSUME IInv, NEW s \in HTTPSamples \cup RuntimeSamples
  PROVE  SampleOK(s)
<1>1. CASE s \in HTTPSamples
  <2>1. PICK field \in Fields, series \in Series, value \in Values :
          s = [name |-> field, series |-> series, value |-> value]
    BY <1>1 DEF HTTPSamples, Sample, Fields
  <2>2. value \in Int /\ value <= MaxTotal
    BY ValuesAssumption, LimitsAssumption
  <2> QED
    BY <2>1, <2>2, KeysAre DEF SampleOK
<1>2. CASE s \in RuntimeSamples
  <2>1. PICK key \in RuntimeKeys, value \in Values \cup {0, app.incarnation} :
          s = [name |-> key, series |-> NoSeries, value |-> value]
    BY <1>2 DEF RuntimeSamples, Sample, RuntimeKeys
  <2>2. app.incarnation \in 0..MaxIncarnation
    BY DEF IInv, TypeOK, Times
  <2>3. value \in Int /\ value <= MaxTotal
    BY <2>2, BoundAssumption, ValuesAssumption, LimitsAssumption
  <2> QED
    BY <2>1, <2>3 DEF SampleOK
<1> QED
  BY <1>1, <1>2

\* A sample of the process changes nothing of what is read of HTTP.
LEMMA HTTPUntouched ==
  ASSUME DocumentOK, Identities, Summed, NEW s, SampleOK(s), s.name \in RuntimeKeys,
         document' = BagAdd(document, s), http' = http
  PROVE  Identities' /\ Summed'
<1>1. \A field \in Fields : s.name # field
  BY KeysAre
<1>2. \A field \in Fields :
        /\ SamplesOf(field)' = SamplesOf(field) /\ Valid(field)' = Valid(field)
        /\ SeriesOf(field)' = SeriesOf(field)
        /\ SomeSeriesTwice(field)' <=> SomeSeriesTwice(field)
  <2> TAKE field \in Fields
  <2>1. s.name # field
    BY <1>1
  <2>2. /\ SamplesOf(field)' = SamplesOf(field) \cup IF s.name = field THEN {s} ELSE {}
        /\ Valid(field)' = Valid(field) \cup
             IF s.name = field /\ s.series.code # 0 /\ s.value >= 0 THEN {s} ELSE {}
        /\ SeriesOf(field)' = SeriesOf(field) \cup
             IF s.name = field /\ s.series.code # 0 /\ s.value >= 0 THEN {s.series} ELSE {}
        /\ SomeSeriesTwice(field)' <=>
             \/ SomeSeriesTwice(field)
             \/ /\ s.name = field /\ s.series.code # 0 /\ s.value >= 0
                /\ s.series \in SeriesOf(field)
    BY FieldGrows
  <2> QED
    BY ONLY <2>1, <2>2
<1>3. TooManySeries' <=> TooManySeries
  BY <1>2, KeysAre DEF TooManySeries
<1>4. \A key \in HTTPKeys : TotalOf(key)' = TotalOf(key)
  <2> TAKE key \in HTTPKeys
  <2>1. key \notin RuntimeKeys /\ s.name # "counted" /\ s.name # "timed"
    BY <1>1, KeysAre
  <2>2. ~Belongs(key, s)
    BY <2>1 DEF Belongs
  <2>3. TotalOf(key) \in Nat /\ TotalOf(key)' = TotalOf(key) + IF Belongs(key, s) THEN s.value ELSE 0
    BY <2>2, SummandsAreValid, TotalGrows
  <2> QED
    BY <2>2, <2>3
<1>5. Identities'
  BY <1>2, <1>3 DEF Identities
<1>6. \A field \in Fields : \A key \in KeysFor(field) : TotalOf(key)' = TotalOf(key)
  BY <1>4, KeysAre
<1>7. Summed'
  BY <1>6 DEF Summed
<1> QED
  BY <1>5, <1>7

\* And the other way round.
LEMMA RuntimeUntouched ==
  ASSUME DocumentOK, RuntimeIsRead, NEW s, SampleOK(s), s.name \in Fields,
         document' = BagAdd(document, s), runtime' = runtime
  PROVE  RuntimeIsRead'
<1>1. \A key \in RuntimeKeys : s.name # key
  BY KeysAre
<1>2. \A key \in RuntimeKeys : /\ SamplesOf(key)' = SamplesOf(key)
                               /\ Repeated(key)' <=> Repeated(key)
  <2> TAKE key \in RuntimeKeys
  <2>1. s.name # key
    BY <1>1
  <2> QED
    BY <2>1, KeyGrows
<1>3. ASSUME NEW key \in RuntimeKeys, \A t \in SamplesOf(key) : InRange(key, t.value)
      PROVE  TotalOf(key)' = TotalOf(key)
  <2>1. s.name # key
    BY <1>1
  <2>2. TotalOf(key) \in Nat /\ TotalOf(key)' = TotalOf(key) + IF s.name = key THEN s.value ELSE 0
    BY <1>3, <2>1, KeyTotal
  <2> QED
    BY <2>1, <2>2
<1> DEFINE Bad(key) == \E t \in SamplesOf(key) : ~InRange(key, t.value)
           Good(key) == \E t \in SamplesOf(key) : InRange(key, t.value)
<1>4. \A key \in RuntimeKeys : (Bad(key)' <=> Bad(key)) /\ (Good(key)' <=> Good(key))
  BY <1>2
<1>5. \A key \in RuntimeKeys : ~Bad(key) => TotalOf(key)' = TotalOf(key)
  BY <1>3
<1>6. /\ RuntimeIsRead <=> \A key \in RuntimeKeys :
           /\ key \in runtime.saw <=> Good(key)
           /\ key \in runtime.invalid <=>
                Bad(key) \/ IF key = Heap THEN TotalOf(key) > MaxTotal ELSE Repeated(key)
           /\ key \notin runtime.invalid => runtime.value[key] = TotalOf(key)
      /\ RuntimeIsRead' <=> \A key \in RuntimeKeys :
           /\ (key \in runtime'.saw) <=> Good(key)'
           /\ (key \in runtime'.invalid) <=>
                (Bad(key)' \/ IF key = Heap THEN TotalOf(key)' > MaxTotal ELSE Repeated(key)')
           /\ (key \notin runtime'.invalid) => runtime'.value[key] = TotalOf(key)'
  BY DEF RuntimeIsRead
<1> HIDE DEF Bad, Good
<1> QED
  BY <1>2, <1>4, <1>5, <1>6

LEMMA StepSample ==
  ASSUME IInv, ScrapeInvariant, NEW s \in HTTPSamples \cup RuntimeSamples, AcceptSample(s)
  PROVE  IInv' /\ ScrapeInvariant'
<1>1. SampleOK(s) /\ document' = BagAdd(document, s) /\ IInv'
  BY SamplesAreOK, StepIInv DEF AcceptSample
<1>2. /\ DocumentOK /\ http \in HTTPRecords /\ runtime \in RuntimeRecords
      /\ Identities /\ Summed /\ RuntimeIsRead
  BY DEF ScrapeInvariant
<1>3. DocumentOK'
  BY <1>1, <1>2, DocumentGrows
<1>4. CASE s.name \in RuntimeKeys
  <2>1. runtime' = AcceptRuntime(runtime, s.name, s.value) /\ http' = http
    BY <1>4 DEF AcceptSample
  <2>2. runtime' \in RuntimeRecords /\ RuntimeIsRead'
    BY <1>1, <1>2, <1>4, <2>1, RuntimeStep
  <2>3. Identities' /\ Summed'
    BY <1>1, <1>2, <1>4, <2>1, HTTPUntouched
  <2> QED
    BY <1>1, <1>2, <1>3, <2>1, <2>2, <2>3 DEF ScrapeInvariant
<1>5. CASE s.name \notin RuntimeKeys
  <2>1. s.name \in Fields /\ http' = Accept(http, s.name, s) /\ runtime' = runtime
    BY <1>1, <1>5 DEF AcceptSample, SampleOK
  <2>2. http' \in HTTPRecords /\ Identities' /\ Summed'
    BY <1>1, <1>2, <2>1, HTTPStep
  <2>3. RuntimeIsRead'
    BY <1>1, <1>2, <2>1, RuntimeUntouched
  <2> QED
    BY <1>1, <1>2, <1>3, <2>1, <2>2, <2>3 DEF ScrapeInvariant
<1> QED
  BY <1>4, <1>5

\* The end of a scrape forgets the document and the records together.
LEMMA Forgotten == ForgetScrape => ScrapeInvariant'
<1>1. http = NoHTTP /\ runtime = NoRuntime /\ document = NoSamples => ScrapeInvariant
  BY NothingRead
<1>2. (http = NoHTTP /\ runtime = NoRuntime /\ document = NoSamples => ScrapeInvariant)'
  BY <1>1, PTL
<1> QED
  BY <1>2 DEF ForgetScrape, NoHTTP, NoRuntime, NoSamples

\* Nothing outside a scrape touches the document or the records.
LEMMA ScrapeKept == ScrapeInvariant /\ UNCHANGED scrape => ScrapeInvariant'
<1> SUFFICES ASSUME ScrapeInvariant, http' = http, runtime' = runtime, document' = document
             PROVE  ScrapeInvariant'
  BY DEF scrape
<1>1. DocumentOK'
  BY DEF ScrapeInvariant, DocumentOK, SampleOK
<1>2. \A name : SamplesOf(name)' = SamplesOf(name) /\ Valid(name)' = Valid(name)
               /\ SeriesOf(name)' = SeriesOf(name)
  BY DEF SamplesOf, Valid, SeriesOf
<1>3. /\ \A field \in Fields : SomeSeriesTwice(field)' <=> SomeSeriesTwice(field)
      /\ \A key \in RuntimeKeys : Repeated(key)' <=> Repeated(key)
  BY <1>2 DEF SomeSeriesTwice, Repeated
<1>4. \A key : TotalOf(key)' = TotalOf(key)
  BY DEF TotalOf, Summands, SamplesOf, Valid
<1>5. TooManySeries' <=> TooManySeries
  BY <1>2 DEF TooManySeries
<1>6. Identities'
  <2>1. /\ \A field \in Fields : field \in http.invalid <=> Valid(field) # SamplesOf(field)
        /\ http.matchingOverflow <=> TooManySeries
        /\ ~http.matchingOverflow =>
             \A field \in Fields : /\ http[field] = SeriesOf(field)
                                   /\ field \in http.duplicate <=> SomeSeriesTwice(field)
    BY DEF ScrapeInvariant, Identities
  <2>2. \A field \in Fields : (field \in http'.invalid) <=> Valid(field)' # SamplesOf(field)'
    BY <1>2, <2>1
  <2>3. ASSUME ~http'.matchingOverflow, NEW field \in Fields
        PROVE  http'[field] = SeriesOf(field)' /\ ((field \in http'.duplicate) <=> SomeSeriesTwice(field)')
    <3>1. http[field] = SeriesOf(field) /\ (field \in http.duplicate <=> SomeSeriesTwice(field))
      BY <2>1, <2>3
    <3>2. SeriesOf(field)' = SeriesOf(field) /\ (SomeSeriesTwice(field)' <=> SomeSeriesTwice(field))
      BY <1>2, <1>3
    <3> QED
      BY <3>1, <3>2
  <2> QED
    BY <1>5, <2>1, <2>2, <2>3 DEF Identities
<1>7. Summed'
  BY <1>4 DEF ScrapeInvariant, Summed
<1>8. RuntimeIsRead'
  <2> DEFINE Bad(key) == \E t \in SamplesOf(key) : ~InRange(key, t.value)
             Good(key) == \E t \in SamplesOf(key) : InRange(key, t.value)
  <2>1. /\ RuntimeIsRead <=> \A key \in RuntimeKeys :
             /\ key \in runtime.saw <=> Good(key)
             /\ key \in runtime.invalid <=>
                  Bad(key) \/ IF key = Heap THEN TotalOf(key) > MaxTotal ELSE Repeated(key)
             /\ key \notin runtime.invalid => runtime.value[key] = TotalOf(key)
        /\ RuntimeIsRead' <=> \A key \in RuntimeKeys :
             /\ (key \in runtime'.saw) <=> Good(key)'
             /\ (key \in runtime'.invalid) <=>
                  (Bad(key)' \/ IF key = Heap THEN TotalOf(key)' > MaxTotal ELSE Repeated(key)')
             /\ (key \notin runtime'.invalid) => runtime'.value[key] = TotalOf(key)'
    BY DEF RuntimeIsRead
  <2>2. \A key \in RuntimeKeys : (Bad(key)' <=> Bad(key)) /\ (Good(key)' <=> Good(key))
    BY <1>2
  <2>3. \A key \in RuntimeKeys : TotalOf(key)' = TotalOf(key)
    BY <1>4
  <2>4. RuntimeIsRead
    BY DEF ScrapeInvariant
  <2> HIDE DEF Bad, Good
  <2> QED
    BY <1>3, <2>1, <2>2, <2>3, <2>4
<1> QED
  BY <1>1, <1>6, <1>7, <1>8 DEF ScrapeInvariant

LEMMA StepCollector ==
  IInv /\ ScrapeInvariant /\ [CollectorNext]_<<vars, scrape>> => IInv' /\ ScrapeInvariant'
<1> SUFFICES ASSUME IInv, ScrapeInvariant, [CollectorNext]_<<vars, scrape>>
             PROVE  IInv' /\ ScrapeInvariant'
  OBVIOUS
<1>1. ASSUME NEW s \in HTTPSamples \cup RuntimeSamples, AcceptSample(s)
      PROVE  IInv' /\ ScrapeInvariant'
  BY <1>1, StepSample
<1>2. CASE ScrapeEnds \/ ScrapeFails
  <2>1. IInv'
    BY <1>2, StepScrape DEF ScrapeEnds, ScrapeFails
  <2> QED
    BY <1>2, <2>1, Forgotten DEF ScrapeEnds, ScrapeFails
<1>3. CASE Elsewhere
  <2>1. [Next]_vars /\ UNCHANGED scrape
    BY <1>3 DEF Elsewhere, Next
  <2> QED
    BY <2>1, StepIInv, ScrapeKept
<1>4. CASE UNCHANGED <<vars, scrape>>
  BY <1>4, StepIInv, ScrapeKept
<1> QED
  BY <1>1, <1>2, <1>3, <1>4 DEF CollectorNext

\* What is published is what the document means, for any document in any order,
\* and what is omitted is warned of.
THEOREM EvaluationStaysExact == CollectorSpec => []EvaluationIsExact
<1>1. CollectorInit => IInv /\ ScrapeInvariant
  BY InitIInv, NothingRead DEF CollectorInit
<1> QED
  BY <1>1, StepCollector, ScrapeExact, PTL DEF CollectorSpec

\* The whole collector is one of health: what its documents amount to is among
\* what a scrape may end with.  So it inherits MicronautResumes and
\* LossIsReported.
THEOREM CollectorImplementsHealth ==
  ASSUME {"start", "no_start", "failed"} \subseteq Scrapes
  PROVE  CollectorSpec => Spec
<1>1. CollectorInit => Init
  BY DEF CollectorInit
<1>2. [CollectorNext]_<<vars, scrape>> => [Next]_vars
  <2> SUFFICES ASSUME [CollectorNext]_<<vars, scrape>> PROVE [Next]_vars
    OBVIOUS
  <2>1. ASSUME NEW s, AcceptSample(s) PROVE UNCHANGED vars
    BY <2>1 DEF AcceptSample
  <2>2. CASE ScrapeEnds
    <3>1. Outcome \in Scrapes
      BY DEF Outcome
    <3> QED
      BY <2>2, <3>1 DEF ScrapeEnds, Next
  <2>3. CASE ScrapeFails
    BY <2>3 DEF ScrapeFails, Next
  <2>4. CASE Elsewhere
    BY <2>4 DEF Elsewhere, Next
  <2> QED
    BY <2>1, <2>2, <2>3, <2>4 DEF CollectorNext
<1> QED
  BY <1>1, <1>2, PTL DEF CollectorSpec, Spec
=============================================================================
