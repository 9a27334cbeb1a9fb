--------------------------- MODULE CollectorsProofs ---------------------------
(***************************************************************************)
(* Proofs about the collectors: SpringCollector, CaddyCollector and        *)
(* Exposition as MCCollectors puts them side by side, for any statuses,    *)
(* labels, servers, documents, limits and bounds.                          *)
(***************************************************************************)
EXTENDS MCCollectors, SumTheorems, SequenceTheorems, TLAPS

-----------------------------------------------------------------------------
(* The selected source.                                                    *)

\* Actuator is selected, and asked, only on grounds that a scrape has found.
SelectionInvariant ==
  Configured = "auto" =>
    /\ "actuator" \in {selected, result.source} => denied
    /\ pc \in {"http", "statuses"} => selected = "actuator"

LEMMA SelectionStep == SelectionInvariant /\ [Next]_vars => SelectionInvariant'
<1> SUFFICES ASSUME SelectionInvariant, [Next]_vars, Configured = "auto"
             PROVE  /\ "actuator" \in {selected', result'.source} => denied'
                    /\ pc' \in {"http", "statuses"} => selected' = "actuator"
  BY DEF SelectionInvariant
<1>1. /\ "actuator" \in {selected, result.source} => denied
      /\ pc \in {"http", "statuses"} => selected = "actuator"
  BY DEF SelectionInvariant
<1>2. ASSUME NEW source, NEW found, NEW start, Finish(source, found, start)
      PROVE  result'.source = source /\ pc' = "idle"
  BY <1>2 DEF Finish
<1>3. CASE \E s \in Statuses : Serve(s)
  BY <1>1, <1>3 DEF Serve, results
<1>4. CASE Restart
  BY <1>1, <1>4 DEF Restart, results
<1>5. CASE Collect
  BY <1>1, <1>5 DEF Collect, results
<1>6. CASE ScrapePrometheus
  <2>1. PICK exposure \in Exposures :
          /\ \/ \E labelled \in SUBSET Statuses :
                  Select("prometheus") /\ Finish("prometheus", Document(labelled), incarnation)
             \/ /\ selected = "" /\ exposure \in {"incompatible", "absent"}
                /\ Select("actuator") /\ pc' = "http" /\ UNCHANGED results
             \/ Finish(selected, NoSamples, 0) /\ UNCHANGED selected
          /\ denied' = (denied \/ exposure \in {"incompatible", "absent"})
    BY <1>6 DEF ScrapePrometheus, FallsBack
  <2> QED  BY <1>1, <1>2, <2>1 DEF Select, results
<1>7. CASE FetchRequests
  BY <1>1, <1>7 DEF FetchRequests, results
<1>8. CASE FetchStatus
  BY <1>1, <1>8 DEF FetchStatus, results
<1>9. CASE FetchStartTime
  <2>1. result'.source = "actuator" /\ pc' = "idle" /\ pc = "statuses" /\ UNCHANGED <<selected, denied>>
    BY <1>9 DEF FetchStartTime, Finish
  <2> QED  BY <1>1, <2>1
<1>10. CASE Recreate
  BY <1>10 DEF Recreate, NoResult
<1>11. CASE UNCHANGED vars
  BY <1>1, <1>11 DEF vars, results
<1> QED  BY <1>3, <1>4, <1>5, <1>6, <1>7, <1>8, <1>9, <1>10, <1>11 DEF Next

\* However many scrapes fail, automatic selection settles for Actuator only
\* after one found that the application exposes nothing else.
THEOREM NeverDowngrade == Spec => []FailuresNeverDowngrade
<1>1. Init => SelectionInvariant
  <2> SUFFICES ASSUME Init, Configured = "auto"
               PROVE  "actuator" \notin {selected, result.source} /\ pc = "idle"
    BY DEF SelectionInvariant
  <2>1. selected = "" /\ result = NoResult /\ pc = "idle"
    BY DEF Init
  <2> QED  BY <2>1 DEF NoResult
<1>2. SelectionInvariant => FailuresNeverDowngrade
  BY DEF SelectionInvariant, FailuresNeverDowngrade
<1> QED  BY <1>1, <1>2, SelectionStep, PTL DEF Spec
-----------------------------------------------------------------------------
(* The invariant of the totals.                                            *)

Requests == [key : Keys, status : Statuses]
Responses == [ok : BOOLEAN, value : Nat]

\* The statuses whose counts make up a sample.
Over(key) == IF key \in Keys THEN StatusesOf(key) ELSE Statuses
SampleKeys == Keys \cup {"http_requests_total"}

\* Samples are numbers, and what they were taken from is not of the future.
ResultOK(r) ==
  /\ r.from \in Nat /\ r.from <= incarnation
  /\ DOMAIN r.samples \subseteq SampleKeys
  /\ \A key \in DOMAIN r.samples : r.samples[key] \in Nat

Typed ==
  /\ incarnation \in Nat \ {0} /\ begun \in Nat /\ begun <= incarnation
  /\ count \in [Statuses -> Nat]
  /\ DOMAIN samples \subseteq {"http_requests_total"}
  /\ \A key \in DOMAIN samples : samples[key] \in Nat
  /\ listed \in BOOLEAN /\ todo \subseteq Requests
  /\ DOMAIN answers \subseteq Requests
  /\ \A r \in DOMAIN answers : answers[r] \in Responses
  /\ ResultOK(result) /\ ResultOK(previous)

\* There is a session only while statuses are asked for.
SessionIsOpen ==
  pc # "statuses" =>
    samples = NoSamples /\ listed = FALSE /\ todo = {} /\ answers = NoAnswers

\* One status has one answer in a session, and every key that counts the status
\* asks for it.
AnswersAreShared ==
  /\ \A q, r \in DOMAIN answers : q.status = r.status => answers[q] = answers[r]
  /\ \A r \in DOMAIN answers \cup todo :
       /\ r.status \in StatusesOf(r.key)
       /\ \A key \in Keys : r.status \in StatusesOf(key) =>
            [key |-> key, status |-> r.status] \in DOMAIN answers \cup todo

\* No answer of the process that answered first exceeds what it has counted.
AnswersAreCounted ==
  begun = incarnation =>
    /\ \A key \in DOMAIN samples : samples[key] <= Total(Statuses)
    /\ \A r \in DOMAIN answers : answers[r].value <= count[r.status]

\* g is what the running process had counted at some time after the last result
\* and before the session in progress, if any.
CountedBetween(g) ==
  /\ \A s \in Statuses : g[s] <= count[s]
  /\ \A key \in DOMAIN result.samples :
       result.samples[key] <= SumFunctionOnSet(g, Over(key))
  /\ \A key \in DOMAIN samples : SumFunctionOnSet(g, Statuses) <= samples[key]
  /\ listed => \A key \in Keys : \A s \in StatusesOf(key) :
       g[s] # 0 => [key |-> key, status |-> s] \in DOMAIN answers \cup todo
  /\ \A r \in DOMAIN answers : answers[r].ok => g[r.status] <= answers[r].value

ResultIsPast ==
  result.from = incarnation => \E g \in [Statuses -> Nat] : CountedBetween(g)

TotalsInvariant ==
  /\ Typed /\ SessionIsOpen /\ AnswersAreShared /\ AnswersAreCounted /\ ResultIsPast
  /\ TotalsAreConsistent

-----------------------------------------------------------------------------
(* Facts about sums.                                                       *)

LEMMA FiniteStatuses ==
  /\ IsFiniteSet(Statuses)
  /\ \A key \in Keys : StatusesOf(key) \subseteq Statuses /\ IsFiniteSet(StatusesOf(key))
  /\ \A key : Over(key) \subseteq Statuses /\ IsFiniteSet(Over(key))
<1>1. IsFiniteSet(Statuses)
  <2>1. Statuses \in SUBSET Nat /\ \A s \in Statuses : s <= 599
    BY StatusesAssumption
  <2>2. 599 \in Nat
    OBVIOUS
  <2> HIDE DEF IsFiniteSet
  <2> QED
    BY ONLY <2>1, <2>2, FS_BoundedSetOfNaturals
<1>2. \A key \in Keys : StatusesOf(key) \subseteq Statuses
  BY DEF StatusesOf, Keys
<1>3. \A key : Over(key) \subseteq Statuses
  BY <1>2 DEF Over
<1> QED
  BY <1>1, <1>2, <1>3, FS_Subset

\* What was counted does not shrink.
LEMMA CountsGrow ==
  ASSUME NEW f \in [Statuses -> Nat], NEW g \in [Statuses -> Nat],
         \A s \in Statuses : f[s] <= g[s], NEW key
  PROVE  SumFunctionOnSet(f, Over(key)) <= SumFunctionOnSet(g, Over(key))
BY FiniteStatuses, SumMonotone

LEMMA SumOverType ==
  ASSUME NEW f \in [Statuses -> Nat], NEW S \in SUBSET Statuses
  PROVE  SumFunctionOnSet(f, S) \in Nat
BY FiniteStatuses, FS_Subset, SumType

\* What addPrometheusSamples makes of a document is the sum over all statuses:
\* a key is left out unless the statuses that have been seen are labelled.
LEMMA DocumentTotals ==
  ASSUME Typed, NEW labelled \in SUBSET Statuses, NEW key \in DOMAIN Document(labelled)
  PROVE  /\ key \in SampleKeys
         /\ Document(labelled)[key] = SumFunctionOnSet(count, Over(key))
         /\ key \in Keys => Document(labelled)[key] =
                             SumFunctionOnSet(count, StatusesOf(key) \cap labelled)
<1>1. key \in SampleKeys
  BY DEF Document, SampleKeys
<1>2. Document(labelled)[key] =
        SumFunctionOnSet(count, IF key \in Keys THEN StatusesOf(key) \cap labelled ELSE Statuses)
  BY DEF Document, Total
<1>3. CASE key \in Keys
  <2>1. Seen \subseteq labelled
    BY <1>3 DEF Document, Keys
  <2>2. \A s \in StatusesOf(key) \ (StatusesOf(key) \cap labelled) : count[s] = 0
    BY <1>3, <2>1, FiniteStatuses DEF Seen, Typed
  <2>3. \A s \in StatusesOf(key) : count[s] \in Nat
    BY <1>3, FiniteStatuses DEF Typed
  <2>4. SumFunctionOnSet(count, StatusesOf(key)) =
          SumFunctionOnSet(count, StatusesOf(key) \cap labelled)
    BY <1>3, <2>2, <2>3, FiniteStatuses, SumSupport
  <2> QED
    BY <1>1, <1>2, <1>3, <2>4 DEF Over
<1>4. CASE key \notin Keys
  BY <1>1, <1>2, <1>4 DEF Over
<1> QED
  BY <1>3, <1>4

\* The values of the answers, as FetchStartTime sums them.
Values == [r \in DOMAIN answers |-> answers[r].value]

LEMMA AnswersAreFinite ==
  ASSUME Typed, AnswersAreShared, NEW key \in Keys
  PROVE  /\ IsFiniteSet(AnswersFor(key))
         /\ \A r \in AnswersFor(key) :
              /\ r \in DOMAIN answers /\ r.key = key /\ r.status \in StatusesOf(key)
              /\ r = [key |-> key, status |-> r.status]
              /\ Values[r] = answers[r].value /\ Values[r] \in Nat
<1>1. ASSUME NEW r \in AnswersFor(key)
      PROVE  /\ r \in DOMAIN answers /\ r.key = key /\ r.status \in StatusesOf(key)
             /\ r = [key |-> key, status |-> r.status]
             /\ Values[r] = answers[r].value /\ Values[r] \in Nat
  <2>1. r \in DOMAIN answers /\ r.key = key /\ r \in Requests /\ answers[r] \in Responses
    BY DEF AnswersFor, Typed
  <2>2. r.status \in StatusesOf(key)
    BY <2>1 DEF AnswersAreShared
  <2> QED
    BY <2>1, <2>2 DEF Requests, Responses, Values
<1>2. IsFiniteSet(AnswersFor(key))
  <2> DEFINE h == [r \in AnswersFor(key) |-> r.status]
  <2>1. h \in [AnswersFor(key) -> StatusesOf(key)]
    BY <1>1
  <2>2. \A q, r \in AnswersFor(key) : h[q] = h[r] => q = r
    BY <1>1
  <2>3. h \in Injection(AnswersFor(key), StatusesOf(key))
    BY <2>1, <2>2 DEF Injection, IsInjective
  <2> QED
    BY <2>3, FiniteStatuses, FS_Injection
<1> QED
  BY <1>1, <1>2

\* What was answered had been counted.
LEMMA TotalsAreCounted ==
  ASSUME Typed, AnswersAreShared, AnswersAreCounted, begun = incarnation, NEW key \in Keys
  PROVE  SumFunctionOnSet(Values, AnswersFor(key)) <= SumFunctionOnSet(count, StatusesOf(key))
<1> DEFINE h == [r \in AnswersFor(key) |-> r.status]
<1>1. h \in [AnswersFor(key) -> StatusesOf(key)]
  BY AnswersAreFinite
<1>2. \A q, r \in AnswersFor(key) : h[q] = h[r] => q = r
  BY AnswersAreFinite
<1>3. \A s \in StatusesOf(key) : count[s] \in Nat
  BY FiniteStatuses DEF Typed
<1>4. \A r \in AnswersFor(key) : Values[r] \in Nat /\ Values[r] <= count[h[r]]
  BY AnswersAreFinite DEF AnswersAreCounted
<1> HIDE DEF h
<1> QED
  BY <1>1, <1>2, <1>3, <1>4, AnswersAreFinite, FiniteStatuses, SumInjection

\* What had been counted before the session was answered, where every request
\* for the key was.
LEMMA CountedIsAnswered ==
  ASSUME Typed, AnswersAreShared, todo = {}, NEW g \in [Statuses -> Nat], CountedBetween(g),
         NEW key \in CompleteTotals
  PROVE  SumFunctionOnSet(g, StatusesOf(key)) <= SumFunctionOnSet(Values, AnswersFor(key))
<1> DEFINE S == {s \in StatusesOf(key) : g[s] # 0}
           h == [s \in S |-> [key |-> key, status |-> s]]
<1>1. key \in Keys /\ listed /\ \A r \in AnswersFor(key) : answers[r].ok
  BY DEF CompleteTotals
<1>2. IsFiniteSet(S) /\ \A s \in StatusesOf(key) : g[s] \in Nat
  BY <1>1, FiniteStatuses, FS_Subset
<1>3. SumFunctionOnSet(g, StatusesOf(key)) = SumFunctionOnSet(g, S)
  <2>1. \A s \in StatusesOf(key) \ S : g[s] = 0
    OBVIOUS
  <2>2. S \subseteq StatusesOf(key)
    OBVIOUS
  <2> HIDE DEF S
  <2> QED
    BY <1>1, <1>2, <2>1, <2>2, FiniteStatuses, SumSupport
<1>4. ASSUME NEW s \in S PROVE h[s] \in AnswersFor(key)
  BY <1>1 DEF CountedBetween, AnswersFor
<1>5. h \in [S -> AnswersFor(key)]
  BY <1>4
<1>6. \A s, t \in S : h[s] = h[t] => s = t
  OBVIOUS
<1>7. \A s \in S : g[s] \in Nat /\ g[s] <= Values[h[s]]
  <2> SUFFICES ASSUME NEW s \in S PROVE g[s] <= Values[h[s]]
    BY <1>2
  <2>1. h[s] \in AnswersFor(key) /\ h[s].status = s
    BY <1>4
  <2>2. answers[h[s]].ok /\ h[s] \in DOMAIN answers /\ Values[h[s]] = answers[h[s]].value
    BY <1>1, <2>1, AnswersAreFinite
  <2> HIDE DEF h
  <2> QED
    BY <2>1, <2>2 DEF CountedBetween
<1>8. \A r \in AnswersFor(key) : Values[r] \in Nat
  BY <1>1, AnswersAreFinite
<1> HIDE DEF S, h
<1>9. SumFunctionOnSet(g, S) <= SumFunctionOnSet(Values, AnswersFor(key))
  BY <1>1, <1>2, <1>5, <1>6, <1>7, <1>8, AnswersAreFinite, SumInjection
<1> QED
  BY <1>3, <1>9

\* The 404s are among the 4xx: they share the answer.
LEMMA NotFoundIsShared ==
  ASSUME Typed, AnswersAreShared, todo = {}
  PROVE  SumFunctionOnSet(Values, AnswersFor("http_404_total")) <=
           SumFunctionOnSet(Values, AnswersFor("http_4xx_total"))
<1> DEFINE S == AnswersFor("http_404_total")
           R == AnswersFor("http_4xx_total")
           h == [r \in S |-> [key |-> "http_4xx_total", status |-> r.status]]
<1>1. "http_404_total" \in Keys /\ "http_4xx_total" \in Keys
  BY DEF Keys
<1>2. ASSUME NEW r \in S
      PROVE  h[r] \in R /\ Values[r] \in Nat /\ Values[r] <= Values[h[r]]
  <2>1. /\ r \in DOMAIN answers /\ r.status \in StatusesOf("http_404_total")
        /\ Values[r] = answers[r].value /\ Values[r] \in Nat
    BY <1>1, AnswersAreFinite
  <2>2. r.status \in StatusesOf("http_4xx_total")
    BY <2>1 DEF StatusesOf
  <2>3. h[r] \in DOMAIN answers
    BY <1>1, <2>1, <2>2 DEF AnswersAreShared
  <2>4. h[r] \in R /\ h[r].status = r.status
    BY <2>3 DEF AnswersFor
  <2> HIDE DEF h
  <2>5. answers[h[r]] = answers[r]
    BY <2>1, <2>3, <2>4 DEF AnswersAreShared
  <2>6. Values[h[r]] = Values[r]
    BY <2>1, <2>3, <2>5 DEF Values
  <2> QED
    BY <2>1, <2>4, <2>6
<1>3. h \in [S -> R]
  BY <1>2
<1>4. \A q, r \in S : h[q] = h[r] => q = r
  BY <1>1, AnswersAreFinite
<1>5. IsFiniteSet(S) /\ IsFiniteSet(R) /\ \A r \in R : Values[r] \in Nat
  BY <1>1, AnswersAreFinite
<1> HIDE DEF S, R, h
<1>6. SumFunctionOnSet(Values, S) <= SumFunctionOnSet(Values, R)
  BY <1>2, <1>3, <1>4, <1>5, SumInjection
<1> QED
  BY <1>6 DEF S, R

-----------------------------------------------------------------------------
(* The steps.                                                              *)

\* The application answers one more request.
LEMMA ServeStep ==
  ASSUME TotalsInvariant, NEW s \in Statuses, Serve(s)
  PROVE  TotalsInvariant'
<1>1. /\ Typed /\ SessionIsOpen /\ AnswersAreShared /\ AnswersAreCounted /\ ResultIsPast
      /\ TotalsAreConsistent
  BY DEF TotalsInvariant
<1>2. /\ count' = [count EXCEPT ![s] = @ + 1]
      /\ UNCHANGED <<incarnation, pc, begun, samples, listed, todo, answers, result, previous>>
  BY DEF Serve, session, results
<1>3. /\ count \in [Statuses -> Nat] /\ count' \in [Statuses -> Nat]
      /\ \A t \in Statuses : count[t] <= count'[t]
  BY <1>1, <1>2 DEF Typed
<1>4. Typed'
  BY <1>1, <1>2, <1>3 DEF Typed, ResultOK
<1>5. SessionIsOpen' /\ AnswersAreShared' /\ TotalsAreConsistent'
  BY <1>1, <1>2 DEF SessionIsOpen, AnswersAreShared, TotalsAreConsistent,
                    NotFoundWithinClientErrors, NoPhantomReset
<1>6. AnswersAreCounted'
  <2> SUFFICES ASSUME begun = incarnation
               PROVE  /\ \A key \in DOMAIN samples : samples[key] <= SumFunctionOnSet(count', Statuses)
                      /\ \A r \in DOMAIN answers : answers[r].value <= count'[r.status]
    BY <1>2 DEF AnswersAreCounted, Total
  <2>1. /\ \A key \in DOMAIN samples : samples[key] <= SumFunctionOnSet(count, Statuses)
        /\ \A r \in DOMAIN answers : answers[r].value <= count[r.status]
    BY <1>1 DEF AnswersAreCounted, Total
  <2>2. /\ SumFunctionOnSet(count, Statuses) <= SumFunctionOnSet(count', Statuses)
        /\ SumFunctionOnSet(count, Statuses) \in Nat /\ SumFunctionOnSet(count', Statuses) \in Nat
    BY <1>3, FiniteStatuses, SumMonotone, SumType
  <2>3. \A key \in DOMAIN samples : samples[key] \in Nat
    BY <1>1 DEF Typed
  <2>4. ASSUME NEW r \in DOMAIN answers
        PROVE  r.status \in Statuses /\ answers[r].value \in Nat
    BY <1>1, FiniteStatuses DEF Typed, Requests, Responses
  <2> QED
    BY <1>3, <2>1, <2>2, <2>3, <2>4
<1>7. ResultIsPast'
  <2> SUFFICES ASSUME result.from = incarnation
               PROVE  \E g \in [Statuses -> Nat] : CountedBetween(g)'
    BY <1>2 DEF ResultIsPast
  <2>1. PICK g \in [Statuses -> Nat] : CountedBetween(g)
    BY <1>1 DEF ResultIsPast
  <2>2. \A t \in Statuses : g[t] <= count'[t]
    BY <1>3, <2>1 DEF CountedBetween
  <2>3. CountedBetween(g)'
    BY <1>2, <2>1, <2>2 DEF CountedBetween
  <2> QED
    BY <2>3
<1> QED
  BY <1>4, <1>5, <1>6, <1>7 DEF TotalsInvariant

\* What a process counted is not compared with what another counts.
LEMMA RestartStep == TotalsInvariant /\ Restart => TotalsInvariant'
<1> SUFFICES ASSUME TotalsInvariant, Restart PROVE TotalsInvariant'
  OBVIOUS
<1>1. /\ Typed /\ SessionIsOpen /\ AnswersAreShared /\ TotalsAreConsistent
  BY DEF TotalsInvariant
<1>2. /\ incarnation' = incarnation + 1 /\ count' = [s \in Statuses |-> 0]
      /\ UNCHANGED <<pc, begun, samples, listed, todo, answers, result, previous>>
  BY DEF Restart, session, results
<1>3. /\ incarnation \in Nat /\ begun \in Nat /\ begun <= incarnation
      /\ result.from \in Nat /\ result.from <= incarnation
      /\ previous.from \in Nat /\ previous.from <= incarnation
  BY <1>1 DEF Typed, ResultOK
<1>4. Typed'
  BY <1>1, <1>2, <1>3 DEF Typed, ResultOK
<1>5. SessionIsOpen' /\ AnswersAreShared' /\ NotFoundWithinClientErrors'
  BY <1>1, <1>2 DEF SessionIsOpen, AnswersAreShared, TotalsAreConsistent,
                    NotFoundWithinClientErrors
<1>6. AnswersAreCounted' /\ ResultIsPast' /\ NoPhantomReset'
  BY <1>2, <1>3 DEF AnswersAreCounted, ResultIsPast, NoPhantomReset
<1> QED
  BY <1>4, <1>5, <1>6 DEF TotalsInvariant, TotalsAreConsistent

LEMMA CollectStep == TotalsInvariant /\ Collect => TotalsInvariant'
<1> SUFFICES ASSUME TotalsInvariant, Collect PROVE TotalsInvariant'
  OBVIOUS
<1>1. /\ Typed /\ SessionIsOpen /\ AnswersAreShared /\ ResultIsPast /\ TotalsAreConsistent
  BY DEF TotalsInvariant
<1>2. /\ begun' = incarnation /\ pc = "idle" /\ pc' # "statuses"
      /\ UNCHANGED <<incarnation, count, samples, listed, todo, answers, result, previous>>
  BY DEF Collect, application, results
<1>3. samples = NoSamples /\ answers = NoAnswers
  BY <1>1, <1>2 DEF SessionIsOpen
<1>4. Typed'
  BY <1>1, <1>2 DEF Typed, ResultOK
<1>5. SessionIsOpen' /\ AnswersAreShared' /\ TotalsAreConsistent'
  BY <1>1, <1>2 DEF SessionIsOpen, AnswersAreShared, TotalsAreConsistent,
                    NotFoundWithinClientErrors, NoPhantomReset
<1>6. AnswersAreCounted'
  BY <1>2, <1>3 DEF AnswersAreCounted, NoSamples, NoAnswers
<1>7. ResultIsPast'
  BY <1>1, <1>2 DEF ResultIsPast, CountedBetween
<1> QED
  BY <1>4, <1>5, <1>6, <1>7 DEF TotalsInvariant

\* The end of a collection, whatever it found: a result between what had been
\* counted before the collection and what is counted now becomes the last one.
LEMMA FinishStep ==
  ASSUME TotalsInvariant, UNCHANGED application,
         NEW source, NEW found, NEW start, Finish(source, found, start),
         DOMAIN found \subseteq SampleKeys,
         \A key \in DOMAIN found : found[key] \in Nat,
         begun = incarnation =>
           \A key \in DOMAIN found : found[key] <= SumFunctionOnSet(count, Over(key)),
         \A g \in [Statuses -> Nat] : CountedBetween(g) =>
           \A key \in DOMAIN found : SumFunctionOnSet(g, Over(key)) <= found[key],
         {"http_404_total", "http_4xx_total"} \subseteq DOMAIN found =>
           found["http_404_total"] <= found["http_4xx_total"]
  PROVE  TotalsInvariant'
<1>1. Typed /\ ResultIsPast
  BY DEF TotalsInvariant
<1>2. /\ pc' = "idle" /\ previous' = result
      /\ result'.samples = found /\ result'.from = begun
      /\ begun' = 0 /\ samples' = NoSamples
      /\ listed' = FALSE /\ todo' = {} /\ answers' = NoAnswers
      /\ incarnation' = incarnation /\ count' = count
  BY DEF Finish, application
<1>3. Typed'
  <2>1. ResultOK(result)'
    BY <1>1, <1>2 DEF ResultOK, Typed
  <2>2. ResultOK(previous)'
    BY <1>1, <1>2 DEF ResultOK, Typed
  <2>3. DOMAIN samples' = {} /\ DOMAIN answers' = {}
    BY <1>2 DEF NoSamples, NoAnswers
  <2>4. begun' \in Nat /\ begun' <= incarnation'
    BY <1>1, <1>2 DEF Typed
  <2> QED
    BY <1>1, <1>2, <2>1, <2>2, <2>3, <2>4 DEF Typed
<1>4. SessionIsOpen' /\ AnswersAreShared' /\ AnswersAreCounted'
  BY <1>1, <1>2 DEF SessionIsOpen, AnswersAreShared, AnswersAreCounted, NoSamples, NoAnswers, Typed
<1>5. ResultIsPast'
  <2> SUFFICES ASSUME begun = incarnation
               PROVE  \E g \in [Statuses -> Nat] : CountedBetween(g)'
    BY <1>2 DEF ResultIsPast
  <2>1. count \in [Statuses -> Nat] /\ \A s \in Statuses : count[s] <= count[s]
    BY <1>1 DEF Typed
  <2>2. CountedBetween(count)'
    BY <1>2, <2>1 DEF CountedBetween, NoSamples, NoAnswers
  <2> QED
    BY <1>2, <2>1, <2>2
<1>6. NotFoundWithinClientErrors'
  BY <1>2 DEF NotFoundWithinClientErrors
<1>7. NoPhantomReset'
  <2> SUFFICES ASSUME result.from = incarnation, NEW key \in DOMAIN result.samples \cap DOMAIN found
               PROVE  result.samples[key] <= found[key]
    BY <1>2 DEF NoPhantomReset
  <2>1. PICK g \in [Statuses -> Nat] : CountedBetween(g)
    BY <1>1 DEF ResultIsPast
  <2>2. result.samples[key] <= SumFunctionOnSet(g, Over(key))
    BY <2>1 DEF CountedBetween
  <2>3. SumFunctionOnSet(g, Over(key)) <= found[key]
    BY <2>1
  <2>4. /\ result.samples[key] \in Nat /\ found[key] \in Nat
        /\ SumFunctionOnSet(g, Over(key)) \in Nat
    BY <1>1, <2>1, FiniteStatuses, SumOverType DEF Typed, ResultOK
  <2> QED
    BY <2>2, <2>3, <2>4
<1> QED
  BY <1>3, <1>4, <1>5, <1>6, <1>7 DEF TotalsInvariant, TotalsAreConsistent

\* A collection that found nothing.
LEMMA NothingFound ==
  ASSUME TotalsInvariant, UNCHANGED application,
         NEW source, NEW start, Finish(source, NoSamples, start)
  PROVE  TotalsInvariant'
<1>1. DOMAIN NoSamples = {}
  BY DEF NoSamples
<1> QED
  BY <1>1, FinishStep

\* One document is taken at one moment.
LEMMA DocumentFound ==
  ASSUME TotalsInvariant, UNCHANGED application,
         NEW labelled \in SUBSET Statuses, NEW start,
         Finish("prometheus", Document(labelled), start)
  PROVE  TotalsInvariant'
<1>1. Typed /\ count \in [Statuses -> Nat]
  BY DEF TotalsInvariant, Typed
<1>2. ASSUME NEW key \in DOMAIN Document(labelled)
      PROVE  /\ key \in SampleKeys
             /\ Document(labelled)[key] = SumFunctionOnSet(count, Over(key))
             /\ Document(labelled)[key] \in Nat
  <2>1. key \in SampleKeys /\ Document(labelled)[key] = SumFunctionOnSet(count, Over(key))
    BY <1>1, DocumentTotals
  <2>2. Over(key) \in SUBSET Statuses
    BY FiniteStatuses
  <2>3. SumFunctionOnSet(count, Over(key)) \in Nat
    BY <1>1, <2>2, SumOverType
  <2> QED
    BY <2>1, <2>3
<1>3. ASSUME NEW g \in [Statuses -> Nat], CountedBetween(g), NEW key \in DOMAIN Document(labelled)
      PROVE  SumFunctionOnSet(g, Over(key)) <= Document(labelled)[key]
  <2>1. \A s \in Statuses : g[s] <= count[s]
    BY <1>3 DEF CountedBetween
  <2> QED
    BY <1>1, <1>2, <2>1, CountsGrow
<1>4. ASSUME {"http_404_total", "http_4xx_total"} \subseteq DOMAIN Document(labelled)
      PROVE  Document(labelled)["http_404_total"] <= Document(labelled)["http_4xx_total"]
  <2> DEFINE S == StatusesOf("http_404_total") \cap labelled
             R == StatusesOf("http_4xx_total") \cap labelled
  <2>1. "http_404_total" \in Keys /\ "http_4xx_total" \in Keys
    BY DEF Keys
  <2>2. S \subseteq R
    BY DEF StatusesOf
  <2>3. IsFiniteSet(R) /\ \A s \in R : count[s] \in Nat
    BY <1>1, <2>1, FiniteStatuses, FS_Subset
  <2>4. SumFunctionOnSet(count, S) <= SumFunctionOnSet(count, R)
    <3> HIDE DEF S, R
    <3> QED
      BY <2>2, <2>3, SumSubset
  <2> QED
    BY <1>1, <1>4, <2>1, <2>4, DocumentTotals
<1>5. \A key \in DOMAIN Document(labelled) :
        Document(labelled)[key] <= SumFunctionOnSet(count, Over(key))
  BY <1>2
<1> QED
  BY <1>2, <1>3, <1>4, <1>5, FinishStep

LEMMA ScrapeStep == TotalsInvariant /\ ScrapePrometheus => TotalsInvariant'
<1> SUFFICES ASSUME TotalsInvariant, ScrapePrometheus PROVE TotalsInvariant'
  OBVIOUS
<1>1. UNCHANGED application
  BY DEF ScrapePrometheus
<1>2. CASE \E labelled \in SUBSET Statuses :
             Finish("prometheus", Document(labelled), incarnation)
  BY <1>1, <1>2, DocumentFound
<1>3. CASE Finish(selected, NoSamples, 0)
  BY <1>1, <1>3, NothingFound
<1>4. CASE pc = "prometheus" /\ pc' = "http" /\ UNCHANGED <<session, results>>
  <2>1. /\ Typed /\ SessionIsOpen /\ AnswersAreShared /\ AnswersAreCounted /\ ResultIsPast
        /\ TotalsAreConsistent
    BY DEF TotalsInvariant
  <2>2. /\ pc # "statuses" /\ pc' # "statuses"
        /\ UNCHANGED <<incarnation, count, begun, samples, listed, todo, answers, result, previous>>
    BY <1>1, <1>4 DEF application, session, results
  <2> QED
    BY <2>1, <2>2 DEF TotalsInvariant, Typed, ResultOK, SessionIsOpen, AnswersAreShared,
      AnswersAreCounted, Total, ResultIsPast, CountedBetween, TotalsAreConsistent,
      NotFoundWithinClientErrors, NoPhantomReset
<1> QED
  BY <1>2, <1>3, <1>4 DEF ScrapePrometheus

\* The sum over all statuses, and the requests for each of the statuses that
\* have been counted.
LEMMA FetchRequestsStep == TotalsInvariant /\ FetchRequests => TotalsInvariant'
<1> SUFFICES ASSUME TotalsInvariant, FetchRequests PROVE TotalsInvariant'
  OBVIOUS
<1>1. /\ Typed /\ SessionIsOpen /\ AnswersAreShared /\ AnswersAreCounted /\ ResultIsPast
      /\ TotalsAreConsistent
  BY DEF TotalsInvariant
<1>2. /\ pc = "http" /\ pc' = "statuses"
      /\ UNCHANGED <<incarnation, count, begun, answers, result, previous>>
  BY DEF FetchRequests, application, results
<1>3. samples = NoSamples /\ listed = FALSE /\ todo = {} /\ answers = NoAnswers
  BY <1>1, <1>2 DEF SessionIsOpen
<1>4. CASE UNCHANGED <<samples, listed, todo>>
  BY <1>1, <1>2, <1>3, <1>4 DEF TotalsInvariant, Typed, ResultOK, SessionIsOpen, AnswersAreShared,
    AnswersAreCounted, Total, ResultIsPast, CountedBetween, TotalsAreConsistent,
    NotFoundWithinClientErrors, NoPhantomReset
<1>5. ASSUME NEW counted \in BOOLEAN, NEW tagged \in BOOLEAN,
             samples' = [key \in IF counted THEN {"http_requests_total"} ELSE {} |-> Total(Statuses)],
             listed' = tagged,
             todo' = {r \in [key : Keys, status : IF tagged THEN Seen ELSE {}] :
                        r.status \in StatusesOf(r.key)}
      PROVE  TotalsInvariant'
  <2>1. /\ Total(Statuses) \in Nat /\ Total(Statuses) = SumFunctionOnSet(count, Statuses)
        /\ Total(Statuses)' = Total(Statuses)
    BY <1>1, <1>2, SumOverType DEF Typed, Total
  <2>2. /\ DOMAIN samples' \subseteq {"http_requests_total"}
        /\ \A key \in DOMAIN samples' : samples'[key] = Total(Statuses)
    BY <1>5
  <2>3. DOMAIN answers' = {}
    BY <1>2, <1>3 DEF NoAnswers
  <2>4. Typed'
    <3>1. todo' \subseteq Requests
      BY <1>5 DEF Requests, Seen
    <3> QED
      BY <1>1, <1>2, <1>5, <2>1, <2>2, <2>3, <3>1 DEF Typed, ResultOK
  <2>5. AnswersAreShared'
    <3> SUFFICES ASSUME NEW r \in todo'
                 PROVE  /\ r.status \in StatusesOf(r.key)
                        /\ \A key \in Keys : r.status \in StatusesOf(key) =>
                             [key |-> key, status |-> r.status] \in todo'
      BY <2>3 DEF AnswersAreShared
    <3> QED
      BY <1>5
  <2>6. AnswersAreCounted'
    BY <2>1, <2>2, <2>3 DEF AnswersAreCounted
  <2>7. ResultIsPast'
    <3> SUFFICES ASSUME result.from = incarnation
                 PROVE  \E g \in [Statuses -> Nat] : CountedBetween(g)'
      BY <1>2 DEF ResultIsPast
    <3>1. PICK g \in [Statuses -> Nat] : CountedBetween(g)
      BY <1>1 DEF ResultIsPast
    <3>2. \A s \in Statuses : g[s] <= count[s]
      BY <3>1 DEF CountedBetween
    <3>3. SumFunctionOnSet(g, Statuses) <= Total(Statuses)
      BY <1>1, <2>1, <3>2, FiniteStatuses, SumMonotone DEF Typed
    <3>4. ASSUME listed', NEW key \in Keys, NEW s \in StatusesOf(key), g[s] # 0
          PROVE  [key |-> key, status |-> s] \in todo'
      <4>1. s \in Statuses
        BY FiniteStatuses
      <4>2. s \in Seen
        BY <1>1, <3>2, <3>4, <4>1 DEF Typed, Seen
      <4> QED
        BY <1>5, <3>4, <4>2
    <3>5. CountedBetween(g)'
      BY <1>2, <2>2, <2>3, <3>1, <3>3, <3>4 DEF CountedBetween
    <3> QED
      BY <3>5
  <2>8. SessionIsOpen' /\ TotalsAreConsistent'
    BY <1>1, <1>2 DEF SessionIsOpen, TotalsAreConsistent, NotFoundWithinClientErrors, NoPhantomReset
  <2> QED
    BY <2>4, <2>5, <2>6, <2>7, <2>8 DEF TotalsInvariant
<1> QED
  BY <1>4, <1>5 DEF FetchRequests

\* One status is asked for, or its answer taken from the session.
LEMMA FetchStatusStep == TotalsInvariant /\ FetchStatus => TotalsInvariant'
<1> SUFFICES ASSUME TotalsInvariant, FetchStatus PROVE TotalsInvariant'
  OBVIOUS
<1>1. /\ Typed /\ SessionIsOpen /\ AnswersAreShared /\ AnswersAreCounted /\ ResultIsPast
      /\ TotalsAreConsistent
  BY DEF TotalsInvariant
<1>2. /\ pc = "statuses" /\ pc' = "statuses"
      /\ UNCHANGED <<incarnation, count, begun, samples, listed, result, previous>>
  BY DEF FetchStatus, application, results
<1>3. PICK r \in todo :
        /\ \E a \in IF Cached(r.status) # {} THEN Cached(r.status)
                    ELSE (IF count[r.status] > 0 THEN {Answer(count[r.status])} ELSE {Failed})
                         \cup (IF Failures THEN {Failed} ELSE {}) :
             answers' = [q \in DOMAIN answers \cup {r} |-> IF q = r THEN a ELSE answers[q]]
        /\ todo' = todo \ {r}
  BY DEF FetchStatus
<1>4. PICK a : /\ \/ a \in Cached(r.status)
                  \/ Cached(r.status) = {} /\ a \in {Answer(count[r.status]), Failed}
               /\ answers' = [q \in DOMAIN answers \cup {r} |-> IF q = r THEN a ELSE answers[q]]
  BY <1>3
<1>5. /\ r \in Requests /\ r.status \in StatusesOf(r.key) /\ r.key \in Keys
      /\ r.status \in Statuses /\ count[r.status] \in Nat
  <2>1. r \in Requests /\ r.status \in StatusesOf(r.key)
    BY <1>1 DEF Typed, AnswersAreShared
  <2>2. r.key \in Keys
    BY <2>1 DEF Requests
  <2> QED
    BY <1>1, <2>1, <2>2, FiniteStatuses DEF Typed
<1>6. ASSUME NEW q \in DOMAIN answers, q.status = r.status
      PROVE  answers[q] = a
  <2>1. answers[q] \in Cached(r.status)
    BY <1>6 DEF Cached
  <2>2. PICK p \in DOMAIN answers : p.status = r.status /\ a = answers[p]
    BY <1>4, <2>1 DEF Cached
  <2> QED
    BY <1>1, <1>6, <2>2 DEF AnswersAreShared
<1>7. \/ \E p \in DOMAIN answers : p.status = r.status /\ a = answers[p]
      \/ a = Answer(count[r.status]) \/ a = Failed
  BY <1>4 DEF Cached
<1>8. a \in Responses
  <2>1. \A p \in DOMAIN answers : answers[p] \in Responses
    BY <1>1 DEF Typed
  <2>2. Answer(count[r.status]) \in Responses /\ Failed \in Responses
    BY <1>5 DEF Responses, Answer, Failed
  <2> QED
    BY <1>7, <2>1, <2>2
<1>9. DOMAIN answers' = DOMAIN answers \cup {r}
      /\ DOMAIN answers' \cup todo' = DOMAIN answers \cup todo
  BY <1>3, <1>4
<1>10. \A q \in DOMAIN answers' :
         \/ q.status = r.status /\ answers'[q] = a
         \/ q.status # r.status /\ q \in DOMAIN answers /\ answers'[q] = answers[q]
  BY <1>4, <1>6
<1>11. Typed'
  <2>1. todo' \subseteq Requests /\ DOMAIN answers' \subseteq Requests
    BY <1>1, <1>3, <1>5, <1>9 DEF Typed
  <2>2. \A q \in DOMAIN answers' : answers'[q] \in Responses
    BY <1>1, <1>8, <1>10 DEF Typed
  <2> QED
    BY <1>1, <1>2, <2>1, <2>2 DEF Typed, ResultOK
<1>12. AnswersAreShared'
  <2>1. \A p, q \in DOMAIN answers' : p.status = q.status => answers'[p] = answers'[q]
    BY <1>1, <1>10 DEF AnswersAreShared
  <2>2. ASSUME NEW q \in DOMAIN answers' \cup todo'
        PROVE  /\ q.status \in StatusesOf(q.key)
               /\ \A key \in Keys : q.status \in StatusesOf(key) =>
                    [key |-> key, status |-> q.status] \in DOMAIN answers' \cup todo'
    BY <1>1, <1>9 DEF AnswersAreShared
  <2> QED
    BY <2>1, <2>2 DEF AnswersAreShared
<1>13. AnswersAreCounted'
  <2> SUFFICES ASSUME begun = incarnation
               PROVE  \A q \in DOMAIN answers' : answers'[q].value <= count[q.status]
    BY <1>1, <1>2 DEF AnswersAreCounted, Total
  <2>1. \A q \in DOMAIN answers : answers[q].value <= count[q.status]
    BY <1>1 DEF AnswersAreCounted
  <2>2. a.value <= count[r.status]
    BY <1>5, <1>7, <2>1 DEF Answer, Failed
  <2> QED
    BY <1>10, <2>1, <2>2
<1>14. ResultIsPast'
  <2> SUFFICES ASSUME result.from = incarnation
               PROVE  \E g \in [Statuses -> Nat] : CountedBetween(g)'
    BY <1>2 DEF ResultIsPast
  <2>1. PICK g \in [Statuses -> Nat] : CountedBetween(g)
    BY <1>1 DEF ResultIsPast
  <2>2. /\ \A s \in Statuses : g[s] <= count[s]
        /\ \A q \in DOMAIN answers : answers[q].ok => g[q.status] <= answers[q].value
    BY <2>1 DEF CountedBetween
  <2>3. a.ok => g[r.status] <= a.value
    BY <1>5, <1>7, <2>2 DEF Answer, Failed
  <2>4. \A q \in DOMAIN answers' : answers'[q].ok => g[q.status] <= answers'[q].value
    BY <1>10, <2>2, <2>3
  <2>5. CountedBetween(g)'
    BY <1>2, <1>9, <2>1, <2>4 DEF CountedBetween
  <2> QED
    BY <2>5
<1>15. SessionIsOpen' /\ TotalsAreConsistent'
  BY <1>1, <1>2 DEF SessionIsOpen, TotalsAreConsistent, NotFoundWithinClientErrors, NoPhantomReset
<1> QED
  BY <1>11, <1>12, <1>13, <1>14, <1>15 DEF TotalsInvariant

\* The end of a session: what it publishes of many requests lies between what
\* had been counted before them and what has been counted after.
LEMMA FetchStartTimeStep == TotalsInvariant /\ FetchStartTime => TotalsInvariant'
<1> SUFFICES ASSUME TotalsInvariant, FetchStartTime PROVE TotalsInvariant'
  OBVIOUS
<1> DEFINE found == [key \in DOMAIN samples \cup CompleteTotals |->
                       IF key \in Keys
                       THEN SumFunctionOnSet(Values, AnswersFor(key))
                       ELSE samples[key]]
<1>1. Typed /\ AnswersAreShared /\ AnswersAreCounted
  BY DEF TotalsInvariant
<1>2. todo = {} /\ UNCHANGED application /\ \E start : Finish("actuator", found, start)
  BY DEF FetchStartTime, Values
<1>3. DOMAIN found = DOMAIN samples \cup CompleteTotals
  OBVIOUS
<1>4. ASSUME NEW key \in DOMAIN found, key \in Keys
      PROVE  /\ key \in CompleteTotals
             /\ found[key] = SumFunctionOnSet(Values, AnswersFor(key)) /\ found[key] \in Nat
  <2>1. key # "http_requests_total"
    BY <1>4 DEF Keys
  <2>2. key \in CompleteTotals
    BY <1>1, <2>1 DEF Typed
  <2>3. SumFunctionOnSet(Values, AnswersFor(key)) \in Nat
    BY <1>1, <1>4, AnswersAreFinite, SumType
  <2> QED
    BY <1>4, <2>2, <2>3
<1>5. ASSUME NEW key \in DOMAIN found, key \notin Keys
      PROVE  /\ key = "http_requests_total" /\ key \in DOMAIN samples
             /\ found[key] = samples[key] /\ found[key] \in Nat /\ Over(key) = Statuses
  BY <1>1, <1>5 DEF Typed, CompleteTotals, Over
<1>6. \A key \in DOMAIN found : found[key] \in Nat
  BY <1>4, <1>5
<1>7. DOMAIN found \subseteq SampleKeys
  BY <1>5 DEF SampleKeys
<1>8. ASSUME begun = incarnation, NEW key \in DOMAIN found
      PROVE  found[key] <= SumFunctionOnSet(count, Over(key))
  <2>1. CASE key \in Keys
    BY <1>1, <1>4, <1>8, <2>1, TotalsAreCounted DEF Over
  <2>2. CASE key \notin Keys
    BY <1>1, <1>5, <1>8, <2>2 DEF AnswersAreCounted, Total
  <2> QED
    BY <2>1, <2>2
<1>9. ASSUME NEW g \in [Statuses -> Nat], CountedBetween(g), NEW key \in DOMAIN found
      PROVE  SumFunctionOnSet(g, Over(key)) <= found[key]
  <2>1. CASE key \in Keys
    BY <1>1, <1>2, <1>4, <1>9, <2>1, CountedIsAnswered DEF Over
  <2>2. CASE key \notin Keys
    BY <1>5, <1>9, <2>2 DEF CountedBetween
  <2> QED
    BY <2>1, <2>2
<1>10. ASSUME {"http_404_total", "http_4xx_total"} \subseteq DOMAIN found
       PROVE  found["http_404_total"] <= found["http_4xx_total"]
  <2>1. "http_404_total" \in Keys /\ "http_4xx_total" \in Keys
    BY DEF Keys
  <2> QED
    BY <1>1, <1>2, <1>4, <1>10, <2>1, NotFoundIsShared
<1> HIDE DEF found
<1> QED
  BY <1>2, <1>6, <1>7, <1>8, <1>9, <1>10, FinishStep

LEMMA RecreateStep == TotalsInvariant /\ Recreate => TotalsInvariant'
<1> SUFFICES ASSUME TotalsInvariant, Recreate PROVE TotalsInvariant'
  OBVIOUS
<1>1. Typed /\ SessionIsOpen /\ AnswersAreShared /\ AnswersAreCounted
  BY DEF TotalsInvariant
<1>2. /\ result' = NoResult /\ previous' = NoResult
      /\ UNCHANGED <<incarnation, count, pc, begun, samples, listed, todo, answers>>
  BY DEF Recreate, application, session
<1>3. NoResult.from = 0 /\ NoResult.ok = FALSE /\ DOMAIN NoResult.samples = {}
  BY DEF NoResult, NoSamples
<1>4. incarnation' \in Nat \ {0}
  BY <1>1, <1>2 DEF Typed
<1>5. Typed'
  BY <1>1, <1>2, <1>3 DEF Typed, ResultOK
<1>6. SessionIsOpen' /\ AnswersAreShared' /\ AnswersAreCounted'
  BY <1>1, <1>2 DEF SessionIsOpen, AnswersAreShared, AnswersAreCounted, Total
<1>7. ResultIsPast' /\ TotalsAreConsistent'
  BY <1>2, <1>3, <1>4 DEF ResultIsPast, TotalsAreConsistent, NotFoundWithinClientErrors, NoPhantomReset
<1> QED
  BY <1>5, <1>6, <1>7 DEF TotalsInvariant

LEMMA TotalsInit == Init => TotalsInvariant
<1> SUFFICES ASSUME Init PROVE TotalsInvariant
  OBVIOUS
<1>1. /\ incarnation = 1 /\ count = [s \in Statuses |-> 0] /\ begun = 0
      /\ samples = NoSamples /\ listed = FALSE /\ todo = {} /\ answers = NoAnswers
      /\ result = NoResult /\ previous = NoResult
  BY DEF Init
<1>2. DOMAIN NoSamples = {} /\ DOMAIN NoAnswers = {}
  BY DEF NoSamples, NoAnswers
<1>3. NoResult.from = 0 /\ NoResult.ok = FALSE /\ NoResult.samples = NoSamples
  BY DEF NoResult
<1>4. Typed
  <2>1. ResultOK(result) /\ ResultOK(previous)
    BY <1>1, <1>2, <1>3 DEF ResultOK
  <2>2. count \in [Statuses -> Nat]
    BY <1>1
  <2>3. DOMAIN samples = {} /\ DOMAIN answers = {}
    BY <1>1, <1>2
  <2>4. incarnation \in Nat \ {0} /\ begun \in Nat /\ begun <= incarnation
    BY <1>1
  <2>5. listed \in BOOLEAN /\ todo \subseteq Requests
    BY <1>1
  <2> QED
    BY <2>1, <2>2, <2>3, <2>4, <2>5 DEF Typed
<1>5. SessionIsOpen /\ AnswersAreShared /\ AnswersAreCounted
  BY <1>1, <1>2 DEF SessionIsOpen, AnswersAreShared, AnswersAreCounted
<1>6. ResultIsPast /\ TotalsAreConsistent
  BY <1>1, <1>2, <1>3 DEF ResultIsPast, TotalsAreConsistent, NotFoundWithinClientErrors, NoPhantomReset
<1> QED
  BY <1>4, <1>5, <1>6 DEF TotalsInvariant

LEMMA TotalsStep == TotalsInvariant /\ [Next]_vars => TotalsInvariant'
<1> SUFFICES ASSUME TotalsInvariant, [Next]_vars PROVE TotalsInvariant'
  OBVIOUS
<1>1. CASE UNCHANGED vars
  BY <1>1 DEF vars, application, session, results, TotalsInvariant, Typed, ResultOK, SessionIsOpen,
    AnswersAreShared, AnswersAreCounted, Total, ResultIsPast, CountedBetween, TotalsAreConsistent,
    NotFoundWithinClientErrors, NoPhantomReset
<1> QED
  BY <1>1, ServeStep, RestartStep, CollectStep, ScrapeStep, FetchRequestsStep, FetchStatusStep,
     FetchStartTimeStep, RecreateStep DEF Next

\* The totals that the collector publishes fit together, in one collection and
\* from one to the next, however many statuses there are and whatever is
\* served, restarted or lost between the requests.
THEOREM TotalsStayConsistent == Spec => []TotalsAreConsistent
<1>1. TotalsInvariant => TotalsAreConsistent
  BY DEF TotalsInvariant
<1> QED
  BY <1>1, TotalsInit, TotalsStep, PTL DEF Spec
-----------------------------------------------------------------------------
(* The tuples of a Caddy host.                                             *)

Rows == [count : Nat, sum : Nat]
LabelOf(t) == [code |-> t.code, method |-> t.method]
TupleAt(s, l) == [server |-> s, code |-> l.code, method |-> l.method]

\* A row of the registry or of a remembered population; there is none before
\* the first request.
Row(f, t) == IF t \in DOMAIN f THEN f[t] ELSE Caddy!Zero

Population(f) ==
  /\ f \in [DOMAIN f -> Rows]
  /\ \A t \in DOMAIN f : LabelOf(t) \in Labels /\ t = TupleAt(t.server, LabelOf(t))

OneServer(f, s) == \A t \in DOMAIN f : t.server = s

LabelsFor(key) == {l \in Labels : l.code \in Caddy!Codes(key)}
PerLabel(f, s, key) == [l \in Labels |-> Caddy!Amount(key, Row(f, TupleAt(s, l)))]

\* The sum CaddyCollector takes is the one SumTheorems is about.
LEMMA CaddySum ==
  ASSUME NEW f, NEW S
  PROVE  Caddy!SumFunctionOnSet(f, S) = SumFunctionOnSet(f, S)
BY Zenon DEF Caddy!SumFunctionOnSet, Caddy!FoldFunctionOnSet, Caddy!MapThenFoldSet,
             SumFunctionOnSet, FoldFunctionOnSet, MapThenFoldSet

LEMMA CaddyTotals ==
  ASSUME NEW f, NEW key \in Caddy!Keys
  PROVE  Caddy!Totals(f)[key] =
           SumFunctionOnSet([t \in DOMAIN f |-> Caddy!Amount(key, f[t])],
                            {t \in DOMAIN f : t.code \in Caddy!Codes(key)})
BY CaddySum DEF Caddy!Totals

LEMMA AmountType ==
  ASSUME NEW key
  PROVE  /\ \A row \in Rows : Caddy!Amount(key, row) \in Nat
         /\ Caddy!Zero \in Rows /\ Caddy!Amount(key, Caddy!Zero) = 0
         /\ \A f, t : Population(f) => Row(f, t) \in Rows
BY DEF Caddy!Amount, Caddy!Zero, Rows, Row, Population

LEMMA LabelFacts ==
  ASSUME NEW s, NEW l \in Labels
  PROVE  /\ LabelOf(TupleAt(s, l)) = l /\ TupleAt(s, l).server = s /\ TupleAt(s, l).code = l.code
         /\ TupleAt(s, l) = TupleAt(TupleAt(s, l).server, LabelOf(TupleAt(s, l)))
BY LabelsAssumption DEF LabelOf, TupleAt

LEMMA FiniteLabels == ASSUME NEW key PROVE IsFiniteSet(LabelsFor(key)) /\ LabelsFor(key) \subseteq Labels
BY LabelsAssumption, FS_Subset DEF LabelsFor

\* While one server has all the tuples, they are added up label by label.
LEMMA TotalsPerLabel ==
  ASSUME NEW f, Population(f), NEW s, OneServer(f, s), NEW key \in Caddy!Keys
  PROVE  Caddy!Totals(f)[key] = SumFunctionOnSet(PerLabel(f, s, key), LabelsFor(key))
<1> DEFINE S == {t \in DOMAIN f : t.code \in Caddy!Codes(key)}
           F == [t \in DOMAIN f |-> Caddy!Amount(key, f[t])]
           G == PerLabel(f, s, key)
           h == [t \in S |-> LabelOf(t)]
<1>1. ASSUME NEW t \in S
      PROVE  /\ t = TupleAt(s, LabelOf(t)) /\ LabelOf(t) \in LabelsFor(key)
             /\ F[t] = G[LabelOf(t)]
  <2>1. t \in DOMAIN f /\ t.code \in Caddy!Codes(key) /\ t = TupleAt(s, LabelOf(t))
        /\ LabelOf(t) \in Labels
    BY DEF Population, OneServer
  <2>2. LabelOf(t).code = t.code
    BY DEF LabelOf
  <2>3. G[LabelOf(t)] = Caddy!Amount(key, Row(f, t))
    BY <2>1 DEF PerLabel
  <2> QED
    BY <2>1, <2>2, <2>3 DEF LabelsFor, Row
<1>2. h \in [S -> LabelsFor(key)] /\ \A t \in S : h[t] = LabelOf(t)
  BY <1>1
<1>3. \A t, u \in S : h[t] = h[u] => t = u
  BY <1>1, <1>2
<1>4. \A l \in LabelsFor(key) : G[l] \in Nat
  BY AmountType, FiniteLabels DEF PerLabel
<1>5. ASSUME NEW l \in LabelsFor(key), G[l] # 0
      PROVE  \E t \in S : l = h[t]
  <2>1. l \in Labels /\ l.code \in Caddy!Codes(key)
    BY DEF LabelsFor
  <2>2. TupleAt(s, l) \in DOMAIN f
    BY <1>5, <2>1, AmountType DEF PerLabel, Row
  <2>3. TupleAt(s, l) \in S /\ LabelOf(TupleAt(s, l)) = l
    BY <2>1, <2>2, LabelFacts
  <2> QED
    BY <1>2, <2>3
<1>6. IsFiniteSet(S)
  <2> HIDE DEF S, h
  <2>1. h \in Injection(S, LabelsFor(key))
    BY <1>2, <1>3 DEF Injection, IsInjective
  <2> QED
    BY <2>1, FiniteLabels, FS_Injection
<1>7. \A t \in S : F[t] = G[h[t]]
  BY <1>1, <1>2
<1>8. SumFunctionOnSet(F, S) = SumFunctionOnSet(G, LabelsFor(key))
  <2> HIDE DEF S, F, G, h
  <2> QED
    BY <1>2, <1>3, <1>4, <1>5, <1>6, <1>7, FiniteLabels, SumBijection
<1> QED
  BY <1>8, CaddyTotals

\* What was served is added up label by label, too.
LEMMA TrafficPerLabel ==
  ASSUME NEW T \in [Labels -> Rows], NEW key \in Caddy!Keys
  PROVE  Caddy!Totals(T)[key] =
           SumFunctionOnSet([l \in Labels |-> Caddy!Amount(key, T[l])], LabelsFor(key))
BY CaddyTotals DEF LabelsFor

-----------------------------------------------------------------------------
(* The invariant of a Caddy host's counters.                               *)

\* T is what had been served when the baseline was collected: no tuple has
\* gained more since than was served of its label.
ServedSince(T) ==
  /\ T \in [Labels -> Rows] /\ deltas.traffic = Caddy!Totals(T)
  /\ \A key \in Caddy!Keys : \A l \in Labels :
       Caddy!Amount(key, T[l]) <= Caddy!Amount(key, traffic[l])
  /\ \A key \in Caddy!Keys : \A t \in DOMAIN exposed :
       Caddy!Amount(key, exposed[t]) + Caddy!Amount(key, T[LabelOf(t)]) <=
         Caddy!Amount(key, Row(baseline, t)) + Caddy!Amount(key, traffic[LabelOf(t)])

\* While Caddy resets nothing, the tuples of the server that routes the host
\* gain just that, and the others nothing.
AllServedSince(T) ==
  deltas.resets = resets =>
    /\ DOMAIN baseline \subseteq DOMAIN exposed
    /\ \A t \in DOMAIN exposed :
         t.server # server => t \in DOMAIN baseline /\ exposed[t] = baseline[t]
    /\ \A key \in Caddy!Keys : \A l \in Labels :
         Caddy!Amount(key, Row(exposed, TupleAt(server, l))) + Caddy!Amount(key, T[l]) =
           Caddy!Amount(key, Row(baseline, TupleAt(server, l))) + Caddy!Amount(key, traffic[l])

\* The remembered population is that of the last collection, if it succeeded.
BaselineIsLast ==
  known => /\ deltas.totals = Caddy!Totals(baseline)
           /\ DOMAIN baseline # {} /\ OneServer(baseline, from)
           /\ deltas.resets \in Nat /\ deltas.resets <= resets
           /\ \E T : ServedSince(T) /\ AllServedSince(T)

CaddyInvariant ==
  /\ Population(exposed) /\ Population(baseline)
  /\ traffic \in [Labels -> Rows] /\ resets \in Nat
  /\ known \in BOOLEAN /\ known = deltas.ok
  /\ BaselineIsLast
  /\ Caddy!DeltasAreServed

\* One request more.
AddedRow(row, duration) == [count |-> row.count + 1, sum |-> row.sum + duration]

LEMMA AmountAdded ==
  ASSUME NEW row \in Rows, NEW duration \in {0, 1}, NEW key
  PROVE  /\ AddedRow(row, duration) \in Rows
         /\ Caddy!Amount(key, AddedRow(row, duration)) =
              Caddy!Amount(key, row) + Caddy!Amount(key, AddedRow(Caddy!Zero, duration))
BY DEF AddedRow, Rows, Caddy!Amount, Caddy!Zero

LEMMA CaddyServeStep ==
  ASSUME CaddyInvariant, NEW l \in Labels, NEW duration \in {0, 1}, Caddy!Serve(l, duration)
  PROVE  CaddyInvariant'
<1> DEFINE t0 == TupleAt(server, l)
           Inc(key) == Caddy!Amount(key, AddedRow(Caddy!Zero, duration))
<1>1. /\ Population(exposed) /\ Population(baseline)
      /\ traffic \in [Labels -> Rows] /\ resets \in Nat
      /\ BaselineIsLast
  BY DEF CaddyInvariant
<1>2. /\ exposed' = [u \in DOMAIN exposed \cup {t0} |->
                      IF u # t0 THEN exposed[u] ELSE AddedRow(Row(exposed, t0), duration)]
      /\ traffic' = [traffic EXCEPT ![l] = AddedRow(@, duration)]
      /\ UNCHANGED <<server, resets, baseline, known, from, deltas, before, good>>
  BY DEF Caddy!Serve, Caddy!Tuple, TupleAt, AddedRow, Row, Caddy!collector
<1>3. LabelOf(t0) = l /\ t0.server = server /\ t0 = TupleAt(t0.server, LabelOf(t0))
  BY LabelFacts
<1>4. \A key : Inc(key) \in Nat
  BY AmountType, AmountAdded
<1>5. ASSUME NEW key
      PROVE  /\ \A m \in Labels : Caddy!Amount(key, traffic'[m]) =
                  Caddy!Amount(key, traffic[m]) + (IF m = l THEN Inc(key) ELSE 0)
             /\ \A u : Caddy!Amount(key, Row(exposed', u)) =
                  Caddy!Amount(key, Row(exposed, u)) + (IF u = t0 THEN Inc(key) ELSE 0)
             /\ \A m \in Labels : Caddy!Amount(key, traffic[m]) \in Nat
             /\ \A u : Caddy!Amount(key, Row(exposed, u)) \in Nat
  <2>1. \A m \in Labels : traffic[m] \in Rows /\ Caddy!Amount(key, traffic[m]) \in Nat
    BY <1>1, AmountType
  <2>2. \A u : Row(exposed, u) \in Rows /\ Caddy!Amount(key, Row(exposed, u)) \in Nat
    BY <1>1, AmountType
  <2>3. \A m \in Labels : traffic'[m] = IF m = l THEN AddedRow(traffic[m], duration) ELSE traffic[m]
    BY <1>1, <1>2
  <2>4. \A u : Row(exposed', u) =
                 IF u = t0 THEN AddedRow(Row(exposed, u), duration) ELSE Row(exposed, u)
    BY <1>2 DEF Row
  <2>5. Caddy!Amount(key, AddedRow(traffic[l], duration)) = Caddy!Amount(key, traffic[l]) + Inc(key)
    BY <2>1, AmountAdded
  <2>6. Caddy!Amount(key, AddedRow(Row(exposed, t0), duration)) =
          Caddy!Amount(key, Row(exposed, t0)) + Inc(key)
    BY <2>2, AmountAdded
  <2> HIDE DEF Inc, t0
  <2> QED
    BY <2>1, <2>2, <2>3, <2>4, <2>5, <2>6
<1>6. Population(exposed')
  <2>1. DOMAIN exposed' = DOMAIN exposed \cup {t0}
    BY <1>2
  <2>2. AddedRow(Row(exposed, t0), duration) \in Rows
    BY <1>1, AmountType, AmountAdded
  <2>3. exposed' \in [DOMAIN exposed' -> Rows]
    BY <1>1, <1>2, <2>2 DEF Population
  <2> HIDE DEF t0
  <2> QED
    BY <1>1, <1>3, <2>1, <2>3 DEF Population
<1>7. traffic' \in [Labels -> Rows]
  <2>1. AddedRow(traffic[l], duration) \in Rows
    BY <1>1, AmountAdded
  <2> QED
    BY <1>1, <1>2, <2>1
<1>8. BaselineIsLast'
  <2> SUFFICES ASSUME known, NEW T, ServedSince(T), AllServedSince(T)
               PROVE  ServedSince(T)' /\ AllServedSince(T)'
    BY <1>1, <1>2 DEF BaselineIsLast
  <2>1. ASSUME NEW key \in Caddy!Keys, NEW u \in DOMAIN exposed'
        PROVE  Caddy!Amount(key, exposed'[u]) + Caddy!Amount(key, T[LabelOf(u)]) <=
                 Caddy!Amount(key, Row(baseline, u)) + Caddy!Amount(key, traffic'[LabelOf(u)])
    <3>1. LabelOf(u) \in Labels
      BY <1>6 DEF Population
    <3>2. exposed'[u] = Row(exposed', u)
      BY DEF Row
    <3>3. /\ Caddy!Amount(key, Row(baseline, u)) \in Nat
          /\ Caddy!Amount(key, T[LabelOf(u)]) \in Nat
          /\ Caddy!Amount(key, T[LabelOf(u)]) <= Caddy!Amount(key, traffic[LabelOf(u)])
      BY <1>1, <3>1, AmountType DEF ServedSince
    <3>4. Caddy!Amount(key, Row(exposed, u)) + Caddy!Amount(key, T[LabelOf(u)]) <=
            Caddy!Amount(key, Row(baseline, u)) + Caddy!Amount(key, traffic[LabelOf(u)])
      <4>1. CASE u \in DOMAIN exposed
        BY <4>1 DEF ServedSince, Row
      <4>2. CASE u \notin DOMAIN exposed
        <5>1. Caddy!Amount(key, Row(exposed, u)) = 0
          BY <4>2, AmountType DEF Row
        <5> QED
          BY <1>5, <3>1, <3>3, <5>1
      <4> QED
        BY <4>1, <4>2
    <3> HIDE DEF t0, Inc
    <3> QED
      BY <1>3, <1>4, <1>5, <3>1, <3>2, <3>3, <3>4
  <2>2. ServedSince(T)'
    <3>1. ASSUME NEW key \in Caddy!Keys, NEW m \in Labels
          PROVE  Caddy!Amount(key, T[m]) <= Caddy!Amount(key, traffic'[m])
      <4>1. Caddy!Amount(key, T[m]) <= Caddy!Amount(key, traffic[m]) /\ Caddy!Amount(key, T[m]) \in Nat
        BY AmountType DEF ServedSince
      <4> HIDE DEF Inc
      <4> QED
        BY <1>4, <1>5, <4>1
    <3> QED
      BY <1>2, <2>1, <3>1 DEF ServedSince
  <2>3. AllServedSince(T)'
    <3> SUFFICES ASSUME deltas.resets = resets
                 PROVE  /\ DOMAIN baseline \subseteq DOMAIN exposed'
                        /\ \A t \in DOMAIN exposed' :
                             t.server # server => t \in DOMAIN baseline /\ exposed'[t] = baseline[t]
                        /\ \A key \in Caddy!Keys : \A m \in Labels :
                             Caddy!Amount(key, Row(exposed', TupleAt(server, m))) + Caddy!Amount(key, T[m]) =
                               Caddy!Amount(key, Row(baseline, TupleAt(server, m))) + Caddy!Amount(key, traffic'[m])
      BY <1>2 DEF AllServedSince
    <3>1. DOMAIN exposed' = DOMAIN exposed \cup {t0}
      BY <1>2
    <3>2. \A t \in DOMAIN exposed' : t.server # server => t \in DOMAIN exposed /\ exposed'[t] = exposed[t]
      BY <1>2, <1>3, <3>1
    <3>3. ASSUME NEW key \in Caddy!Keys, NEW m \in Labels
          PROVE  Caddy!Amount(key, Row(exposed', TupleAt(server, m))) + Caddy!Amount(key, T[m]) =
                   Caddy!Amount(key, Row(baseline, TupleAt(server, m))) + Caddy!Amount(key, traffic'[m])
      <4>1. TupleAt(server, m) = t0 <=> m = l
        BY LabelFacts
      <4>2. /\ Caddy!Amount(key, T[m]) \in Nat
            /\ Caddy!Amount(key, Row(baseline, TupleAt(server, m))) \in Nat
        BY <1>1, AmountType DEF ServedSince
      <4>3. Caddy!Amount(key, Row(exposed, TupleAt(server, m))) + Caddy!Amount(key, T[m]) =
              Caddy!Amount(key, Row(baseline, TupleAt(server, m))) + Caddy!Amount(key, traffic[m])
        BY DEF AllServedSince
      <4> HIDE DEF t0, Inc
      <4> QED
        BY <1>4, <1>5, <4>1, <4>2, <4>3
    <3> HIDE DEF t0
    <3> QED
      BY <3>1, <3>2, <3>3 DEF AllServedSince
  <2> QED
    BY <2>2, <2>3
<1>9. known' \in BOOLEAN /\ known' = deltas'.ok /\ Caddy!DeltasAreServed' /\ Population(baseline)' /\ resets' \in Nat
  BY <1>1, <1>2 DEF CaddyInvariant, Caddy!DeltasAreServed, Caddy!DeltasAreTraffic, Caddy!NewTuplesJoin
<1> QED
  BY <1>6, <1>7, <1>8, <1>9 DEF CaddyInvariant

LEMMA CaddyResetStep == CaddyInvariant /\ Caddy!Reset => CaddyInvariant'
<1> SUFFICES ASSUME CaddyInvariant, Caddy!Reset PROVE CaddyInvariant'
  OBVIOUS
<1>1. /\ Population(exposed) /\ Population(baseline)
      /\ traffic \in [Labels -> Rows] /\ resets \in Nat
      /\ BaselineIsLast
  BY DEF CaddyInvariant
<1>2. PICK lost \in SUBSET DOMAIN exposed : exposed' = [t \in DOMAIN exposed \ lost |-> exposed[t]]
  BY DEF Caddy!Reset
<1>3. /\ resets' = resets + 1
      /\ UNCHANGED <<traffic, baseline, known, from, deltas, before, good>>
  BY DEF Caddy!Reset, Caddy!collector
<1>4. DOMAIN exposed' \subseteq DOMAIN exposed /\ \A t \in DOMAIN exposed' : exposed'[t] = exposed[t]
  BY <1>2
<1>5. Population(exposed')
  BY <1>1, <1>2, <1>4 DEF Population
<1>6. BaselineIsLast'
  <2> SUFFICES ASSUME known, NEW T, ServedSince(T), deltas.resets \in Nat, deltas.resets <= resets
               PROVE  ServedSince(T)' /\ AllServedSince(T)' /\ deltas.resets <= resets'
    BY <1>1, <1>3 DEF BaselineIsLast
  <2>1. deltas.resets <= resets' /\ deltas.resets # resets'
    BY <1>1, <1>3
  <2> QED
    BY <1>3, <1>4, <2>1 DEF ServedSince, AllServedSince
<1>7. known' \in BOOLEAN /\ known' = deltas'.ok /\ Caddy!DeltasAreServed' /\ Population(baseline)'
  BY <1>1, <1>3 DEF CaddyInvariant, Caddy!DeltasAreServed, Caddy!DeltasAreTraffic, Caddy!NewTuplesJoin
<1> QED
  BY <1>1, <1>3, <1>5, <1>6, <1>7 DEF CaddyInvariant

\* A usable population is of one server.
LEMMA UsableFacts ==
  ASSUME Population(exposed), Caddy!Usable
  PROVE  DOMAIN exposed # {} /\ OneServer(exposed, Caddy!ServerOf(exposed))
<1>1. DOMAIN exposed # {}
  <2> SUFFICES ASSUME DOMAIN exposed = {} PROVE exposed = Caddy!NoTuples
    BY DEF Caddy!Usable
  <2> QED
    BY DEF Population, Caddy!NoTuples
<1>2. (CHOOSE t \in DOMAIN exposed : TRUE) \in DOMAIN exposed
  BY <1>1
<1> QED
  BY <1>1, <1>2 DEF Caddy!Usable, Caddy!ServerOf, OneServer

\* The terms of the sums that a collection compares, label by label.
LEMMA TermFacts ==
  ASSUME CaddyInvariant, NEW T, ServedSince(T), NEW s, NEW key \in Caddy!Keys, NEW l \in Labels
  PROVE  /\ Caddy!Amount(key, T[l]) \in Nat /\ Caddy!Amount(key, traffic[l]) \in Nat
         /\ Caddy!Amount(key, T[l]) <= Caddy!Amount(key, traffic[l])
         /\ PerLabel(exposed, s, key)[l] = Caddy!Amount(key, Row(exposed, TupleAt(s, l)))
         /\ PerLabel(baseline, s, key)[l] = Caddy!Amount(key, Row(baseline, TupleAt(s, l)))
         /\ PerLabel(exposed, s, key)[l] \in Nat /\ PerLabel(baseline, s, key)[l] \in Nat
         /\ PerLabel(exposed, s, key)[l] + Caddy!Amount(key, T[l]) <=
              PerLabel(baseline, s, key)[l] + Caddy!Amount(key, traffic[l])
<1>1. /\ Population(exposed) /\ Population(baseline)
      /\ T[l] \in Rows /\ traffic[l] \in Rows
      /\ Caddy!Amount(key, T[l]) <= Caddy!Amount(key, traffic[l])
  BY DEF CaddyInvariant, ServedSince
<1>2. Caddy!Amount(key, T[l]) \in Nat /\ Caddy!Amount(key, traffic[l]) \in Nat
  BY <1>1, AmountType
<1>3. /\ PerLabel(exposed, s, key)[l] = Caddy!Amount(key, Row(exposed, TupleAt(s, l)))
      /\ PerLabel(baseline, s, key)[l] = Caddy!Amount(key, Row(baseline, TupleAt(s, l)))
  BY DEF PerLabel
<1>4. PerLabel(exposed, s, key)[l] \in Nat /\ PerLabel(baseline, s, key)[l] \in Nat
  BY <1>1, <1>3, AmountType
<1>5. CASE TupleAt(s, l) \in DOMAIN exposed
  <2>1. LabelOf(TupleAt(s, l)) = l
    BY LabelFacts
  <2> QED
    BY <1>1, <1>2, <1>3, <1>4, <1>5, <2>1 DEF ServedSince, Row
<1>6. CASE TupleAt(s, l) \notin DOMAIN exposed
  <2>1. PerLabel(exposed, s, key)[l] = 0
    BY <1>3, <1>6, AmountType DEF Row
  <2> QED
    BY <1>1, <1>2, <1>3, <1>4, <2>1
<1> QED
  BY <1>5, <1>6

\* Sums of terms, two by two.
LEMMA SumsOfTwo ==
  ASSUME NEW S, IsFiniteSet(S), NEW a, NEW b, NEW c, NEW d,
         \A x \in S : a[x] \in Nat /\ b[x] \in Nat /\ c[x] \in Nat /\ d[x] \in Nat
  PROVE  /\ SumFunctionOnSet(a, S) \in Nat /\ SumFunctionOnSet(b, S) \in Nat
         /\ SumFunctionOnSet(c, S) \in Nat /\ SumFunctionOnSet(d, S) \in Nat
         /\ (\A x \in S : a[x] + b[x] <= c[x] + d[x]) =>
              SumFunctionOnSet(a, S) + SumFunctionOnSet(b, S) <=
                SumFunctionOnSet(c, S) + SumFunctionOnSet(d, S)
         /\ (\A x \in S : a[x] + b[x] = c[x] + d[x]) =>
              SumFunctionOnSet(a, S) + SumFunctionOnSet(b, S) =
                SumFunctionOnSet(c, S) + SumFunctionOnSet(d, S)
<1> DEFINE ab == [x \in S |-> a[x] + b[x]]
           cd == [x \in S |-> c[x] + d[x]]
<1>1. \A x \in S : ab[x] = a[x] + b[x] /\ cd[x] = c[x] + d[x] /\ ab[x] \in Nat /\ cd[x] \in Nat
  OBVIOUS
<1> HIDE DEF ab, cd
<1>2. /\ SumFunctionOnSet(ab, S) = SumFunctionOnSet(a, S) + SumFunctionOnSet(b, S)
      /\ SumFunctionOnSet(cd, S) = SumFunctionOnSet(c, S) + SumFunctionOnSet(d, S)
  BY <1>1, SumPlus
<1>3. /\ SumFunctionOnSet(a, S) \in Nat /\ SumFunctionOnSet(b, S) \in Nat
      /\ SumFunctionOnSet(c, S) \in Nat /\ SumFunctionOnSet(d, S) \in Nat
  BY SumType
<1>4. (\A x \in S : ab[x] <= cd[x]) => SumFunctionOnSet(ab, S) <= SumFunctionOnSet(cd, S)
  BY <1>1, SumMonotone
<1>5. (\A x \in S : ab[x] = cd[x]) => SumFunctionOnSet(ab, S) = SumFunctionOnSet(cd, S)
  BY <1>1, SumSame
<1> QED
  BY <1>1, <1>2, <1>3, <1>4, <1>5

\* Where tuples neither vanished nor shrank, the difference is of what was
\* served between the two collections.
LEMMA DeltaIsTraffic ==
  ASSUME CaddyInvariant, known, Caddy!Usable, from = Caddy!ServerOf(exposed),
         ~Caddy!TuplesReset, NEW key \in Caddy!Keys
  PROVE  LET delta == Caddy!Totals(exposed)[key] - deltas.totals[key]
         IN  0 <= delta /\ delta <= Caddy!Totals(traffic)[key] - deltas.traffic[key]
<1>1. /\ Population(exposed) /\ Population(baseline)
      /\ OneServer(baseline, from) /\ deltas.totals = Caddy!Totals(baseline)
      /\ traffic \in [Labels -> Rows]
  BY DEF CaddyInvariant, BaselineIsLast
<1>2. PICK T : ServedSince(T)
  BY DEF CaddyInvariant, BaselineIsLast
<1>3. OneServer(exposed, from)
  BY <1>1, UsableFacts
<1> DEFINE L == LabelsFor(key)
           e == PerLabel(exposed, from, key)
           b == PerLabel(baseline, from, key)
           now == [l \in Labels |-> Caddy!Amount(key, traffic[l])]
           then == [l \in Labels |-> Caddy!Amount(key, T[l])]
<1>4. /\ Caddy!Totals(exposed)[key] = SumFunctionOnSet(e, L)
      /\ deltas.totals[key] = SumFunctionOnSet(b, L)
  BY <1>1, <1>3, TotalsPerLabel
<1>5. /\ Caddy!Totals(traffic)[key] = SumFunctionOnSet(now, L)
      /\ deltas.traffic[key] = SumFunctionOnSet(then, L)
  BY <1>1, <1>2, TrafficPerLabel DEF ServedSince
<1>6. ASSUME NEW l \in L
      PROVE  /\ e[l] \in Nat /\ b[l] \in Nat /\ now[l] \in Nat /\ then[l] \in Nat
             /\ e[l] + then[l] <= b[l] + now[l] /\ b[l] <= e[l]
  <2>1. l \in Labels
    BY FiniteLabels
  <2>2. /\ e[l] \in Nat /\ b[l] \in Nat /\ now[l] \in Nat /\ then[l] \in Nat
        /\ e[l] + then[l] <= b[l] + now[l]
        /\ e[l] = Caddy!Amount(key, Row(exposed, TupleAt(from, l)))
        /\ b[l] = Caddy!Amount(key, Row(baseline, TupleAt(from, l)))
    BY <1>2, <2>1, TermFacts
  <2>3. b[l] <= e[l]
    <3>1. CASE TupleAt(from, l) \in DOMAIN baseline
      <4>1. /\ TupleAt(from, l) \in DOMAIN exposed
            /\ ~(exposed[TupleAt(from, l)].count < baseline[TupleAt(from, l)].count)
            /\ ~(exposed[TupleAt(from, l)].sum < baseline[TupleAt(from, l)].sum)
        BY <3>1 DEF Caddy!TuplesReset
      <4>2. exposed[TupleAt(from, l)] \in Rows /\ baseline[TupleAt(from, l)] \in Rows
        BY <1>1, <3>1, <4>1 DEF Population
      <4> HIDE DEF e, b
      <4> QED
        BY <2>2, <3>1, <4>1, <4>2 DEF Row, Caddy!Amount, Rows
    <3>2. CASE TupleAt(from, l) \notin DOMAIN baseline
      <4>1. b[l] = 0
        BY <2>2, <3>2, AmountType DEF Row
      <4> HIDE DEF e, b
      <4> QED
        BY <2>2, <4>1
    <3> QED
      BY <3>1, <3>2
  <2> QED
    BY <2>2, <2>3
<1> HIDE DEF L, e, b, now, then
<1>7. IsFiniteSet(L)
  BY FiniteLabels DEF L
<1>8. /\ SumFunctionOnSet(e, L) \in Nat /\ SumFunctionOnSet(b, L) \in Nat
      /\ SumFunctionOnSet(now, L) \in Nat /\ SumFunctionOnSet(then, L) \in Nat
      /\ SumFunctionOnSet(e, L) + SumFunctionOnSet(then, L) <=
           SumFunctionOnSet(b, L) + SumFunctionOnSet(now, L)
  BY <1>6, <1>7, SumsOfTwo
<1>9. SumFunctionOnSet(b, L) <= SumFunctionOnSet(e, L)
  BY <1>6, <1>7, SumMonotone
<1> QED
  BY <1>4, <1>5, <1>8, <1>9

\* While Caddy has reset nothing, there is nothing to break for, and the
\* difference is all that was served.
LEMMA DeltaIsAllTraffic ==
  ASSUME CaddyInvariant, known, Caddy!Usable, deltas.resets = resets
  PROVE  /\ from = Caddy!ServerOf(exposed) /\ ~Caddy!TuplesReset
         /\ \A key \in Caddy!Keys :
              Caddy!Totals(exposed)[key] - deltas.totals[key] =
                Caddy!Totals(traffic)[key] - deltas.traffic[key]
<1>1. /\ Population(exposed) /\ Population(baseline) /\ DOMAIN baseline # {}
      /\ OneServer(baseline, from) /\ deltas.totals = Caddy!Totals(baseline)
      /\ traffic \in [Labels -> Rows]
  BY DEF CaddyInvariant, BaselineIsLast
<1>2. PICK T : ServedSince(T) /\ AllServedSince(T)
  BY DEF CaddyInvariant, BaselineIsLast
<1>3. /\ DOMAIN baseline \subseteq DOMAIN exposed
      /\ \A t \in DOMAIN exposed :
           t.server # server => t \in DOMAIN baseline /\ exposed[t] = baseline[t]
      /\ \A key \in Caddy!Keys : \A l \in Labels :
           Caddy!Amount(key, Row(exposed, TupleAt(server, l))) + Caddy!Amount(key, T[l]) =
             Caddy!Amount(key, Row(baseline, TupleAt(server, l))) + Caddy!Amount(key, traffic[l])
  BY <1>2 DEF AllServedSince
<1>4. OneServer(exposed, Caddy!ServerOf(exposed))
  BY <1>1, UsableFacts
<1>5. from = Caddy!ServerOf(exposed)
  BY <1>1, <1>3, <1>4 DEF OneServer
<1>6. ASSUME NEW key \in Caddy!Keys, NEW l \in Labels
      PROVE  /\ PerLabel(exposed, from, key)[l] + Caddy!Amount(key, T[l]) =
                  PerLabel(baseline, from, key)[l] + Caddy!Amount(key, traffic[l])
             /\ PerLabel(baseline, from, key)[l] <= PerLabel(exposed, from, key)[l]
  <2>1. /\ Caddy!Amount(key, T[l]) \in Nat /\ Caddy!Amount(key, traffic[l]) \in Nat
        /\ Caddy!Amount(key, T[l]) <= Caddy!Amount(key, traffic[l])
        /\ PerLabel(exposed, from, key)[l] = Caddy!Amount(key, Row(exposed, TupleAt(from, l)))
        /\ PerLabel(baseline, from, key)[l] = Caddy!Amount(key, Row(baseline, TupleAt(from, l)))
        /\ PerLabel(exposed, from, key)[l] \in Nat /\ PerLabel(baseline, from, key)[l] \in Nat
    BY <1>2, TermFacts
  <2>2. Caddy!Amount(key, Row(exposed, TupleAt(server, l))) + Caddy!Amount(key, T[l]) =
          Caddy!Amount(key, Row(baseline, TupleAt(server, l))) + Caddy!Amount(key, traffic[l])
    BY <1>3
  <2>3. CASE from = server
    BY <2>1, <2>2, <2>3
  <2>4. CASE from # server
    <3>1. TupleAt(server, l) \notin DOMAIN exposed /\ TupleAt(server, l) \notin DOMAIN baseline
      BY <1>3, <1>4, <1>5, <2>4, LabelFacts DEF OneServer
    <3>2. Caddy!Amount(key, T[l]) = Caddy!Amount(key, traffic[l])
      BY <2>1, <2>2, <3>1, AmountType DEF Row
    <3>3. Row(exposed, TupleAt(from, l)) = Row(baseline, TupleAt(from, l))
      BY <1>3, <2>4, LabelFacts DEF Row
    <3> QED
      BY <2>1, <3>2, <3>3
  <2> QED
    BY <2>3, <2>4
<1>7. ~Caddy!TuplesReset
  <2> SUFFICES ASSUME NEW t \in DOMAIN baseline
               PROVE  /\ t \in DOMAIN exposed
                      /\ ~(exposed[t].count < baseline[t].count)
                      /\ ~(exposed[t].sum < baseline[t].sum)
    BY DEF Caddy!TuplesReset
  <2>1. t \in DOMAIN exposed /\ exposed[t] \in Rows /\ baseline[t] \in Rows
    BY <1>1, <1>3 DEF Population
  <2>2. LabelOf(t) \in Labels /\ t = TupleAt(from, LabelOf(t))
    BY <1>1 DEF Population, OneServer
  <2>3. Row(exposed, t) = exposed[t] /\ Row(baseline, t) = baseline[t]
    BY <2>1 DEF Row
  <2>4. \A key \in Caddy!Keys : Caddy!Amount(key, baseline[t]) <= Caddy!Amount(key, exposed[t])
    BY <1>6, <2>2, <2>3 DEF PerLabel
  <2>5. /\ Caddy!Amount("http_requests_total", baseline[t]) <=
             Caddy!Amount("http_requests_total", exposed[t])
        /\ Caddy!Amount("http_request_time_total_seconds", baseline[t]) <=
             Caddy!Amount("http_request_time_total_seconds", exposed[t])
    BY <2>4 DEF Caddy!Keys
  <2> QED
    BY <2>1, <2>5 DEF Caddy!Amount, Rows
<1>8. ASSUME NEW key \in Caddy!Keys
      PROVE  Caddy!Totals(exposed)[key] - deltas.totals[key] =
               Caddy!Totals(traffic)[key] - deltas.traffic[key]
  <2> DEFINE L == LabelsFor(key)
             e == PerLabel(exposed, from, key)
             b == PerLabel(baseline, from, key)
             now == [l \in Labels |-> Caddy!Amount(key, traffic[l])]
             then == [l \in Labels |-> Caddy!Amount(key, T[l])]
  <2>1. /\ Caddy!Totals(exposed)[key] = SumFunctionOnSet(e, L)
        /\ deltas.totals[key] = SumFunctionOnSet(b, L)
    BY <1>1, <1>4, <1>5, TotalsPerLabel
  <2>2. /\ Caddy!Totals(traffic)[key] = SumFunctionOnSet(now, L)
        /\ deltas.traffic[key] = SumFunctionOnSet(then, L)
    BY <1>1, <1>2, TrafficPerLabel DEF ServedSince
  <2>3. ASSUME NEW l \in L
        PROVE  /\ e[l] \in Nat /\ b[l] \in Nat /\ now[l] \in Nat /\ then[l] \in Nat
               /\ e[l] + then[l] = b[l] + now[l]
    <3>1. l \in Labels
      BY FiniteLabels
    <3> QED
      BY <1>2, <1>6, <3>1, TermFacts
  <2> HIDE DEF L, e, b, now, then
  <2>4. IsFiniteSet(L)
    BY FiniteLabels DEF L
  <2>5. /\ SumFunctionOnSet(e, L) \in Nat /\ SumFunctionOnSet(b, L) \in Nat
        /\ SumFunctionOnSet(now, L) \in Nat /\ SumFunctionOnSet(then, L) \in Nat
        /\ SumFunctionOnSet(e, L) + SumFunctionOnSet(then, L) =
             SumFunctionOnSet(b, L) + SumFunctionOnSet(now, L)
    BY <2>3, <2>4, SumsOfTwo
  <2> QED
    BY <2>1, <2>2, <2>5
<1> QED
  BY <1>5, <1>7, <1>8

LEMMA CaddySuccessStep ==
  CaddyInvariant /\ UNCHANGED Caddy!caddy /\ Caddy!CollectSucceeds => CaddyInvariant'
<1> SUFFICES ASSUME CaddyInvariant, UNCHANGED Caddy!caddy, Caddy!CollectSucceeds
             PROVE  CaddyInvariant'
  OBVIOUS
<1>1. /\ Population(exposed) /\ traffic \in [Labels -> Rows] /\ resets \in Nat
      /\ known \in BOOLEAN /\ known = deltas.ok
  BY DEF CaddyInvariant
<1>2. /\ deltas'.ok = TRUE
      /\ deltas'.break = (~known \/ from # Caddy!ServerOf(exposed) \/ Caddy!TuplesReset)
      /\ deltas'.totals = Caddy!Totals(exposed) /\ deltas'.traffic = Caddy!Totals(traffic)
      /\ deltas'.resets = resets
      /\ before' = deltas /\ good' = IF deltas.ok THEN deltas ELSE good
      /\ baseline' = exposed /\ known' = TRUE /\ from' = Caddy!ServerOf(exposed)
      /\ UNCHANGED <<server, exposed, traffic, resets>>
      /\ Caddy!Usable
  BY DEF Caddy!CollectSucceeds, Caddy!Publish, Caddy!caddy
<1>3. ServedSince(traffic)' /\ AllServedSince(traffic)'
  <2>1. ASSUME NEW key, NEW l \in Labels
        PROVE  Caddy!Amount(key, traffic[l]) <= Caddy!Amount(key, traffic[l])
    BY <1>1, AmountType
  <2>2. ASSUME NEW key, NEW t \in DOMAIN exposed
        PROVE  /\ Row(exposed, t) = exposed[t]
               /\ Caddy!Amount(key, exposed[t]) + Caddy!Amount(key, traffic[LabelOf(t)]) <=
                    Caddy!Amount(key, exposed[t]) + Caddy!Amount(key, traffic[LabelOf(t)])
    <3>1. Caddy!Amount(key, exposed[t]) \in Nat /\ Caddy!Amount(key, traffic[LabelOf(t)]) \in Nat
      BY <1>1, AmountType DEF Population
    <3> QED
      BY <3>1 DEF Row
  <2>3. ServedSince(traffic)'
    BY <1>1, <1>2, <2>1, <2>2 DEF ServedSince
  <2>4. AllServedSince(traffic)'
    BY <1>2 DEF AllServedSince
  <2> QED
    BY <2>3, <2>4
<1>4. BaselineIsLast'
  <2>1. DOMAIN exposed # {} /\ OneServer(exposed, Caddy!ServerOf(exposed))
    BY <1>1, <1>2, UsableFacts
  <2>2. \E T : ServedSince(T)' /\ AllServedSince(T)'
    BY <1>3
  <2> QED
    BY <1>1, <1>2, <2>1, <2>2 DEF BaselineIsLast
<1>5. Caddy!DeltasAreTraffic'
  <2> SUFFICES ASSUME known, from = Caddy!ServerOf(exposed), ~Caddy!TuplesReset,
                      NEW key \in Caddy!Keys
               PROVE  LET delta == Caddy!Totals(exposed)[key] - deltas.totals[key]
                      IN  0 <= delta /\ delta <= Caddy!Totals(traffic)[key] - deltas.traffic[key]
    BY <1>1, <1>2 DEF Caddy!DeltasAreTraffic
  <2> QED
    BY <1>2, DeltaIsTraffic
<1>6. Caddy!NewTuplesJoin'
  <2> SUFFICES ASSUME known, deltas.resets = resets
               PROVE  /\ from = Caddy!ServerOf(exposed) /\ ~Caddy!TuplesReset
                      /\ \A key \in Caddy!Keys :
                           Caddy!Totals(exposed)[key] - deltas.totals[key] =
                             Caddy!Totals(traffic)[key] - deltas.traffic[key]
    BY <1>1, <1>2 DEF Caddy!NewTuplesJoin
  <2> QED
    BY <1>2, DeltaIsAllTraffic
<1> QED
  BY <1>1, <1>2, <1>4, <1>5, <1>6 DEF CaddyInvariant, Caddy!DeltasAreServed

\* Without a baseline nothing is compared.
LEMMA CaddyForgetStep ==
  CaddyInvariant /\ UNCHANGED Caddy!caddy /\ Caddy!Publish(Caddy!NoResult) /\ Caddy!ForgetBaseline
    => CaddyInvariant'
<1> SUFFICES ASSUME CaddyInvariant, UNCHANGED Caddy!caddy, Caddy!Publish(Caddy!NoResult),
                    Caddy!ForgetBaseline
             PROVE  CaddyInvariant'
  OBVIOUS
<1>1. /\ deltas' = Caddy!NoResult /\ baseline' = Caddy!NoTuples /\ known' = FALSE
      /\ UNCHANGED <<server, exposed, traffic, resets>>
  BY DEF Caddy!Publish, Caddy!ForgetBaseline, Caddy!caddy
<1>2. deltas'.ok = FALSE
  BY <1>1 DEF Caddy!NoResult
<1>3. Population(Caddy!NoTuples)
  BY DEF Population, Caddy!NoTuples
<1>4. Caddy!DeltasAreServed'
  BY <1>2 DEF Caddy!DeltasAreServed, Caddy!DeltasAreTraffic, Caddy!NewTuplesJoin
<1> QED
  BY <1>1, <1>2, <1>3, <1>4 DEF CaddyInvariant, BaselineIsLast

LEMMA CaddyInit == Caddy!Init => CaddyInvariant
<1> SUFFICES ASSUME Caddy!Init PROVE CaddyInvariant
  OBVIOUS
<1>1. /\ exposed = Caddy!NoTuples /\ baseline = Caddy!NoTuples
      /\ traffic = [l \in Labels |-> Caddy!Zero] /\ known = FALSE
      /\ deltas = Caddy!NoResult /\ resets = 0
  BY DEF Caddy!Init
<1>2. deltas.ok = FALSE
  BY <1>1 DEF Caddy!NoResult
<1>3. Population(Caddy!NoTuples)
  BY DEF Population, Caddy!NoTuples
<1>4. traffic \in [Labels -> Rows]
  BY <1>1, AmountType
<1>5. Caddy!DeltasAreServed
  BY <1>2 DEF Caddy!DeltasAreServed, Caddy!DeltasAreTraffic, Caddy!NewTuplesJoin
<1> QED
  BY <1>1, <1>2, <1>3, <1>4, <1>5 DEF CaddyInvariant, BaselineIsLast

LEMMA CaddyStep == CaddyInvariant /\ (Caddy!Next \/ UNCHANGED caddyVars) => CaddyInvariant'
<1> SUFFICES ASSUME CaddyInvariant, Caddy!Next \/ UNCHANGED caddyVars PROVE CaddyInvariant'
  OBVIOUS
<1>1. CASE UNCHANGED caddyVars
  BY <1>1 DEF caddyVars, CaddyInvariant, BaselineIsLast, ServedSince, AllServedSince,
    Caddy!DeltasAreServed, Caddy!DeltasAreTraffic, Caddy!NewTuplesJoin
<1>2. CASE \E l \in Labels, duration \in {0, 1} : Caddy!Serve(l, duration)
  BY <1>2, CaddyServeStep
<1>3. CASE Caddy!Collect
  BY <1>3, CaddySuccessStep, CaddyForgetStep DEF Caddy!Collect, Caddy!CollectFails
<1>4. CASE Caddy!Recreate
  BY <1>4, CaddyForgetStep DEF Caddy!Recreate
<1> QED
  BY <1>1, <1>2, <1>3, <1>4, CaddyResetStep DEF Caddy!Next

\* The sums of a Caddy host are compared neither too often nor too seldom,
\* for any labels and servers: what is charted without a break was served
\* meanwhile, and while Caddy resets nothing all of it is charted.
THEOREM DeltasStayServed == CollectorsSpec => []DeltasAreServed
<1> DEFINE Inv == part = "caddy" => CaddyInvariant
<1>1. CollectorsInit => Inv
  BY CaddyInit DEF CollectorsInit
<1>2. Inv /\ [CollectorsNext]_allVars => Inv'
  <2> SUFFICES ASSUME Inv, [CollectorsNext]_allVars, part' = "caddy"
               PROVE  CaddyInvariant'
    OBVIOUS
  <2>1. part = "caddy" /\ (Caddy!Next \/ UNCHANGED caddyVars)
    BY DEF CollectorsNext, allVars, caddyVars
  <2> QED
    BY <2>1, CaddyStep
<1>3. Inv => DeltasAreServed
  BY DEF CaddyInvariant, DeltasAreServed
<1> QED
  BY <1>1, <1>2, <1>3, PTL DEF CollectorsSpec
-----------------------------------------------------------------------------
(* The lines of an exposition.                                             *)

Lines == response.document
HandedSamples == [line : Nat, whole : BOOLEAN]
Errors == {"", "malformed", "handler", "unsafe"}
Parsers == [handed : Seq(HandedSamples), samples : Nat, eof : BOOLEAN, error : Errors]

\* The parser p has handed over the samples of the first n lines.
HandedOf(p, n) ==
  /\ p \in Parsers
  /\ p.samples = Len(p.handed) /\ p.samples <= MaxSamples
  /\ \A k \in 1..Len(p.handed) : p.handed[k].whole /\ p.handed[k].line \in Scrape!SamplesOf(n)
  /\ \A j, k \in 1..Len(p.handed) : j < k => p.handed[j].line < p.handed[k].line
  /\ \A i \in Scrape!SamplesOf(n) : \E k \in 1..Len(p.handed) : p.handed[k].line = i
  /\ p.eof = (\E j \in 1..n : Lines[j] = "eof")

\* What a limit may be passed by, beside the response's size.
SampleLines == {i \in 1..Len(Lines) : Lines[i] \in {"sample", "broken"}}
TooMuch ==
  \/ \E i \in 1..Len(Lines) : Lines[i] = "wide"
  \/ Cardinality(SampleLines) > MaxSamples

Responded ==
  /\ response.document \in Scrape!Documents
  /\ response \in Scrape!Bodies(response.document)

ReadingWell ==
  /\ Responded
  /\ received \in 0..Scrape!Total
  /\ parser.error = "" /\ HandedOf(parser, received \div 3)

ScrapeInvariant ==
  /\ outcome = "" => IF response = Scrape!NoResponse
                     THEN received = 0 /\ parser = Scrape!NewParser
                     ELSE ReadingWell
  /\ Scrape!ScrapesAreExact

LEMMA ScrapeCardinality ==
  ASSUME NEW S PROVE Scrape!Cardinality(S) = Cardinality(S)
BY Zenon DEF Scrape!Cardinality, Cardinality

LEMMA DocumentType ==
  ASSUME Responded
  PROVE  /\ Lines \in Seq(Scrape!LineKinds) /\ Len(Lines) \in Nat /\ DOMAIN Lines = 1..Len(Lines)
         /\ \A i \in 1..Len(Lines) : Lines[i] \in Scrape!LineKinds
<1>1. PICK n \in 0..MaxLines : Lines \in [1..n -> Scrape!LineKinds]
  BY DEF Responded, Scrape!Documents, Lines
<1>2. n \in Nat
  BY BoundsAssumption
<1> QED
  BY <1>1, <1>2, SeqDef

LEMMA ResponseType ==
  ASSUME Responded
  PROVE  /\ response.format \in {"text", "openmetrics"}
         /\ response.framing \in {"framed", "close", "gzip"}
         /\ response.lf \in BOOLEAN /\ response.packed \in Nat
         /\ Scrape!Total \in Nat
         /\ Scrape!Total = 3 * Len(Lines) \/ Scrape!Total = 3 * Len(Lines) - 1
         /\ Scrape!Total = 3 * Len(Lines) - 1 => Len(Lines) # 0
<1>1. PICK d : /\ d = Lines /\ Len(d) \in Nat
               /\ response \in Scrape!Bodies(d)
  BY DocumentType DEF Responded, Lines
<1>2. /\ response.format \in {"text", "openmetrics"}
      /\ response.framing \in {"framed", "close", "gzip"}
      /\ response.lf \in IF d = <<>> THEN {TRUE} ELSE BOOLEAN
      /\ response.packed \in 0..(3 * Len(d) + 1)
  BY <1>1 DEF Scrape!Bodies
<1>3. response.lf \in BOOLEAN /\ (d = <<>> => response.lf = TRUE)
  BY <1>2
<1>4. Len(d) = 0 => d = <<>>
  BY <1>1, DocumentType, EmptySeq
<1>6. response.packed \in Nat
  BY <1>1, <1>2
<1>5. Scrape!Total = IF response.lf THEN 3 * Len(d) ELSE 3 * Len(d) - 1
  BY <1>1 DEF Scrape!Total, Scrape!Pieces, Lines
<1>7. Len(d) \in Nat /\ Lines = d
  BY <1>1
<1>8. CASE response.lf
  BY <1>2, <1>3, <1>5, <1>6, <1>7, <1>8
<1>9. CASE ~response.lf
  <2>1. Len(d) # 0
    BY <1>3, <1>4, <1>9
  <2> QED
    BY <1>2, <1>3, <1>5, <1>6, <1>7, <1>9, <2>1
<1> QED
  BY <1>8, <1>9

\* A piece is of a line.
LEMMA PieceOfLine ==
  ASSUME Responded, received \in 0..Scrape!Total
  PROVE  LET n == received \div 3
         IN  /\ n \in Nat /\ n <= Len(Lines)
             /\ received = 3 * n + (received % 3) /\ received % 3 \in {0, 1, 2}
             /\ received % 3 # 0 => n + 1 \in 1..Len(Lines)
             /\ received < Scrape!Total => n + 1 \in 1..Len(Lines)
             /\ received = Scrape!Total /\ received % 3 = 0 => n = Len(Lines)
             /\ (received + 1) \div 3 = IF received % 3 = 2 THEN n + 1 ELSE n
             /\ (received + 1) % 3 = 0 <=> received % 3 = 2
<1>1. received \in Nat
  BY ResponseType
<1>2. LET n == received \div 3
      IN  n \in Nat /\ received = 3 * n + (received % 3) /\ received % 3 \in {0, 1, 2}
  BY <1>1
<1>3. /\ Len(Lines) \in Nat /\ Scrape!Total \in Nat /\ received <= Scrape!Total
      /\ Scrape!Total = 3 * Len(Lines) \/ Scrape!Total = 3 * Len(Lines) - 1
  BY DocumentType, ResponseType
<1>4. ASSUME NEW n \in Nat, NEW m \in {0, 1, 2}, received = 3 * n + m
      PROVE  /\ n <= Len(Lines)
             /\ m # 0 => n + 1 \in 1..Len(Lines)
             /\ received < Scrape!Total => n + 1 \in 1..Len(Lines)
             /\ received = Scrape!Total /\ m = 0 => n = Len(Lines)
             /\ (received + 1) \div 3 = IF m = 2 THEN n + 1 ELSE n
             /\ (received + 1) % 3 = 0 <=> m = 2
  BY <1>3, <1>4
<1> HIDE DEF Lines
<1> QED
  BY <1>2, <1>4

LEMMA Counted ==
  ASSUME NEW p \in Parsers
  PROVE  LET counted == [p EXCEPT !.samples = @ + 1]
         IN  /\ counted.handed = p.handed /\ counted.samples = p.samples + 1
             /\ counted.eof = p.eof /\ counted.error = p.error /\ counted \in Parsers
BY DEF Parsers

LEMMA NextInterval == ASSUME NEW n \in Nat PROVE 1..(n + 1) = 1..n \cup {n + 1}
OBVIOUS

LEMMA NextSamples ==
  ASSUME NEW n \in Nat
  PROVE  /\ Scrape!SamplesOf(n) \subseteq 1..n
         /\ Scrape!SamplesOf(n + 1) =
              Scrape!SamplesOf(n) \cup
                IF Lines[n + 1] = "sample" /\ ~\E j \in 1..n : Lines[j] = "eof" THEN {n + 1} ELSE {}
<1>1. \A m : Scrape!SamplesOf(m) =
        {i \in 1..m : Lines[i] = "sample" /\ \A j \in 1..i : Lines[j] # "eof"}
  BY DEF Scrape!SamplesOf, Lines
<1>2. 1..(n + 1) = 1..n \cup {n + 1}
  OBVIOUS
<1>3. Lines[n + 1] = "sample" => Lines[n + 1] # "eof"
  OBVIOUS
<1> HIDE DEF Lines
<1>4. ASSUME NEW i \in 1..(n + 1)
      PROVE  i \in Scrape!SamplesOf(n + 1) <=>
               \/ i \in Scrape!SamplesOf(n)
               \/ i = n + 1 /\ Lines[n + 1] = "sample" /\ ~\E j \in 1..n : Lines[j] = "eof"
  <2>1. CASE i = n + 1
    <3>1. i \notin Scrape!SamplesOf(n)
      BY <1>1, <2>1
    <3>2. (\A j \in 1..i : Lines[j] # "eof") <=>
            Lines[n + 1] # "eof" /\ ~\E j \in 1..n : Lines[j] = "eof"
      BY <1>2, <2>1
    <3> QED
      BY <1>1, <1>3, <2>1, <3>1, <3>2
  <2>2. CASE i \in 1..n
    BY <1>1, <2>2
  <2> QED
    BY <1>2, <2>1, <2>2
<1>5. Scrape!SamplesOf(n) \subseteq 1..n /\ Scrape!SamplesOf(n + 1) \subseteq 1..(n + 1)
  BY <1>1
<1> QED
  BY <1>2, <1>4, <1>5

\* Nothing is a sample after the end marker.
LEMMA NoneAfterEof ==
  ASSUME NEW n \in Nat, NEW m \in Nat, n <= m, \E j \in 1..n : Lines[j] = "eof"
  PROVE  Scrape!SamplesOf(m) = Scrape!SamplesOf(n)
<1>1. \A k : Scrape!SamplesOf(k) =
        {i \in 1..k : Lines[i] = "sample" /\ \A j \in 1..i : Lines[j] # "eof"}
  BY DEF Scrape!SamplesOf, Lines
<1> HIDE DEF Lines
<1>2. PICK e \in 1..n : Lines[e] = "eof"
  OBVIOUS
<1>3. ASSUME NEW i \in Scrape!SamplesOf(m) PROVE i \in Scrape!SamplesOf(n)
  <2>1. i \in 1..m /\ Lines[i] = "sample" /\ \A j \in 1..i : Lines[j] # "eof"
    BY <1>1
  <2>2. i \in 1..n
    BY <1>2, <2>1
  <2> QED
    BY <1>1, <2>1, <2>2
<1>4. ASSUME NEW i \in Scrape!SamplesOf(n) PROVE i \in Scrape!SamplesOf(m)
  <2>1. i \in 1..n /\ Lines[i] = "sample" /\ \A j \in 1..i : Lines[j] # "eof"
    BY <1>1
  <2>2. i \in 1..m
    BY <2>1
  <2> QED
    BY <1>1, <2>1, <2>2
<1> QED
  BY <1>3, <1>4

\* The line numbers that were handed over are distinct, so a sample past the
\* limit makes too many.
LEMMA OneTooMany ==
  ASSUME Responded, NEW p, NEW n \in Nat, HandedOf(p, n), n + 1 \in 1..Len(Lines),
         Lines[n + 1] \in {"sample", "broken"}, p.samples + 1 > MaxSamples
  PROVE  TooMuch
<1> DEFINE m == Len(p.handed) + 1
           h == [k \in 1..m |-> IF k = m THEN n + 1 ELSE p.handed[k].line]
<1>1. Len(p.handed) \in Nat /\ p.samples = Len(p.handed)
  BY DEF HandedOf, Parsers
<1>2. ASSUME NEW k \in 1..m, k # m
      PROVE  k \in 1..Len(p.handed) /\ h[k] = p.handed[k].line /\ h[k] \in 1..n /\ h[k] \in SampleLines
  <2>1. k \in 1..Len(p.handed)
    BY <1>1, <1>2
  <2>2. p.handed[k].line \in Scrape!SamplesOf(n)
    BY <2>1 DEF HandedOf
  <2>3. /\ p.handed[k].line \in 1..n /\ Lines[p.handed[k].line] = "sample"
    BY <2>2 DEF Scrape!SamplesOf, Lines
  <2> QED
    BY <2>1, <2>3, DocumentType DEF SampleLines
<1>3. h[m] = n + 1 /\ n + 1 \in SampleLines
  BY <1>1 DEF SampleLines
<1>4. h \in [1..m -> SampleLines]
  BY <1>2, <1>3
<1>5. ASSUME NEW j \in 1..m, NEW k \in 1..m, j < k PROVE h[j] < h[k]
  <2>1. j # m
    BY <1>1, <1>5
  <2>2. CASE k = m
    <3>1. h[j] \in 1..n /\ h[k] = n + 1
      BY <1>2, <1>3, <2>1, <2>2
    <3> QED
      BY ONLY <3>1, n \in Nat
  <2>3. CASE k # m
    BY <1>2, <1>5, <2>1, <2>3 DEF HandedOf
  <2> QED
    BY <2>2, <2>3
<1>6. \A j, k \in 1..m : h[j] = h[k] => j = k
  <2> SUFFICES ASSUME NEW j \in 1..m, NEW k \in 1..m, j # k PROVE h[j] # h[k]
    OBVIOUS
  <2>1. h[j] \in Nat /\ h[k] \in Nat
    BY <1>4, DocumentType DEF SampleLines
  <2>2. j < k \/ k < j
    BY <1>1
  <2> HIDE DEF h, m
  <2> QED
    BY <1>5, <2>1, <2>2
<1> HIDE DEF h
<1>7. h \in Injection(1..m, SampleLines)
  BY <1>4, <1>6 DEF Injection, IsInjective
<1>8. IsFiniteSet(SampleLines)
  <2>1. SampleLines \in SUBSET Nat /\ Len(Lines) \in Nat /\ \A i \in SampleLines : i <= Len(Lines)
    BY DocumentType DEF SampleLines
  <2> QED
    BY ONLY <2>1, FS_BoundedSetOfNaturals
<1>9. Cardinality(1..m) <= Cardinality(SampleLines) /\ Cardinality(SampleLines) \in Nat
  BY <1>7, <1>8, FS_Injection, FS_CardinalityType
<1>10. Cardinality(1..m) = m
  <2>1. 1 \in Int /\ m \in Int /\ ~(1 > m) /\ m - 1 + 1 = m
    BY <1>1
  <2> QED
    BY ONLY <2>1, FS_Interval
<1> QED
  BY <1>1, <1>9, <1>10, BoundsAssumption DEF TooMuch

\* One sample more.
LEMMA HandOver ==
  ASSUME NEW p, NEW n \in Nat, HandedOf(p, n), p.samples + 1 <= MaxSamples,
         Lines[n + 1] = "sample", ~\E j \in 1..n : Lines[j] = "eof",
         NEW q, q = [[p EXCEPT !.samples = @ + 1] EXCEPT
                       !.handed = Append(@, [line |-> n + 1, whole |-> TRUE])]
  PROVE  HandedOf(q, n + 1) /\ q.error = p.error
<1> DEFINE entry == [line |-> n + 1, whole |-> TRUE]
           last == Len(p.handed) + 1
<1>1. /\ p \in Parsers /\ p.samples = Len(p.handed)
      /\ p.handed \in Seq(HandedSamples) /\ Len(p.handed) \in Nat
      /\ \A k \in 1..Len(p.handed) : p.handed[k].whole /\ p.handed[k].line \in Scrape!SamplesOf(n)
      /\ \A j, k \in 1..Len(p.handed) : j < k => p.handed[j].line < p.handed[k].line
      /\ \A i \in Scrape!SamplesOf(n) : \E k \in 1..Len(p.handed) : p.handed[k].line = i
      /\ p.eof = (\E j \in 1..n : Lines[j] = "eof")
  BY DEF HandedOf, Parsers
<1>2. entry \in HandedSamples /\ entry.line = n + 1 /\ entry.whole = TRUE
  BY ONLY n \in Nat DEF HandedSamples
<1> HIDE DEF entry
<1>3. /\ Append(p.handed, entry) \in Seq(HandedSamples)
      /\ Len(Append(p.handed, entry)) = Len(p.handed) + 1
      /\ \A k \in 1..Len(p.handed) : Append(p.handed, entry)[k] = p.handed[k]
      /\ Append(p.handed, entry)[Len(p.handed) + 1] = entry
  BY ONLY <1>1, <1>2, AppendProperties
<1>4. /\ q.handed = Append(p.handed, entry) /\ q.samples = p.samples + 1
      /\ q.eof = p.eof /\ q.error = p.error /\ q \in Parsers
  <2> DEFINE counted == [p EXCEPT !.samples = @ + 1]
  <2>0. p \in Parsers
    BY <1>1
  <2>1. /\ counted.handed = p.handed /\ counted.samples = p.samples + 1
        /\ counted.eof = p.eof /\ counted.error = p.error /\ counted \in Parsers
    BY ONLY <2>0, Counted
  <2>2. q = [counted EXCEPT !.handed = Append(@, entry)]
    BY DEF entry
  <2> HIDE DEF counted
  <2>3. q = [counted EXCEPT !.handed = Append(p.handed, entry)]
    BY ONLY <2>1, <2>2 DEF Parsers
  <2> QED
    BY ONLY <1>3, <2>1, <2>3 DEF Parsers
<1>5. /\ Scrape!SamplesOf(n) \subseteq 1..n
      /\ Scrape!SamplesOf(n + 1) = Scrape!SamplesOf(n) \cup {n + 1}
  BY NextSamples
<1>6. q.eof = (\E j \in 1..(n + 1) : Lines[j] = "eof")
  <2>1. Lines[n + 1] # "eof" /\ ~\E j \in 1..n : Lines[j] = "eof"
    OBVIOUS
  <2>2. ~\E j \in 1..(n + 1) : Lines[j] = "eof"
    BY ONLY <2>1, NextInterval, n \in Nat
  <2> QED
    BY ONLY <1>1, <1>4, <2>1, <2>2
<1>7. /\ Len(q.handed) = last /\ last \in Nat /\ 1..last = 1..Len(p.handed) \cup {last}
      /\ q.handed[last] = entry /\ \A k \in 1..Len(p.handed) : q.handed[k] = p.handed[k]
  BY ONLY <1>1, <1>3, <1>4, NextInterval
<1>8. \A k \in 1..Len(q.handed) : q.handed[k].whole /\ q.handed[k].line \in Scrape!SamplesOf(n + 1)
  BY ONLY <1>1, <1>2, <1>5, <1>7
<1>9. \A j, k \in 1..Len(q.handed) : j < k => q.handed[j].line < q.handed[k].line
  <2> SUFFICES ASSUME NEW j \in 1..last, NEW k \in 1..last, j < k
               PROVE  q.handed[j].line < q.handed[k].line
    BY <1>7
  <2>1. j \in 1..Len(p.handed)
    BY ONLY <1>1, j \in 1..last, k \in 1..last, j < k DEF last
  <2>2. CASE k = last
    <3>1. q.handed[j].line \in 1..n /\ q.handed[k].line = n + 1
      BY ONLY <1>1, <1>2, <1>5, <1>7, <2>1, <2>2
    <3> QED
      BY ONLY <3>1, n \in Nat
  <2>3. CASE k \in 1..Len(p.handed)
    BY ONLY <1>1, <1>7, <2>1, <2>3, j < k
  <2> QED
    BY <1>7, <2>2, <2>3
<1>10. \A i \in Scrape!SamplesOf(n + 1) : \E k \in 1..Len(q.handed) : q.handed[k].line = i
  <2> SUFFICES ASSUME NEW i \in Scrape!SamplesOf(n + 1)
               PROVE  \E k \in 1..last : q.handed[k].line = i
    BY <1>7
  <2>1. CASE i = n + 1
    BY ONLY <1>2, <1>7, <2>1
  <2>2. CASE i \in Scrape!SamplesOf(n)
    BY ONLY <1>1, <1>7, <2>2
  <2> QED
    BY <1>5, <2>1, <2>2
<1>11. q.samples = Len(q.handed) /\ q.samples <= MaxSamples
  BY <1>1, <1>4, <1>7 DEF last
<1> QED
  BY ONLY <1>4, <1>6, <1>8, <1>9, <1>10, <1>11 DEF HandedOf

\* One line more.
LEMMA LineStep ==
  ASSUME Responded, NEW p, NEW n \in Nat, HandedOf(p, n), p.error = "", n + 1 \in 1..Len(Lines),
         NEW q, q = Scrape!Line(p, Lines[n + 1], [line |-> n + 1, whole |-> TRUE])
  PROVE  /\ q.error = "" => HandedOf(q, n + 1)
         /\ q.error \in {"", "malformed", "handler", "unsafe"}
         /\ q.error = "unsafe" => TooMuch
<1> DEFINE kind == Lines[n + 1]
           entry == [line |-> n + 1, whole |-> TRUE]
           ended == \E j \in 1..n : Lines[j] = "eof"
<1>1. kind \in {"blank", "comment", "eof", "sample", "broken", "wide"}
  BY DocumentType DEF Scrape!LineKinds
<1>2. /\ p \in Parsers /\ p.samples = Len(p.handed) /\ p.samples <= MaxSamples
      /\ p.handed \in Seq(HandedSamples) /\ Len(p.handed) \in Nat
      /\ p.eof = ended /\ p.eof \in BOOLEAN
  BY DEF HandedOf, Parsers
<1>3. 1..(n + 1) = 1..n \cup {n + 1}
  BY ONLY NextInterval, n \in Nat
<1>4. /\ Scrape!SamplesOf(n) \subseteq 1..n
      /\ Scrape!SamplesOf(n + 1) =
           Scrape!SamplesOf(n) \cup IF kind = "sample" /\ ~ended THEN {n + 1} ELSE {}
  BY NextSamples
<1>5. (\E j \in 1..(n + 1) : Lines[j] = "eof") <=> ended \/ kind = "eof"
  BY <1>3
<1>6. /\ p.handed = p.handed
      /\ \A k \in 1..Len(p.handed) : p.handed[k].whole /\ p.handed[k].line \in Scrape!SamplesOf(n)
      /\ \A j, k \in 1..Len(p.handed) : j < k => p.handed[j].line < p.handed[k].line
      /\ \A i \in Scrape!SamplesOf(n) : \E k \in 1..Len(p.handed) : p.handed[k].line = i
  BY DEF HandedOf
<1> HIDE DEF kind, ended
<1>7. CASE q = p /\ (kind # "sample" \/ ended) /\ (kind = "eof" => ended)
  <2>1. Scrape!SamplesOf(n + 1) = Scrape!SamplesOf(n) /\ p.eof = (\E j \in 1..(n + 1) : Lines[j] = "eof")
    BY <1>2, <1>4, <1>5, <1>7
  <2>2. HandedOf(p, n + 1)
    BY <1>2, <1>6, <2>1 DEF HandedOf
  <2> QED
    BY <1>7, <2>2
<1>8. CASE kind = "blank"
  BY <1>1, <1>7, <1>8 DEF Scrape!Line, kind
<1>9. CASE kind # "blank" /\ ended
  <2>1. q = [p EXCEPT !.error = "malformed"]
    BY <1>2, <1>9 DEF Scrape!Line, kind
  <2> QED
    BY <1>2, <2>1 DEF Parsers
<1>10. CASE kind = "comment" /\ ~ended
  BY <1>2, <1>7, <1>10 DEF Scrape!Line, kind
<1>11. CASE kind = "eof" /\ ~ended
  <2>1. q = [p EXCEPT !.eof = TRUE]
    BY <1>2, <1>11 DEF Scrape!Line, kind
  <2>2. q \in Parsers /\ q.handed = p.handed /\ q.samples = p.samples /\ q.eof = TRUE /\ q.error = ""
    BY <1>2, <2>1 DEF Parsers
  <2>3. Scrape!SamplesOf(n + 1) = Scrape!SamplesOf(n) /\ q.eof = (\E j \in 1..(n + 1) : Lines[j] = "eof")
    BY <1>4, <1>5, <1>11, <2>2
  <2>4. HandedOf(q, n + 1)
    BY ONLY <1>2, <1>6, <2>2, <2>3 DEF HandedOf
  <2> QED
    BY <2>2, <2>4
<1>12. CASE kind = "broken" /\ ~ended
  <2>1. q = [p EXCEPT !.error = "malformed"]
    BY <1>2, <1>12 DEF Scrape!Line, kind
  <2> QED
    BY <1>2, <2>1 DEF Parsers
<1>13. CASE kind = "wide" /\ ~ended
  <2>1. q = [p EXCEPT !.error = "unsafe"]
    BY <1>2, <1>13 DEF Scrape!Line, kind
  <2>2. q.error = "unsafe"
    BY <1>2, <2>1 DEF Parsers
  <2> QED
    BY <1>13, <2>2 DEF TooMuch, kind
<1>14. CASE kind = "sample" /\ ~ended
  <2>1. q = Scrape!Sample(p, entry)
    BY <1>2, <1>14 DEF Scrape!Line, kind
  <2>2. CASE p.samples + 1 > MaxSamples
    <3>1. q.error = "unsafe"
      BY <1>2, <2>1, <2>2 DEF Scrape!Sample, Parsers
    <3>2. TooMuch
      BY <1>14, <2>2, OneTooMany DEF kind
    <3> QED
      BY <3>1, <3>2
  <2>3. CASE ~(p.samples + 1 > MaxSamples) /\ p.samples + 1 = response.refused
    <3>1. q.error = "handler"
      BY <1>2, <2>1, <2>3 DEF Scrape!Sample, Parsers
    <3> QED
      BY <3>1
  <2>4. CASE ~(p.samples + 1 > MaxSamples) /\ p.samples + 1 # response.refused
    <3>1. q = [[p EXCEPT !.samples = @ + 1] EXCEPT !.handed = Append(@, entry)]
      BY <1>2, <2>1, <2>4 DEF Scrape!Sample, Parsers
    <3>2. p.samples + 1 <= MaxSamples
      <4>1. MaxSamples \in Nat
        BY BoundsAssumption
      <4> QED
        BY ONLY <1>2, <2>4, <4>1
    <3>3. HandedOf(q, n + 1) /\ q.error = p.error
      BY <1>14, <3>1, <3>2, HandOver DEF kind, ended
    <3> QED
      BY <3>3
  <2> QED
    BY <2>2, <2>3, <2>4
<1> QED
  BY <1>1, <1>8, <1>9, <1>10, <1>11, <1>12, <1>13, <1>14

\* A line that was cut off: what it is taken for is no end marker.
LEMMA PartialStep ==
  ASSUME Responded, NEW p, NEW n \in Nat, HandedOf(p, n), p.error = "", n + 1 \in 1..Len(Lines),
         NEW kind \in Scrape!StartOf(Lines[n + 1]), NEW entry,
         NEW q, q = Scrape!Line(p, kind, entry)
  PROVE  /\ q.error = "" /\ q.eof => q = p
         /\ q.error \in {"", "malformed", "handler", "unsafe"}
         /\ q.error = "unsafe" => TooMuch
<1>1. Lines[n + 1] \in {"blank", "comment", "eof", "sample", "broken", "wide"}
  BY DocumentType DEF Scrape!LineKinds
<1>2. /\ kind \in {"blank", "comment", "sample", "broken", "wide"}
      /\ kind = "sample" => Lines[n + 1] \in {"sample", "broken"}
      /\ kind = "wide" => Lines[n + 1] = "wide"
  BY <1>1 DEF Scrape!StartOf
<1>3. p \in Parsers /\ p.eof \in BOOLEAN /\ p.samples \in Nat
  BY DEF HandedOf, Parsers
<1>4. CASE kind = "blank"
  BY <1>4 DEF Scrape!Line
<1>5. CASE kind # "blank" /\ p.eof
  <2>1. q = [p EXCEPT !.error = "malformed"]
    BY <1>5 DEF Scrape!Line
  <2> QED
    BY <1>3, <2>1 DEF Parsers
<1>6. CASE kind = "comment" /\ ~p.eof
  <2>1. q = p
    BY <1>6 DEF Scrape!Line
  <2> QED
    BY <2>1
<1>7. CASE kind = "broken" /\ ~p.eof
  <2>1. q = [p EXCEPT !.error = "malformed"]
    BY <1>7 DEF Scrape!Line
  <2> QED
    BY <1>3, <2>1 DEF Parsers
<1>8. CASE kind = "wide" /\ ~p.eof
  <2>1. q = [p EXCEPT !.error = "unsafe"]
    BY <1>8 DEF Scrape!Line
  <2>2. q.error = "unsafe" /\ TooMuch
    BY <1>2, <1>3, <1>8, <2>1 DEF Parsers, TooMuch
  <2> QED
    BY <2>2
<1>9. CASE kind = "sample" /\ ~p.eof
  <2> DEFINE counted == [p EXCEPT !.samples = @ + 1]
  <2>1. q = IF counted.samples > MaxSamples THEN [counted EXCEPT !.error = "unsafe"]
            ELSE IF counted.samples = response.refused THEN [counted EXCEPT !.error = "handler"]
            ELSE [counted EXCEPT !.handed = Append(@, entry)]
    BY <1>9 DEF Scrape!Line, Scrape!Sample
  <2>2. /\ counted.samples = p.samples + 1 /\ counted.eof = p.eof /\ counted.error = p.error
        /\ counted \in Parsers
    BY ONLY <1>3, Counted
  <2> HIDE DEF counted
  <2>3. CASE counted.samples > MaxSamples
    <3>1. q.error = "unsafe"
      BY ONLY <2>1, <2>2, <2>3 DEF Parsers
    <3>2. TooMuch
      BY <1>2, <1>9, <2>2, <2>3, OneTooMany
    <3> QED
      BY <3>1, <3>2
  <2>4. CASE ~(counted.samples > MaxSamples) /\ counted.samples = response.refused
    <3>1. q.error = "handler"
      BY ONLY <2>1, <2>2, <2>4 DEF Parsers
    <3> QED
      BY <3>1
  <2>5. CASE ~(counted.samples > MaxSamples) /\ counted.samples # response.refused
    <3>1. q.error = p.error /\ q.eof = p.eof
      BY ONLY <2>1, <2>2, <2>5 DEF Parsers
    <3> QED
      BY <1>9, <3>1
  <2> QED
    BY <2>3, <2>4, <2>5
<1> QED
  BY <1>2, <1>4, <1>5, <1>6, <1>7, <1>8, <1>9

\* What was handed over is as many lines as were counted.
LEMMA HandedFacts ==
  ASSUME NEW p, NEW n, HandedOf(p, n)
  PROVE  LET handed == {p.handed[k].line : k \in 1..Len(p.handed)}
         IN  handed = Scrape!SamplesOf(n) /\ Cardinality(handed) <= MaxSamples
<1> DEFINE S == 1..Len(p.handed)
           handed == {p.handed[k].line : k \in S}
           h == [k \in S |-> p.handed[k].line]
<1>1. /\ Len(p.handed) \in Nat /\ p.samples = Len(p.handed) /\ p.samples <= MaxSamples
      /\ \A k \in S : p.handed[k].line \in Scrape!SamplesOf(n)
      /\ \A i \in Scrape!SamplesOf(n) : \E k \in S : p.handed[k].line = i
  BY DEF HandedOf, Parsers
<1>2. handed = Scrape!SamplesOf(n)
  BY <1>1
<1>3. h \in Surjection(S, handed)
  BY DEF Surjection
<1>4. IsFiniteSet(S) /\ Cardinality(S) = Len(p.handed)
  <2>1. 1 \in Int /\ Len(p.handed) \in Int
        /\ (IF 1 > Len(p.handed) THEN 0 ELSE Len(p.handed) - 1 + 1) = Len(p.handed)
    BY <1>1
  <2> QED
    BY ONLY <2>1, FS_Interval
<1> HIDE DEF h, S
<1>5. Cardinality(handed) <= Cardinality(S) /\ IsFiniteSet(handed)
  BY ONLY <1>3, <1>4, FS_Surjection
<1>6. Cardinality(handed) \in Nat
  BY <1>5, FS_CardinalityType
<1>7. Cardinality(handed) <= MaxSamples
  BY <1>1, <1>4, <1>5, <1>6, BoundsAssumption
<1> QED
  BY <1>2, <1>7 DEF S

\* What a reader of the document has, a step that leaves the document has too.
LEMMA HandedNext ==
  ASSUME NEW n, HandedOf(parser', n), received' \div 3 = n, UNCHANGED response
  PROVE  HandedOf(parser, received \div 3)'
<1>1. Lines' = Lines
  BY DEF Lines
<1>2. \A m : Scrape!SamplesOf(m)' = Scrape!SamplesOf(m)
  BY DEF Scrape!SamplesOf
<1> HIDE DEF Lines
<1> QED
  BY <1>1, <1>2 DEF HandedOf

LEMMA RespondedNext == ASSUME Responded, UNCHANGED response PROVE Responded'
BY DEF Responded, Scrape!Documents, Scrape!LineKinds, Scrape!Bodies, Scrape!Pieces

\* The properties are about a scrape that succeeds or is refused for a limit.
LEMMA QuietOutcome ==
  ASSUME outcome' \notin {"", "ok", "unsafe"} PROVE ScrapeInvariant'
BY DEF ScrapeInvariant, Scrape!ScrapesAreExact, Scrape!ScrapeIsExact, Scrape!LimitsAreExact

LEMMA StillReading ==
  ASSUME outcome' = "" PROVE Scrape!ScrapesAreExact'
BY DEF Scrape!ScrapesAreExact, Scrape!ScrapeIsExact, Scrape!LimitsAreExact

LEMMA UnsafeOutcome ==
  ASSUME Responded, outcome' = "unsafe", UNCHANGED response,
         TooMuch \/ Scrape!Total > MaxDecompressed \/ response.packed <= Scrape!Total
  PROVE  ScrapeInvariant'
<1>1. Scrape!Total' = Scrape!Total
  BY DEF Scrape!Total, Scrape!Pieces
<1>2. Scrape!LimitsAreExact'
  BY <1>1, ScrapeCardinality DEF Scrape!LimitsAreExact, TooMuch, SampleLines, Lines
<1> QED
  BY <1>2 DEF ScrapeInvariant, Scrape!ScrapesAreExact, Scrape!ScrapeIsExact

\* A reader that has handed over the samples it owes may return.
LEMMA AcceptedOutcome ==
  ASSUME Responded, outcome' = "ok", UNCHANGED <<response, received>>,
         received <= MaxDecompressed, received < response.packed,
         NEW m \in 0..Len(Lines), HandedOf(parser', m),
         \/ parser'.eof
         \/ m = Len(Lines)
         \/ response.framing = "close" /\ response.format = "text"
  PROVE  ScrapeInvariant'
<1>1. Len(Lines) \in Nat /\ m \in Nat /\ m <= Len(Lines)
  <2>1. Len(Lines) \in Nat
    BY DocumentType
  <2> HIDE DEF Lines
  <2> QED
    BY ONLY <2>1, m \in 0..Len(Lines)
<1>2. parser'.eof => Scrape!SamplesOf(Len(Lines)) = Scrape!SamplesOf(m)
  <2>1. parser'.eof => \E j \in 1..m : Lines[j] = "eof"
    BY DEF HandedOf
  <2> HIDE DEF Lines
  <2> QED
    BY ONLY <1>1, <2>1, NoneAfterEof
<1>3. /\ Scrape!HandedLines' = Scrape!SamplesOf(m)
      /\ Scrape!Cardinality(Scrape!HandedLines') <= MaxSamples
  BY HandedFacts, ScrapeCardinality DEF Scrape!HandedLines
<1>4. \A k : Scrape!SamplesOf(k)' = Scrape!SamplesOf(k)
  BY DEF Scrape!SamplesOf
<1>5. /\ IF response.framing = "close" /\ response.format = "text"
         THEN \E n \in 0..Len(Lines) : Scrape!HandedLines' = Scrape!SamplesOf(n)
         ELSE Scrape!HandedLines' = Scrape!SamplesOf(Len(Lines))
  BY <1>2, <1>3
<1>6. ASSUME NEW k \in 1..Len(parser'.handed)
      PROVE  /\ parser'.handed[k].whole
             /\ k > 1 => parser'.handed[k - 1].line < parser'.handed[k].line
  <2>1. Len(parser'.handed) \in Nat
    BY DEF HandedOf, Parsers
  <2>2. k > 1 => k - 1 \in 1..Len(parser'.handed) /\ k - 1 < k
    BY <2>1
  <2> QED
    BY <2>2 DEF HandedOf
<1>7. Scrape!ScrapeIsExact'
  BY <1>4, <1>5, <1>6 DEF Scrape!ScrapeIsExact, Lines
<1>8. Scrape!LimitsAreExact'
  BY <1>3, ScrapeCardinality DEF Scrape!LimitsAreExact
<1> QED
  BY <1>7, <1>8 DEF ScrapeInvariant, Scrape!ScrapesAreExact

\* The parser once the scanner has stopped.
LEMMA ParserAtEnd ==
  ASSUME ReadingWell, NEW q \in Scrape!AtEnd,
         NEW n, n = received \div 3, NEW r, r = received % 3
  PROVE  /\ q.error \in {"", "malformed", "handler", "unsafe"}
         /\ q.error = "unsafe" => TooMuch
         /\ q.error = "" /\ r = 0 => HandedOf(q, n)
         /\ q.error = "" /\ r = 1 /\ q.eof => HandedOf(q, n)
         /\ q.error = "" /\ r = 2 => HandedOf(q, n + 1)
<1>1. /\ Responded /\ received \in 0..Scrape!Total
      /\ parser.error = "" /\ HandedOf(parser, n)
  BY DEF ReadingWell
<1>2. /\ n \in Nat /\ r \in {0, 1, 2}
      /\ r # 0 => n + 1 \in 1..Len(Lines)
  BY <1>1, PieceOfLine
<1> DEFINE whole == [line |-> n + 1, whole |-> TRUE]
           part0 == [line |-> n + 1, whole |-> FALSE]
           cut == {Scrape!Line(parser, kind, part0) : kind \in Scrape!StartOf(Lines[n + 1])}
<1>3. q \in CASE r = 0 -> {parser}
              [] r = 2 -> {Scrape!Line(parser, Lines[n + 1], whole)}
              [] r = 1 -> cut
  BY Zenon DEF Scrape!AtEnd, Lines
<1> HIDE DEF Lines, whole, part0, cut
<1>4. CASE r = 0
  <2>1. q = parser /\ r # 1 /\ r # 2
    BY ONLY <1>3, <1>4
  <2> QED
    BY ONLY <1>1, <1>4, <2>1, Zenon
<1>5. CASE r = 2
  <2>1. q = Scrape!Line(parser, Lines[n + 1], whole) /\ r # 0 /\ r # 1
    BY ONLY <1>3, <1>5
  <2>2. n + 1 \in 1..Len(Lines)
    BY ONLY <1>2, <2>1
  <2>3. /\ q.error = "" => HandedOf(q, n + 1)
        /\ q.error \in {"", "malformed", "handler", "unsafe"}
        /\ q.error = "unsafe" => TooMuch
    BY ONLY <1>1, <1>2, <2>1, <2>2, LineStep DEF whole
  <2> QED
    BY ONLY <1>5, <2>1, <2>3, Zenon
<1>6. CASE r = 1
  <2>1. q \in cut /\ r # 0 /\ r # 2
    BY ONLY <1>3, <1>6
  <2>2. PICK kind \in Scrape!StartOf(Lines[n + 1]) : q = Scrape!Line(parser, kind, part0)
    BY ONLY <2>1, Zenon DEF cut
  <2>3. n + 1 \in 1..Len(Lines) /\ kind \in Scrape!StartOf(Lines[n + 1])
    BY ONLY <1>2, <2>1, kind \in Scrape!StartOf(Lines[n + 1])
  <2>4. /\ q.error = "" /\ q.eof => q = parser
        /\ q.error \in {"", "malformed", "handler", "unsafe"}
        /\ q.error = "unsafe" => TooMuch
    BY ONLY <1>1, <1>2, <2>2, <2>3, PartialStep
  <2> QED
    BY ONLY <1>1, <1>6, <2>1, <2>4, Zenon
<1> QED
  BY ONLY <1>2, <1>4, <1>5, <1>6

\* The scanner has stopped, and Scrape returns.
LEMMA StopStep ==
  ASSUME ReadingWell, outcome = "", NEW read \in {"end", "unsafe", "malformed"},
         Scrape!Stop(read),
         IF read = "unsafe" THEN ~Scrape!WithinLimits(received) ELSE Scrape!WithinLimits(received),
         read = "end" => received = Scrape!Total \/ response.framing = "close"
  PROVE  ScrapeInvariant'
<1> DEFINE n == received \div 3
           r == received % 3
           q == parser'
<1>1. /\ Responded /\ received \in 0..Scrape!Total
      /\ parser.error = "" /\ HandedOf(parser, n)
  BY DEF ReadingWell
<1>2. /\ n \in Nat /\ r \in {0, 1, 2} /\ n <= Len(Lines) /\ Len(Lines) \in Nat
      /\ r # 0 => n + 1 \in 1..Len(Lines)
      /\ received = Scrape!Total /\ r = 0 => n = Len(Lines)
  BY <1>1, PieceOfLine, DocumentType
<1>3. /\ received \in Nat /\ received <= Scrape!Total /\ Scrape!Total \in Nat
      /\ response.packed \in Nat /\ response.format \in {"text", "openmetrics"}
      /\ MaxDecompressed \in Nat
  <2>1. /\ response.packed \in Nat /\ response.format \in {"text", "openmetrics"}
        /\ Scrape!Total \in Nat
    BY <1>1, ResponseType
  <2>2. MaxDecompressed \in Nat /\ received \in 0..Scrape!Total
    BY <1>1, BoundsAssumption
  <2> QED
    BY ONLY <2>1, <2>2
<1>4. /\ q \in Scrape!AtEnd /\ UNCHANGED <<response, received>>
      /\ outcome' = IF q.error # "" THEN q.error
                    ELSE IF read # "end" THEN read
                    ELSE IF response.format = "text" /\ r # 0 THEN "malformed"
                    ELSE IF response.format = "openmetrics" /\ ~q.eof THEN "malformed"
                    ELSE "ok"
  BY Zenon DEF Scrape!Stop, Scrape!Verdict
<1>5. /\ q.error \in {"", "malformed", "handler", "unsafe"}
      /\ q.error = "unsafe" => TooMuch
      /\ q.error = "" /\ r = 0 => HandedOf(q, n)
      /\ q.error = "" /\ r = 1 /\ q.eof => HandedOf(q, n)
      /\ q.error = "" /\ r = 2 => HandedOf(q, n + 1)
  BY <1>4, ParserAtEnd
<1>6. Scrape!WithinLimits(received) <=> received <= MaxDecompressed /\ received < response.packed
  BY DEF Scrape!WithinLimits
<1> HIDE DEF n, r, q, Lines
<1>7. CASE outcome' \notin {"ok", "unsafe"}
  <2>1. outcome' # ""
    BY ONLY <1>4, read \in {"end", "unsafe", "malformed"}
  <2> QED
    BY ONLY <1>7, <2>1, QuietOutcome
<1>8. CASE outcome' = "unsafe"
  <2>1. q.error = "unsafe" \/ read = "unsafe"
    BY ONLY <1>4, <1>8
  <2>2. read = "unsafe" => Scrape!Total > MaxDecompressed \/ response.packed <= Scrape!Total
    BY ONLY <1>3, <1>6,
      IF read = "unsafe" THEN ~Scrape!WithinLimits(received) ELSE Scrape!WithinLimits(received)
  <2> QED
    BY ONLY <1>1, <1>4, <1>5, <1>8, <2>1, <2>2, UnsafeOutcome
<1>9. CASE outcome' = "ok"
  <2>1. /\ q.error = "" /\ read = "end"
        /\ response.format = "text" => r = 0
        /\ response.format = "openmetrics" => q.eof
    BY ONLY <1>4, <1>5, <1>9
  <2>2. received <= MaxDecompressed /\ received < response.packed
    BY ONLY <1>6, <2>1,
      IF read = "unsafe" THEN ~Scrape!WithinLimits(received) ELSE Scrape!WithinLimits(received)
  <2>3. received = Scrape!Total \/ response.framing = "close"
    BY ONLY <2>1, read = "end" => received = Scrape!Total \/ response.framing = "close"
  <2>4. PICK m \in 0..Len(Lines) :
          /\ HandedOf(q, m)
          /\ \/ q.eof
             \/ m = Len(Lines)
             \/ response.framing = "close" /\ response.format = "text"
    <3>1. CASE response.format = "text"
      <4>0. HandedOf(q, n)
        BY ONLY <1>5, <2>1, <3>1, Zenon
      <4>1. HandedOf(q, n) /\ n \in 0..Len(Lines)
        BY ONLY <1>2, <4>0
      <4>2. n = Len(Lines) \/ response.framing = "close"
        BY ONLY <1>2, <2>1, <2>3, <3>1
      <4> QED
        BY ONLY <3>1, <4>1, <4>2
    <3>2. CASE response.format = "openmetrics" /\ r = 2
      <4>0. HandedOf(q, n + 1) /\ q.eof
        BY ONLY <1>5, <2>1, <3>2, Zenon
      <4>2. n + 1 \in 0..Len(Lines)
        BY ONLY <1>2, <3>2
      <4>1. HandedOf(q, n + 1) /\ n + 1 \in 0..Len(Lines) /\ q.eof
        BY ONLY <4>0, <4>2
      <4> QED
        BY ONLY <4>1
    <3>3. CASE response.format = "openmetrics" /\ r # 2
      <4>0. r = 0 \/ r = 1
        BY ONLY <1>2, <3>3
      <4>2. HandedOf(q, n) /\ q.eof
        BY ONLY <1>5, <2>1, <3>3, <4>0, Zenon
      <4>3. n \in 0..Len(Lines)
        BY ONLY <1>2
      <4>1. HandedOf(q, n) /\ n \in 0..Len(Lines) /\ q.eof
        BY ONLY <4>2, <4>3
      <4> QED
        BY ONLY <4>1
    <3> QED
      BY ONLY <1>3, <3>1, <3>2, <3>3
  <2>5. HandedOf(parser', m) /\ m \in 0..Len(Lines)
        /\ (parser'.eof \/ m = Len(Lines)
            \/ (response.framing = "close" /\ response.format = "text"))
    BY ONLY <2>4, m \in 0..Len(Lines) DEF q
  <2> QED
    BY ONLY <1>1, <1>4, <1>9, <2>2, <2>5, AcceptedOutcome
<1> QED
  BY ONLY <1>7, <1>8, <1>9

LEMMA TotalType == Responded => Scrape!Total \in Nat
BY ResponseType

LEMMA StillReadingWell ==
  ASSUME ReadingWell, response # Scrape!NoResponse, outcome' = "", UNCHANGED response,
         received < Scrape!Total, received' = received + 1, parser'.error = "",
         HandedOf(parser', received' \div 3)
  PROVE  ScrapeInvariant'
<1>1. Responded /\ received \in 0..Scrape!Total /\ Scrape!Total \in Nat
  BY ResponseType DEF ReadingWell
<1>2. Scrape!Total' = Scrape!Total
  BY DEF Scrape!Total, Scrape!Pieces
<1>3. received' \in 0..Scrape!Total'
  BY ONLY <1>1, <1>2, received < Scrape!Total, received' = received + 1
<1>4. Responded'
  BY <1>1, RespondedNext
<1>5. HandedOf(parser, received \div 3)'
  <2> DEFINE n == received' \div 3
  <2>1. HandedOf(parser', n) /\ received' \div 3 = n
    OBVIOUS
  <2> HIDE DEF n
  <2> QED
    BY <2>1, HandedNext
<1>6. ReadingWell'
  BY <1>3, <1>4, <1>5 DEF ReadingWell
<1>7. response' # Scrape!NoResponse' /\ Scrape!ScrapesAreExact'
  BY StillReading DEF Scrape!NoResponse
<1> QED
  BY <1>6, <1>7 DEF ScrapeInvariant

LEMMA ReadStep == ReadingWell /\ outcome = "" /\ Scrape!Read => ScrapeInvariant'
<1> SUFFICES ASSUME ReadingWell, outcome = "", Scrape!Read PROVE ScrapeInvariant'
  OBVIOUS
<1> DEFINE n == received \div 3
           q == parser'
<1>1. /\ Responded /\ received \in 0..Scrape!Total
      /\ parser.error = "" /\ HandedOf(parser, n)
  BY DEF ReadingWell
<1>2. /\ response # Scrape!NoResponse /\ received < Scrape!Total /\ received' = received + 1
      /\ outcome' = q.error /\ UNCHANGED response
      /\ q = IF received' % 3 = 0
             THEN Scrape!Line(parser, Lines[received' \div 3],
                              [line |-> received' \div 3, whole |-> TRUE])
             ELSE parser
  BY DEF Scrape!Read, Scrape!Reading, Lines
<1>3. /\ n \in Nat /\ n + 1 \in 1..Len(Lines)
      /\ received' % 3 = 0 => received' \div 3 = n + 1
      /\ received' % 3 # 0 => received' \div 3 = n
  BY <1>1, <1>2, PieceOfLine
<1> HIDE DEF n, q, Lines
<1>4. CASE received' % 3 = 0
  <2>1. q = Scrape!Line(parser, Lines[n + 1], [line |-> n + 1, whole |-> TRUE])
    BY ONLY <1>2, <1>3, <1>4
  <2>2. /\ q.error = "" => HandedOf(q, n + 1)
        /\ q.error \in {"", "malformed", "handler", "unsafe"}
        /\ q.error = "unsafe" => TooMuch
    BY ONLY <1>1, <1>3, <2>1, LineStep
  <2>3. CASE q.error = ""
    <3>1. HandedOf(parser', received' \div 3)
      BY <1>3, <1>4, <2>2, <2>3 DEF q
    <3> QED
      BY <1>2, <2>3, <3>1, StillReadingWell DEF q
  <2>4. CASE q.error = "unsafe"
    BY <1>1, <1>2, <2>2, <2>4, UnsafeOutcome
  <2>5. CASE q.error \in {"malformed", "handler"}
    BY <1>2, <2>5, QuietOutcome
  <2> QED
    BY <2>2, <2>3, <2>4, <2>5
<1>5. CASE received' % 3 # 0
  <2>1. q = parser /\ parser'.error = "" /\ outcome' = ""
    BY <1>1, <1>2, <1>5 DEF q
  <2>2. HandedOf(parser', received' \div 3)
    BY <1>1, <1>3, <1>5, <2>1 DEF q
  <2> QED
    BY <1>2, <2>1, <2>2, StillReadingWell
<1> QED
  BY <1>4, <1>5

LEMMA RespondStep == ScrapeInvariant /\ Scrape!Respond => ScrapeInvariant'
<1> SUFFICES ASSUME ScrapeInvariant, Scrape!Respond PROVE ScrapeInvariant'
  OBVIOUS
<1>1. /\ received = 0 /\ parser = Scrape!NewParser
      /\ UNCHANGED <<received, parser>> /\ outcome' = ""
  BY DEF ScrapeInvariant, Scrape!Respond, Scrape!Waiting
<1>2. PICK document \in Scrape!Documents : response' \in Scrape!Bodies(document)
  BY DEF Scrape!Respond
<1>3. /\ response'.document = document /\ response'.format \in {"text", "openmetrics"}
  BY <1>2 DEF Scrape!Bodies
<1>4. Responded'
  BY <1>2, <1>3 DEF Responded, Scrape!Bodies, Scrape!Documents, Scrape!Pieces, Scrape!LineKinds
<1>5. response' # Scrape!NoResponse'
  <2>1. Scrape!NoResponse.format = "" /\ Scrape!NoResponse' = Scrape!NoResponse
    BY DEF Scrape!NoResponse
  <2>2. response' # Scrape!NoResponse
    BY ONLY <1>3, <2>1
  <2> QED
    BY ONLY <2>1, <2>2
<1>6. (Scrape!Total \in Nat)'
  BY <1>4, TotalType, PTL
<1>7. received' \div 3 = 0 /\ received' \in 0..Scrape!Total'
  <2>1. received' = 0
    BY <1>1
  <2> QED
    BY ONLY <1>6, <2>1
<1>8. HandedOf(parser, 0)'
  <2>1. Scrape!SamplesOf(0)' = {}
    BY DEF Scrape!SamplesOf
  <2>2. /\ parser' = [handed |-> <<>>, samples |-> 0, eof |-> FALSE, error |-> ""]
        /\ <<>> \in Seq(HandedSamples) /\ Len(<<>>) = 0
    BY <1>1, EmptySeq DEF Scrape!NewParser
  <2>3. MaxSamples \in Nat
    BY BoundsAssumption
  <2> DEFINE e == <<>>
  <2>4. parser' = [handed |-> e, samples |-> 0, eof |-> FALSE, error |-> ""]
        /\ e \in Seq(HandedSamples) /\ Len(e) = 0
    BY <2>2
  <2>5. 1..0 = {}
    OBVIOUS
  <2>6. MaxSamples >= 0
    BY ONLY <2>3
  <2> HIDE DEF e
  <2>7. /\ parser' \in Parsers /\ parser'.handed = e /\ parser'.samples = 0 /\ parser'.eof = FALSE
    BY ONLY <2>4 DEF Parsers, Errors
  <2>8. 1..Len(parser'.handed) = {} /\ Len(parser'.handed) = 0
    BY ONLY <2>4, <2>5, <2>7
  <2> HIDE DEF Parsers, Lines
  <2> QED
    BY ONLY <2>1, <2>5, <2>6, <2>7, <2>8 DEF HandedOf
<1>9. ReadingWell'
  BY <1>1, <1>4, <1>7, <1>8 DEF ReadingWell, Scrape!NewParser
<1> QED
  BY <1>1, <1>5, <1>9, StillReading DEF ScrapeInvariant

LEMMA ScrapeInit == Scrape!Init => ScrapeInvariant
BY DEF Scrape!Init, ScrapeInvariant, Scrape!ScrapesAreExact, Scrape!ScrapeIsExact,
  Scrape!LimitsAreExact

LEMMA ExpositionStep == ScrapeInvariant /\ (Scrape!Next \/ UNCHANGED scrapeVars) => ScrapeInvariant'
<1> SUFFICES ASSUME ScrapeInvariant, Scrape!Next \/ UNCHANGED scrapeVars PROVE ScrapeInvariant'
  OBVIOUS
<1>1. CASE UNCHANGED scrapeVars
  <2>1. /\ UNCHANGED response /\ UNCHANGED received /\ UNCHANGED parser /\ UNCHANGED outcome
    BY <1>1 DEF scrapeVars
  <2>2. \A n : Scrape!SamplesOf(n)' = Scrape!SamplesOf(n)
    BY <2>1 DEF Scrape!SamplesOf
  <2>3. Scrape!HandedLines' = Scrape!HandedLines /\ Scrape!Total' = Scrape!Total
        /\ Scrape!NoResponse' = Scrape!NoResponse /\ Scrape!NewParser' = Scrape!NewParser
    BY <2>1 DEF Scrape!HandedLines, Scrape!Total, Scrape!Pieces, Scrape!NoResponse, Scrape!NewParser
  <2>4. Scrape!ScrapeIsExact'
    BY <2>1, <2>2, <2>3 DEF ScrapeInvariant, Scrape!ScrapesAreExact, Scrape!ScrapeIsExact
  <2>5. Scrape!LimitsAreExact'
    BY <2>1, <2>3, ScrapeCardinality
    DEF ScrapeInvariant, Scrape!ScrapesAreExact, Scrape!LimitsAreExact
  <2>6. ReadingWell => ReadingWell'
    <3> SUFFICES ASSUME ReadingWell PROVE ReadingWell'
      OBVIOUS
    <3> DEFINE n == received \div 3
    <3>1. HandedOf(parser', n) /\ received' \div 3 = n
      BY <2>1 DEF ReadingWell
    <3> HIDE DEF n
    <3>2. HandedOf(parser, received \div 3)'
      BY <2>1, <3>1, HandedNext
    <3> QED
      BY <2>1, <2>3, <3>2, RespondedNext DEF ReadingWell
  <2> QED
    BY <2>1, <2>3, <2>4, <2>5, <2>6 DEF ScrapeInvariant, Scrape!ScrapesAreExact
<1>2. ASSUME NEW sameOrigin \in BOOLEAN, Scrape!Redirected(sameOrigin) PROVE ScrapeInvariant'
  <2>1. CASE outcome' = "transport"
    BY <2>1, QuietOutcome
  <2>2. CASE UNCHANGED outcome
    <3>1. /\ received = 0 /\ parser = Scrape!NewParser /\ response = Scrape!NoResponse
          /\ UNCHANGED <<response, received, parser>> /\ outcome' = ""
      BY <1>2, <2>2 DEF ScrapeInvariant, Scrape!Redirected, Scrape!Waiting
    <3> QED
      BY <3>1, StillReading DEF ScrapeInvariant, Scrape!NewParser, Scrape!NoResponse
  <2> QED
    BY <1>2, <2>1, <2>2 DEF Scrape!Redirected
<1>3. CASE Scrape!Refused
  BY <1>3, QuietOutcome DEF Scrape!Refused
<1>4. CASE Scrape!Respond
  BY <1>4, RespondStep
<1>5. Scrape!Reading => ReadingWell /\ outcome = ""
  BY DEF Scrape!Reading, ScrapeInvariant
<1>6. CASE Scrape!Read
  BY <1>5, <1>6, ReadStep DEF Scrape!Read
<1>7. CASE Scrape!EndOfBody
  BY <1>5, <1>7, StopStep DEF Scrape!EndOfBody
<1>8. CASE Scrape!LimitPassed
  BY <1>5, <1>8, StopStep DEF Scrape!LimitPassed
<1>9. CASE Scrape!Dropped
  BY <1>5, <1>9, StopStep DEF Scrape!Dropped
<1>10. CASE Scrape!DeadlinePasses
  BY <1>5, <1>10, StopStep DEF Scrape!DeadlinePasses
<1> QED
  BY <1>1, <1>2, <1>3, <1>4, <1>6, <1>7, <1>8, <1>9, <1>10 DEF Scrape!Next

\* For documents of any length, any limits and wherever the response is cut
\* off or the deadline falls, a scrape that succeeds has handed over just the
\* document, and only one that passes a limit is refused for it.
THEOREM ScrapesStayExact == CollectorsSpec => []ScrapesAreExact
<1> DEFINE Inv == part = "scrape" => ScrapeInvariant
<1>1. CollectorsInit => Inv
  BY ScrapeInit DEF CollectorsInit
<1>2. Inv /\ [CollectorsNext]_allVars => Inv'
  <2> SUFFICES ASSUME Inv, [CollectorsNext]_allVars, part' = "scrape"
               PROVE  ScrapeInvariant'
    OBVIOUS
  <2>1. part = "scrape" /\ (Scrape!Next \/ UNCHANGED scrapeVars)
    BY DEF CollectorsNext, allVars, scrapeVars
  <2> QED
    BY <2>1, ExpositionStep
<1>3. Inv => ScrapesAreExact
  BY DEF ScrapeInvariant, ScrapesAreExact
<1> QED
  BY <1>1, <1>2, <1>3, PTL DEF CollectorsSpec
=============================================================================
