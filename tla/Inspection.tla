------------------------------ MODULE Inspection ------------------------------
(***************************************************************************)
(* What `statlite inspect` makes of the answers of an application:         *)
(* which requests it sends, what each answer tells, and which target, if   *)
(* any, it suggests.  Module Onboarding sends the requests one by one.     *)
(*                                                                         *)
(* An answer is its kind: a document one of the recognizers accepts        *)
(* ("health", "statlite", "statlite_bare" without metrics, "index" of the  *)
(* Actuator metrics, "metrics" for a compatible exposition, "partial" for  *)
(* one with warnings, "foreign" for any other), or "page", "missing"       *)
(* (404, 410), "denied" (401, 403), "error", "refused", "loop" of          *)
(* redirects, "slow" past the deadline, "cut" while the body was read.     *)
(***************************************************************************)
EXTENDS Configuration

JSONAnswers == {"health", "statlite", "statlite_bare", "index"}

\* inspector.get: the failure a probe reports, "" for none.
Failure(answer) ==
  CASE answer = "denied"                  -> "authentication_required"
    [] answer \in {"slow", "cut", "loop"} -> "incomplete"
    [] answer = "refused"                 -> "unreachable"
    [] OTHER                              -> ""

\* The class of a scrape's failure, "" when it succeeds.
ScrapeClass(answer) ==
  CASE answer \in {"metrics", "partial", "foreign"} -> ""
    [] answer \in JSONAnswers \cup {"page"}         -> "content_type"
    [] answer = "missing"                           -> "not_found"
    [] answer = "denied"                            -> "authentication"
    [] answer = "error"                             -> "http"
    [] answer = "cut"                               -> "malformed"
    [] answer \in {"refused", "slow", "loop"}       -> "transport"

Compatible(answer) == answer \in {"metrics", "partial"}

\* quarkusFailure and micronautFailure.
ScrapeFailure(answer) ==
  CASE answer = "foreign"             -> "incompatible"
    [] answer = "denied"              -> "authentication_required"
    [] answer \in {"refused", "loop"} -> "unreachable"
    [] OTHER                          -> "incomplete"

\* isQuarkusConclusiveMiss and isMicronautConclusiveMiss.
ConclusiveMiss(type, answer) ==
  \/ answer = "foreign"
  \/ ScrapeClass(answer) \in
       (IF type = "quarkus" THEN {"not_found", "content_type", "malformed"} ELSE {"not_found"})

\* The endpoints a typed inspection scrapes, the second after a conclusive miss.
Conventional(type) == IF type = "quarkus" THEN "q/metrics" ELSE "prometheus"

Endpoints(type, url) ==
  LET conventional == [url EXCEPT !.suffix = Conventional(type), !.slash = FALSE]
  IN  IF url.query \/ url.suffix = Conventional(type) THEN <<url>>
      ELSE IF url.base = "" /\ url.suffix = "" THEN <<conventional>>
      ELSE <<url, conventional>>

\* recognitionFailure: the gravest failure of the probes, "" for none.
RecognitionFailure(answers) ==
  LET failures == {Failure(a) : a \in answers}
  IN  IF "authentication_required" \in failures THEN "authentication_required"
      ELSE IF "incomplete" \in failures THEN "incomplete"
      ELSE IF "unreachable" \in failures THEN "unreachable"
      ELSE ""

IsStatlite(answer) == answer \in {"statlite", "statlite_bare"}

\* The integrations that health, statlite/metrics and q/metrics show.
Matches(seen) ==
  {type \in {"spring", "statlite-metrics", "quarkus"} :
     \/ type = "spring" /\ seen.health = "health"
     \/ type = "statlite-metrics" /\ IsStatlite(seen.statlite)
     \/ type = "quarkus" /\ Compatible(seen.quarkus)}

\* What the three probes amount to: "one" match, "none" at all, or the failure.
Verdict(seen) ==
  LET failure == RecognitionFailure({seen.health, seen.statlite})
  IN  CASE Cardinality(Matches(seen)) > 1 -> "multiple_matches"
        [] Cardinality(Matches(seen)) = 1 -> "one"
        [] OTHER ->
             IF failure # "" THEN failure
             ELSE IF ~ConclusiveMiss("quarkus", seen.quarkus) THEN ScrapeFailure(seen.quarkus)
             ELSE "none"

\* A suggested target and whether its metrics are available.
Suggestion(type, url, metrics) == [type |-> type, url |-> url, metrics |-> metrics]
NoSuggestion == Suggestion("", NoURL, FALSE)

\* The suggestions of an untyped inspection of the application at "base", but
\* for Spring's metrics, which take further requests.
Suggested(base, seen) ==
  CASE Matches(seen) = {"spring"}  -> Suggestion("spring", At(base, "actuator"), FALSE)
    [] Matches(seen) = {"statlite-metrics"} ->
         Suggestion("statlite-metrics", At(base, "statlite/metrics"), seen.statlite = "statlite")
    [] Matches(seen) = {"quarkus"} -> Suggestion("quarkus", At(base, "q/metrics"), TRUE)

\* Mutant: whatever keeps the exposition from being read, the index is asked.
AsksAnyIndex(answer) == ~Compatible(answer)

\* springMetricsAvailable asks for the index only when the exposition can be
\* read or is definitely absent; so does the collector's automatic selection.
AsksIndex(answer) == ~Compatible(answer) /\ ScrapeClass(answer) \in {"", "not_found"}

-----------------------------------------------------------------------------
(* What a collector newly built for a loaded target obtains.               *)

FallsBack(answer) == ~Compatible(answer) /\ ScrapeClass(answer) \in {"", "not_found"}

\* "fails", or whether samples of metrics come with the first collection;
\* "answer" gives what the application serves below a base.
FirstCollection(t, answer) ==
  LET At2(suffix) == answer[t.url.base][suffix]
  IN  CASE t.type = "spring" ->
             IF t.source # "actuator" /\ Compatible(At2("actuator/prometheus")) THEN "metrics"
             ELSE IF \/ t.source = "actuator"
                     \/ t.source = "auto" /\ FallsBack(At2("actuator/prometheus"))
             THEN IF At2("actuator/metrics") = "index" THEN "metrics" ELSE "bare"
             ELSE "bare"
        [] t.type = "statlite-metrics" ->
             CASE At2(t.url.suffix) = "statlite"      -> "metrics"
               [] At2(t.url.suffix) = "statlite_bare" -> "bare"
               [] OTHER                               -> "fails"
        [] t.type \in {"quarkus", "micronaut"} ->
             IF Compatible(At2(t.url.suffix)) THEN "metrics" ELSE "fails"
=============================================================================
