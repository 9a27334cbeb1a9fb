----------------------------- MODULE Exposition -----------------------------
(***************************************************************************)
(* Client.Scrape of internal/prometheus: one request for an exposition,    *)
(* its redirects, the response as it is read, and the parser that hands    *)
(* each sample to the caller while the rest is still on the wire.          *)
(*                                                                         *)
(* A line is three pieces: the start of its text, the rest of it, and its  *)
(* LF.  Sizes are counted in pieces.  The scanner emits a line once its LF *)
(* is there, and, at the end of the input or at any read error, the text   *)
(* left without one: the last line handed over may be a part of the served *)
(* one, with another meaning.                                              *)
(***************************************************************************)
EXTENDS Naturals, Sequences, FiniteSets

CONSTANTS
  MaxRedirects, MaxDecompressed, MaxSamples,  \* Limits
  MaxLines                                    \* bound on the documents served

\* "wide" is a sample whose labels pass a limit, "broken" any other line that
\* parseSample refuses.
LineKinds == {"blank", "comment", "eof", "sample", "broken", "wide"}
Documents == UNION {[1..n -> LineKinds] : n \in 0..MaxLines}

VARIABLES
  response,  \* what the server serves, once it has answered
  hops,      \* redirects followed
  received,  \* pieces the parser has read
  parser,    \* Parse's variables: samples handed over, stats.Samples, sawEOF
  outcome    \* "" until Scrape returns: "ok" or the class of its failure

vars == <<response, hops, received, parser, outcome>>

\* A body ends where its length or chunks say ("framed"), with the connection
\* ("close"), or with a gzip stream.  "lf" tells whether the last line has its
\* LF; "packed" how many pieces the compressed bytes within their limit hold,
\* more than there are when all fit; the handler refuses sample "refused".
Pieces(document, lf) == 3 * Len(document) - (IF lf THEN 0 ELSE 1)

Bodies(document) ==
  {b \in [format   : {"text", "openmetrics"},
          framing  : {"framed", "close", "gzip"},
          document : {document},
          lf       : IF document = <<>> THEN {TRUE} ELSE BOOLEAN,
          packed   : 0..(3 * Len(document) + 1),
          refused  : 0..MaxSamples] :
     /\ b.packed <= Pieces(document, b.lf) + 1
     /\ b.framing # "gzip" => b.packed = Pieces(document, b.lf) + 1}

NoResponse ==
  [format |-> "", framing |-> "", document |-> <<>>, lf |-> TRUE, packed |-> 0, refused |-> 0]

Total == Pieces(response.document, response.lf)

-----------------------------------------------------------------------------
(* Parse.                                                                  *)

NewParser == [handed |-> <<>>, samples |-> 0, eof |-> FALSE, error |-> ""]

Sample(p, entry) ==
  LET counted == [p EXCEPT !.samples = @ + 1]
  IN  IF counted.samples > MaxSamples THEN [counted EXCEPT !.error = "unsafe"]
      ELSE IF counted.samples = response.refused THEN [counted EXCEPT !.error = "handler"]
      ELSE [counted EXCEPT !.handed = Append(@, entry)]

\* The loop's body for one line, of which "entry" remembers where it is from.
Line(p, kind, entry) ==
  IF kind = "blank" THEN p
  ELSE IF p.eof THEN [p EXCEPT !.error = "malformed"]
  ELSE CASE kind = "comment" -> p
         [] kind = "eof"     -> [p EXCEPT !.eof = TRUE]
         [] kind = "sample"  -> Sample(p, entry)
         [] kind = "broken"  -> [p EXCEPT !.error = "malformed"]
         [] kind = "wide"    -> [p EXCEPT !.error = "unsafe"]

\* What the start of a line's text may be taken for: a number loses digits, a
\* surplus field or a label set is cut off.
StartOf(kind) ==
  CASE kind \in {"blank", "comment"}   -> {kind}
    [] kind = "eof"                    -> {"comment"}
    [] kind \in {"sample", "broken"}   -> {"sample", "broken"}
    [] kind = "wide"                   -> {"broken", "wide"}

\* The parser after the line that was not finished, if there is one.
AtEnd ==
  LET i == received \div 3 + 1
  IN  CASE received % 3 = 0 -> {parser}
        [] received % 3 = 2 ->
             {Line(parser, response.document[i], [line |-> i, whole |-> TRUE])}
        [] received % 3 = 1 ->
             {Line(parser, kind, [line |-> i, whole |-> FALSE]) :
                kind \in StartOf(response.document[i])}

\* Mutant: no check of the last byte.
VerdictWithoutLF(p, read) ==
  IF p.error # "" THEN p.error
  ELSE IF read # "end" THEN read
  ELSE IF response.format = "openmetrics" /\ ~p.eof THEN "malformed"
  ELSE "ok"

\* What Parse returns once the scanner stops: "read" is "end", or the class of
\* scanner.Err.
Verdict(p, read) ==
  IF p.error # "" THEN p.error
  ELSE IF read # "end" THEN read
  ELSE IF response.format = "text" /\ received % 3 # 0 THEN "malformed"
  ELSE IF response.format = "openmetrics" /\ ~p.eof THEN "malformed"
  ELSE "ok"

-----------------------------------------------------------------------------
(* Scrape.                                                                 *)

Waiting == outcome = "" /\ response = NoResponse
Reading == outcome = "" /\ response # NoResponse

\* CheckRedirect: "via" holds the requests made so far.
Redirected(sameOrigin) ==
  /\ Waiting
  /\ IF hops + 1 <= MaxRedirects /\ sameOrigin
     THEN hops' = hops + 1 /\ UNCHANGED outcome
     ELSE outcome' = "transport" /\ UNCHANGED hops
  /\ UNCHANGED <<response, received, parser>>

\* No response, or one whose status, content type, content encoding or gzip
\* header is refused.
Refused ==
  /\ Waiting
  /\ outcome' \in {"transport", "authentication", "not_found", "http", "content_type", "malformed"}
  /\ UNCHANGED <<response, hops, received, parser>>

Respond ==
  /\ Waiting
  /\ \E document \in Documents : response' \in Bodies(document)
  /\ UNCHANGED <<hops, received, parser, outcome>>

\* Mutant: the reader stops at the limit, not one past it.
WithinLimitsTooSmall(n) == n < MaxDecompressed /\ n < response.packed

\* countingReader reads one byte more than its limit and then fails.
WithinLimits(n) == n <= MaxDecompressed /\ n < response.packed

Read ==
  /\ Reading /\ received < Total /\ WithinLimits(received)
  /\ received' = received + 1
  /\ parser' = IF received' % 3 = 0
               THEN Line(parser, response.document[received' \div 3],
                         [line |-> received' \div 3, whole |-> TRUE])
               ELSE parser
  /\ outcome' = parser'.error
  /\ UNCHANGED <<response, hops>>

Stop(read) ==
  /\ parser' \in AtEnd
  /\ outcome' = Verdict(parser', read)
  /\ UNCHANGED <<response, hops, received>>

EndOfBody == Reading /\ received = Total /\ WithinLimits(received) /\ Stop("end")

LimitPassed == Reading /\ ~WithinLimits(received) /\ Stop("unsafe")

\* The connection ends early: an error, except where only that end tells the
\* end of the body.
Dropped ==
  /\ Reading /\ WithinLimits(received)
  /\ Stop(IF response.framing = "close" THEN "end" ELSE "malformed")

\* The client's timeout covers the body; it is no limit error either.
DeadlinePasses == Reading /\ WithinLimits(received) /\ Stop("malformed")

Init ==
  /\ response = NoResponse /\ hops = 0 /\ received = 0
  /\ parser = NewParser /\ outcome = ""

Next ==
  \/ \E sameOrigin \in BOOLEAN : Redirected(sameOrigin)
  \/ Refused \/ Respond
  \/ Read \/ EndOfBody \/ LimitPassed \/ Dropped \/ DeadlinePasses

Spec == Init /\ [][Next]_vars

-----------------------------------------------------------------------------

\* The lines whose samples a reader of the first n lines owes its caller.
SamplesOf(n) ==
  {i \in 1..n :
     /\ response.document[i] = "sample"
     /\ \A j \in 1..i : response.document[j] # "eof"}

HandedLines == {parser.handed[k].line : k \in 1..Len(parser.handed)}

\* A scrape that succeeds has handed over every sample of the document, once,
\* in order and as it was served, although the parser hands samples over before
\* it knows how the document ends; where nothing but the end of the connection
\* tells that end, those of its first lines, never a part of a line.  Callers
\* drop what a failed scrape handed over (quarkus.go, micronaut.go, caddy.go,
\* spring_prometheus.go).
ScrapeIsExact ==
  outcome = "ok" =>
    /\ \A k \in 1..Len(parser.handed) :
         /\ parser.handed[k].whole
         /\ k > 1 => parser.handed[k - 1].line < parser.handed[k].line
    /\ IF response.framing = "close" /\ response.format = "text"
       THEN \E n \in 0..Len(response.document) : HandedLines = SamplesOf(n)
       ELSE HandedLines = SamplesOf(Len(response.document))

\* The limits are exact: a response is refused as unsafe only for a size, a
\* number of samples or a label set past its limit, and one that is past them
\* is not accepted.
LimitsAreExact ==
  /\ outcome = "ok" =>
       /\ received <= MaxDecompressed /\ received < response.packed
       /\ Cardinality(HandedLines) <= MaxSamples
  /\ outcome = "unsafe" =>
       \/ Total > MaxDecompressed
       \/ response.packed <= Total
       \/ \E i \in 1..Len(response.document) : response.document[i] = "wide"
       \/ Cardinality({i \in 1..Len(response.document) :
                         response.document[i] \in {"sample", "broken"}}) > MaxSamples

\* What a successful scrape handed over is the document, and a scrape is
\* refused for a limit just where it passes one.
ScrapesAreExact == ScrapeIsExact /\ LimitsAreExact
=============================================================================
