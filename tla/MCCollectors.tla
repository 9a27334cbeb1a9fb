----------------------------- MODULE MCCollectors -----------------------------
(***************************************************************************)
(* Three collectors' ends for TLC, checked one beside the other: the       *)
(* collector of a Spring application, the scrape of an exposition and the  *)
(* collector of a Caddy host.  "part" says which of them a behaviour is    *)
(* about; it never changes, and neither do the variables of the others.    *)
(***************************************************************************)
EXTENDS SpringCollector

CONSTANTS
  MaxRedirects, MaxDecompressed, MaxSamples,  \* Limits, bounding the documents too
  MaxLines,
  Labels, Servers, MaxTuples, MaxRequests, MaxResets, MaxScrapes  \* of a Caddy host

ASSUME BoundsAssumption ==
  /\ MaxRedirects \in Nat /\ MaxLines \in Nat
  /\ MaxDecompressed \in Nat \ {0} /\ MaxSamples \in Nat \ {0}

\* Caddy labels with a status and one of a few methods.
ASSUME LabelsAssumption ==
  /\ IsFiniteSet(Labels)
  /\ \A l \in Labels : l.code \in 100..599 /\ l = [code |-> l.code, method |-> l.method]

VARIABLES
  part,
  response, hops, received, parser, outcome,
  server, exposed, traffic, baseline, known, from, before, good, resets,
  deltas, scrapes  \* result and collections of Caddy's collector

Scrape == INSTANCE Exposition

Caddy ==
  INSTANCE CaddyCollector WITH
    MaxCollections <- MaxScrapes, result <- deltas, collections <- scrapes

\* One method answers 404 and 502, another 200.
SomeLabels ==
  {[code |-> 404, method |-> "GET"], [code |-> 502, method |-> "GET"],
   [code |-> 200, method |-> "POST"]}

springVars == vars
scrapeVars == <<response, hops, received, parser, outcome>>
caddyVars == <<server, exposed, traffic, baseline, known, from, before, good, resets,
               deltas, scrapes>>
allVars == <<part, springVars, scrapeVars, caddyVars>>

Unused == "unused"

NoScrape ==
  /\ response = Unused /\ hops = Unused /\ received = Unused /\ parser = Unused
  /\ outcome = Unused
NoCaddy ==
  /\ server = Unused /\ exposed = Unused /\ traffic = Unused /\ baseline = Unused
  /\ known = Unused /\ from = Unused /\ before = Unused /\ good = Unused
  /\ resets = Unused /\ deltas = Unused /\ scrapes = Unused

CollectorsInit ==
  /\ Init
  /\ \/ part = "spring" /\ NoScrape /\ NoCaddy
     \/ part = "scrape" /\ Scrape!Init /\ NoCaddy
     \/ part = "caddy" /\ Caddy!Init /\ NoScrape

CollectorsNext ==
  /\ UNCHANGED part
  /\ \/ part = "spring" /\ Next /\ UNCHANGED <<scrapeVars, caddyVars>>
     \/ part = "scrape" /\ Scrape!Next /\ UNCHANGED <<springVars, caddyVars>>
     \/ part = "caddy" /\ Caddy!Next /\ UNCHANGED <<springVars, scrapeVars>>

CollectorsSpec == CollectorsInit /\ [][CollectorsNext]_allVars

-----------------------------------------------------------------------------

\* What a successful scrape handed over is the document, and it is refused for
\* a limit just where it passes one (Exposition.ScrapesAreExact).
ScrapesAreExact == part = "scrape" => Scrape!ScrapesAreExact

\* The deltas of a Caddy host were served (CaddyCollector.DeltasAreServed).
DeltasAreServed == part = "caddy" => Caddy!DeltasAreServed
=============================================================================
