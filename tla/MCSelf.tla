------------------------------- MODULE MCSelf -------------------------------
(***************************************************************************)
(* The two halves of StatLite's metrics about itself for TLC, checked one  *)
(* beside the other: "part" says which of them a behaviour is about; it    *)
(* never changes, and neither do the variables of the other.               *)
(***************************************************************************)
EXTENDS SelfResources, FiniteSets, TLC

CONSTANTS Handlers, Headers, Durations, MaxWrites, MaxRequests, MaxScrapes

ASSUME HandlersAssumption == IsFiniteSet(Handlers)
ASSUME HeadersAssumption == Headers \subseteq 100..599
ASSUME DurationsAssumption == Durations \subseteq Nat /\ IsFiniteSet(Durations)
ASSUME BoundsAssumption ==
  MaxWrites \in Nat /\ MaxRequests \in Nat /\ MaxScrapes \in Nat

\* A capacity that is used up and one that cannot be.
UsedUpOrImpossible == {[total |-> 1, available |-> 0], [total |-> 1, available |-> 2]}

VARIABLES
  part, total, pc, recorder, took, current, document, loading, between, scrapes, answered

Requests == INSTANCE SelfMetrics

Symmetry == Permutations(Handlers) \cup Permutations(Scrapes)

resourcesVars == vars
requestsVars ==
  <<total, pc, recorder, took, current, document, loading, between, scrapes, answered>>
allVars == <<part, resourcesVars, requestsVars>>

SelfInit == Init /\ Requests!Init /\ part \in {"resources", "requests"}

SelfNext ==
  /\ UNCHANGED part
  /\ \/ part = "resources" /\ Next /\ UNCHANGED requestsVars
     \/ part = "requests" /\ Requests!Next /\ UNCHANGED resourcesVars

SelfSpec == SelfInit /\ [][SelfNext]_allVars

-----------------------------------------------------------------------------

\* The request counters add up (SelfMetrics.MetricsAddUp).
MetricsAddUp == Requests!MetricsAddUp
=============================================================================
