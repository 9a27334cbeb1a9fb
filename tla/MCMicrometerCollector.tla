------------------------ MODULE MCMicrometerCollector ------------------------
(* Constants of the run of MicrometerCollector.                            *)
EXTENDS MicrometerCollector

\* A 404, a 500 and one whose labels the validator rejects.
SomeSeries == {[id |-> 1, code |-> 404], [id |-> 2, code |-> 500], [id |-> 3, code |-> 0]}

SomeValues == {-1, 1, 2}
=============================================================================
