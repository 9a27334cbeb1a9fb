----------------------------- MODULE MCDatabase -----------------------------
(* Constants of the runs of Database.                                      *)
EXTENDS Database, TLC

Symmetry == Permutations(Processes) \cup Permutations(Names) \cup Permutations(Types)

=============================================================================
