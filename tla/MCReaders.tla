------------------------------ MODULE MCReaders ------------------------------
(* The values TLC gives the constants of Readers.                          *)
EXTENDS Readers

\* A target that always reports its process start time.
StartOnly == {{"start"}}
=============================================================================
