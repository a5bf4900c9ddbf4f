------------------------------ MODULE MCRecords ------------------------------
(* Records with interchangeable runs.                                      *)
EXTENDS Records, TLC

Interchangeable == Permutations(Runs)
=============================================================================
