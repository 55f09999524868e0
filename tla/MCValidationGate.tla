-------------------------- MODULE MCValidationGate --------------------------
(* Three interchangeable threads; two comparisons open a gate.             *)
EXTENDS ValidationGate, TLC

Interchangeable == Permutations(Threads)
=============================================================================
