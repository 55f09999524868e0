--------------------------- MODULE MCSharedMutex ---------------------------
(* Three interchangeable threads and two interchangeable addresses in one  *)
(* entry of a cache: each lookup of the other loses the first.             *)
EXTENDS SharedMutex, TLC

MCSlotOf == [k \in Keys |-> 0]
Interchangeable == Permutations(Threads) \cup Permutations(Keys)
=============================================================================
