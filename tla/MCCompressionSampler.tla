------------------------ MODULE MCCompressionSampler ------------------------
(***************************************************************************)
(* Three threads and two sample slots: one thread always finds both slots  *)
(* taken while the others hold them.  The threads are interchangeable.     *)
(***************************************************************************)
EXTENDS CompressionSampler, TLC

Interchangeable == Permutations(Threads)
=============================================================================
