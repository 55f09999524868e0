-------------------------- MODULE MCTransientSlots --------------------------
(***************************************************************************)
(* Four threads for three slots.  Three of them start at the last slot, so *)
(* that probing wraps and threads race for the same free slots; the fourth *)
(* starts at the first slot.                                               *)
(***************************************************************************)
EXTENDS TransientSlots

CONSTANTS a, b, c, d

MCThreads == {a, b, c, d}
MCHome == [t \in MCThreads |-> IF t = d THEN 0 ELSE 2]
=============================================================================
