---------------------------- MODULE MCClockScale ----------------------------
(* A word of 7 bits and a "billion" of 5: the frequencies are 5 to 50, and *)
(* a few that make_clock_scale refuses.                                    *)
EXTENDS ClockScale

MCRates == 3 .. 53
=============================================================================
