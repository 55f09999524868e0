----------------------------- MODULE ClockScale -----------------------------
(***************************************************************************)
(* The clock's conversion of ticks to nanoseconds (timing/monotonic): a    *)
(* multiplication by a reciprocal and a correction instead of a division.  *)
(* Words and double words wrap around as the machine's do.                 *)
(*                                                                         *)
(* A definition whose comment starts with "Slip:" is no part of the model. *)
(***************************************************************************)
EXTENDS Integers

CONSTANTS
  Billion,      \* 10^9: nanoseconds in a second
  Word,         \* 2^64: the values of a std::uint64_t
  Rates         \* the frequencies the kernel may report

ASSUME ScaleAssumption ==
  /\ Billion \in Nat \ {0}
  /\ Word \in Nat
  /\ 10 * Billion < Word
  /\ Rates \subseteq 0 .. Word - 1

Wide(n) == n % (Word * Word)    \* unsigned __int128
Narrow(n) == n % Word           \* std::uint64_t

VARIABLES
  frequency,    \* clock_scale.frequency
  reciprocal,   \* clock_scale.reciprocal
  ticks         \* elapsed_ticks of the last reading

vars == <<frequency, reciprocal, ticks>>

TypeOK ==
  /\ frequency \in Billion .. 10 * Billion
  /\ reciprocal \in 0 .. Word - 1
  /\ ticks \in 0 .. Word - 1

-----------------------------------------------------------------------------
(* The check of make_clock_scale, and of kernel_tsc_frequency before it.   *)
Usable(f) == f >= Billion /\ f <= 10 * Billion

(* make_clock_scale                                                        *)
Reciprocal(f) ==
  IF f = Billion THEN 0 ELSE Narrow(Wide(Billion * Word) \div f)

Approximate(t) == Narrow(Wide(t * reciprocal) \div Word)

(* Slip: the products that decide the correction are single words.         *)
RoundUpNarrow(t) ==
  Narrow(Narrow(Approximate(t) + 1) * frequency) <= Narrow(t * Billion)

(* Slip: an estimate that lacks exactly one unit is not corrected.         *)
RoundUpStrictly(t) ==
  Wide(Narrow(Approximate(t) + 1) * frequency) < Wide(t * Billion)

RoundUp(t) ==
  Wide(Narrow(Approximate(t) + 1) * frequency) <= Wide(t * Billion)

(* scale_ticks                                                             *)
Scaled(t) ==
  IF frequency = Billion THEN t
  ELSE Narrow(Approximate(t) + (IF RoundUp(t) THEN 1 ELSE 0))

-----------------------------------------------------------------------------
(* install: the clock is only replaced if the frequency is usable.         *)
Init ==
  /\ frequency \in {f \in Rates : Usable(f)}
  /\ reciprocal = Reciprocal(frequency)
  /\ ticks = 0

(* fast_clock reads the counter later.                                     *)
Read ==
  /\ ticks' \in ticks + 1 .. Word - 1
  /\ UNCHANGED <<frequency, reciprocal>>

Next == Read
Spec == Init /\ [][Next]_vars

(* scale_ticks is exact, "for every uint64_t t": it is the division that   *)
(* it avoids.                                                              *)
Exact == Scaled(ticks) = (ticks * Billion) \div frequency

(* A later reading is never earlier in nanoseconds.                        *)
NeverBack == [][Scaled(ticks') >= Scaled(ticks)]_vars
=============================================================================
