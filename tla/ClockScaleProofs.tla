-------------------------- MODULE ClockScaleProofs --------------------------
(***************************************************************************)
(* scale_ticks is exact for every word size, every usable frequency and    *)
(* every tick count, and therefore never goes back.                        *)
(***************************************************************************)
EXTENDS ClockScale, TLAPS

(* Division by a positive number, in the form the provers can use.         *)
LEMMA Division ==
  ASSUME NEW n \in Int, NEW d \in Nat \ {0}
  PROVE  /\ n \div d \in Int
         /\ n % d \in 0 .. d - 1
         /\ n = d * (n \div d) + (n % d)
  OBVIOUS

(* What is in range is not changed by wrapping around.                     *)
LEMMA NoWrap ==
  ASSUME NEW m \in Nat \ {0}, NEW n \in 0 .. m - 1
  PROVE  n % m = n
  OBVIOUS

LEMMA ProductInInt ==
  ASSUME NEW a \in Int, NEW b \in Int
  PROVE  a * b \in Int
  OBVIOUS

LEMMA ProductInNat ==
  ASSUME NEW a \in Nat, NEW b \in Nat
  PROVE  a * b \in Nat
  OBVIOUS

(* Multiplying by a positive number keeps the order, both ways.            *)
LEMMA MultiplyLess ==
  ASSUME NEW a \in Int, NEW b \in Int, NEW d \in Nat \ {0}, a < b
  PROVE  a * d < b * d
  OBVIOUS

LEMMA MultiplyAtMost ==
  ASSUME NEW a \in Int, NEW b \in Int, NEW d \in Nat, a <= b
  PROVE  a * d <= b * d
  OBVIOUS

LEMMA CancelLess ==
  ASSUME NEW a \in Int, NEW b \in Int, NEW d \in Nat \ {0}, a * d < b * d
  PROVE  a < b
  OBVIOUS

LEMMA CancelAtMost ==
  ASSUME NEW a \in Int, NEW b \in Int, NEW d \in Nat \ {0}, a * d <= b * d
  PROVE  a <= b
  OBVIOUS

(* The product of two words fits a double word.                            *)
LEMMA ProductOfWords ==
  ASSUME NEW a \in 0 .. Word - 1, NEW b \in 0 .. Word - 1, Word \in Nat \ {0}
  PROVE  a * b \in 0 .. Word * Word - 1
<1>1. a \in Nat /\ b \in Nat /\ a < Word /\ b < Word
  OBVIOUS
<1>2. a * b \in Nat /\ Word * b \in Int /\ Word * Word \in Int
  BY <1>1
<1>3. a * b <= Word * b
  BY <1>1, MultiplyAtMost
<1>4. b * Word < Word * Word
  BY <1>1, MultiplyLess
<1>5. b * Word = Word * b
  BY <1>1
<1>. QED
  BY <1>2, <1>3, <1>4, <1>5

(* The quotient is the only number whose product is near enough.           *)
LEMMA Quotient ==
  ASSUME NEW n \in Int, NEW d \in Nat \ {0}, NEW k \in Int,
         k * d <= n, n < (k + 1) * d
  PROVE  n \div d = k
<1>. DEFINE j == n \div d
<1>1. j \in Int /\ d * j <= n /\ n < d * j + d
  BY Division
<1>. HIDE DEF j
<1>2. d * j = j * d /\ d * j + d = (j + 1) * d /\ j * d \in Int /\ k * d \in Int
  BY <1>1
<1>3. k * d < (j + 1) * d /\ j * d < (k + 1) * d
  <2>1. (j + 1) * d \in Int /\ (k + 1) * d \in Int
    BY <1>1
  <2>. QED
    BY <1>1, <1>2, <2>1
<1>4. k < j + 1 /\ j < k + 1
  BY <1>1, <1>3, CancelLess
<1>. QED
  BY <1>1, <1>4 DEF j

-----------------------------------------------------------------------------
(* The parameters, as integers.                                            *)
LEMMA Parameters ==
  /\ Billion \in Nat \ {0}
  /\ Word \in Nat \ {0}
  /\ Billion < Word
  /\ Word * Word \in Nat \ {0}
<1>1. Billion \in Nat \ {0} /\ Word \in Nat \ {0} /\ Billion < Word
  BY ScaleAssumption
<1>. QED
  BY <1>1

(* The reciprocal of a frequency above one gigahertz fits a word and lies  *)
(* within one of the exact ratio.                                          *)
LEMMA ReciprocalBounds ==
  ASSUME NEW f \in Billion + 1 .. Word - 1
  PROVE  /\ Reciprocal(f) \in 0 .. Word - 1
         /\ Reciprocal(f) * f <= Billion * Word
         /\ Billion * Word < (Reciprocal(f) + 1) * f
<1>. DEFINE q == (Billion * Word) \div f
<1>1. f \in Nat \ {0} /\ f # Billion /\ Billion < f /\ f < Word
  BY Parameters
<1>2. Billion * Word \in 0 .. Word * Word - 1
  <2>1. Billion * Word < Word * Word
    BY Parameters, MultiplyLess
  <2>. QED
    BY <2>1, Parameters
<1>3. /\ q \in Int /\ f * q <= Billion * Word /\ Billion * Word < f * q + f
  <2>. DEFINE n == Billion * Word
  <2>1. n \in Int
    BY Parameters, ProductInInt
  <2>. HIDE DEF n
  <2>2. n \div f \in Int /\ f * (n \div f) <= n /\ n < f * (n \div f) + f
    BY <1>1, <2>1, Division
  <2>. QED
    BY <2>2 DEF n
<1>. HIDE DEF q
<1>4. /\ f * q = q * f /\ f * q + f = (q + 1) * f
  BY <1>1, <1>3
<1>5. q < Word
  <2>1. Billion * Word < f * Word
    BY <1>1, Parameters, MultiplyLess
  <2>2. f * Word = Word * f
    BY <1>1, Parameters
  <2>3. q * f \in Int /\ Word * f \in Int
    BY <1>1, <1>3, Parameters
  <2>4. q * f < Word * f
    BY <1>2, <1>3, <1>4, <2>1, <2>2, <2>3
  <2>. QED
    BY <1>1, <1>3, <2>4, Parameters, CancelLess
<1>6. 0 <= q
  <2>1. 0 * f < (q + 1) * f
    <3>1. 0 * f = 0 /\ (q + 1) * f \in Int
      BY <1>1, <1>3
    <3>. QED
      BY <1>2, <1>3, <1>4, <3>1
  <2>2. 0 < q + 1
    BY <1>1, <1>3, <2>1, CancelLess
  <2>. QED
    BY <1>3, <2>2
<1>7. Reciprocal(f) = q
  <2>1. Wide(Billion * Word) = Billion * Word
    BY <1>2, Parameters, NoWrap DEF Wide
  <2>2. q % Word = q
    BY <1>3, <1>5, <1>6, Parameters, NoWrap
  <2>. QED
    BY <1>1, <2>1, <2>2 DEF Reciprocal, Narrow, q
<1>8. q * f <= Billion * Word /\ Billion * Word < (q + 1) * f
  BY <1>3, <1>4
<1>9. q \in 0 .. Word - 1
  BY <1>3, <1>5, <1>6, Parameters
<1>. QED
  BY <1>7, <1>8, <1>9

-----------------------------------------------------------------------------
(* The scale that install keeps.                                           *)
ScaleInv ==
  /\ frequency \in Billion .. Word - 1
  /\ reciprocal = Reciprocal(frequency)
  /\ ticks \in 0 .. Word - 1

(* The estimate falls short by less than two, and its successor fits.      *)
LEMMA EstimateBounds ==
  ASSUME ScaleInv, frequency # Billion, NEW t \in 0 .. Word - 1
  PROVE  /\ Approximate(t) \in 0 .. Word - 2
         /\ Approximate(t) * frequency <= t * Billion
         /\ t * Billion < (Approximate(t) + 2) * frequency
<1>. DEFINE f == frequency
            q == reciprocal
            n == t * q
            a == n \div Word
<1>1. /\ f \in Nat \ {0} /\ f < Word /\ f \in Billion + 1 .. Word - 1
      /\ t \in Nat /\ t < Word /\ t <= Word - 1
  BY Parameters DEF ScaleInv
<1>2. /\ q \in 0 .. Word - 1
      /\ q * f <= Billion * Word
      /\ Billion * Word < (q + 1) * f
  BY <1>1, ReciprocalBounds DEF ScaleInv
<1>. HIDE DEF f, q
<1>3. n \in 0 .. Word * Word - 1
  BY <1>2, Parameters, ProductOfWords
<1>4. a \in Int /\ Word * a <= n /\ n < Word * a + Word
  <2>1. n \in Int
    BY <1>3
  <2>. HIDE DEF n
  <2>. QED
    BY <2>1, Parameters, Division DEF a
<1>5. Approximate(t) = Narrow(a)
  <2>1. Wide(n) = n
    <3>. HIDE DEF n
    <3>. QED
      BY <1>3, Parameters, NoWrap DEF Wide
  <2>. QED
    BY <2>1 DEF Approximate, q
<1>. HIDE DEF a
<1>6. a \in 0 .. Word - 2
  <2>1. q <= Word - 1 /\ q \in Nat
    BY <1>2, Parameters
  <2>2. n <= (Word - 1) * q
    BY <1>1, <2>1, Parameters, MultiplyAtMost
  <2>3. CASE q = 0
    <3>1. n = 0
      BY <2>3, <1>1
    <3>. HIDE DEF n
    <3>2. Word * a <= 0 /\ 0 < Word * a + Word
      BY <1>4, <3>1
    <3>3. a * Word < 1 * Word /\ (-1) * Word < a * Word
      BY <1>4, <3>2, Parameters
    <3>4. a < 1 /\ -1 < a
      BY <1>4, <3>3, Parameters, CancelLess
    <3>. QED
      BY <1>4, <3>4, Parameters
  <2>4. CASE q > 0
    <3>1. (Word - 1) * q < Word * q
      BY <2>1, <2>4, Parameters, MultiplyLess
    <3>2. /\ Word * q = q * Word
          /\ (Word - 1) * q \in Int /\ q * Word \in Int
      BY <2>1, Parameters
    <3>3. n < q * Word
      BY <1>3, <2>2, <3>1, <3>2
    <3>. HIDE DEF n
    <3>4. Word * a = a * Word /\ Word * a + Word = (a + 1) * Word /\ a * Word \in Int
      BY <1>4, Parameters
    <3>5. a * Word < q * Word
      BY <1>3, <1>4, <3>2, <3>3, <3>4
    <3>6. a < q
      BY <1>4, <2>1, <3>5, Parameters, CancelLess
    <3>7. 0 * Word < (a + 1) * Word
      <4>1. 0 * Word = 0 /\ (a + 1) * Word \in Int
        BY <1>4, Parameters
      <4>. QED
        BY <1>3, <1>4, <3>4, <4>1
    <3>8. 0 < a + 1
      BY <1>4, <3>7, Parameters, CancelLess
    <3>. QED
      BY <1>4, <2>1, <3>6, <3>8, Parameters
  <2>. QED
    BY <2>1, <2>3, <2>4
<1>7. Approximate(t) = a
  BY <1>5, <1>6, Parameters, NoWrap DEF Narrow
<1>8. a * f <= t * Billion
  <2>1. (a * Word) * f <= n * f
    <3>1. a * Word \in Int /\ a * Word = Word * a
      BY <1>4, Parameters
    <3>2. n \in Int
      BY <1>3
    <3>. HIDE DEF n
    <3>. QED
      BY <1>1, <1>4, <3>1, <3>2, MultiplyAtMost
  <2>2. (q * f) * t <= (Billion * Word) * t
    <3>1. q * f \in Int /\ Billion * Word \in Int
      BY <1>1, <1>2, Parameters
    <3>. QED
      BY <1>1, <1>2, <3>1, MultiplyAtMost
  <2>3. /\ (q * f) * t = n * f
        /\ (Billion * Word) * t = (t * Billion) * Word
        /\ (a * Word) * f = (a * f) * Word
    BY <1>1, <1>2, <1>4, Parameters
  <2>4. n * f \in Int /\ (a * f) * Word \in Int /\ (t * Billion) * Word \in Int
        /\ a * f \in Int /\ t * Billion \in Int
    BY <1>1, <1>3, <1>4, Parameters, ProductInInt
  <2>. HIDE DEF n
  <2>5. (a * f) * Word <= (t * Billion) * Word
    BY <2>1, <2>2, <2>3, <2>4
  <2>. QED
    BY <2>4, <2>5, Parameters, CancelAtMost
<1>9. t * Billion < (a + 2) * f
  <2>1. (Billion * Word) * t <= ((q + 1) * f) * t
    <3>1. (q + 1) * f \in Int /\ Billion * Word \in Int
      BY <1>1, <1>2, Parameters
    <3>. QED
      BY <1>1, <1>2, <3>1, MultiplyAtMost
  <2>2. ((q + 1) * f) * t = n * f + t * f
    BY <1>1, <1>2
  <2>3. n * f < ((a + 1) * Word) * f
    <3>1. (a + 1) * Word = Word * a + Word /\ (a + 1) * Word \in Int
      BY <1>4, Parameters
    <3>2. n \in Int
      BY <1>3
    <3>. HIDE DEF n
    <3>. QED
      BY <1>1, <1>4, <3>1, <3>2, MultiplyLess
  <2>4. t * f < Word * f
    BY <1>1, Parameters, MultiplyLess
  <2>5. /\ ((a + 1) * Word) * f + Word * f = ((a + 2) * f) * Word
        /\ (Billion * Word) * t = (t * Billion) * Word
    BY <1>1, <1>4, Parameters
  <2>6. /\ n * f \in Int /\ t * f \in Int /\ Word * f \in Int
        /\ ((a + 1) * Word) * f \in Int
        /\ (t * Billion) * Word \in Int
        /\ (a + 2) * f \in Int /\ t * Billion \in Int
        /\ ((a + 2) * f) * Word \in Int
    BY <1>1, <1>3, <1>4, Parameters, ProductInInt
  <2>. HIDE DEF n
  <2>7. (t * Billion) * Word < ((a + 2) * f) * Word
    BY <2>1, <2>2, <2>3, <2>4, <2>5, <2>6
  <2>. QED
    BY <2>6, <2>7, Parameters, CancelLess
<1>. QED
  BY <1>6, <1>7, <1>8, <1>9 DEF f

(* One comparison restores the unit that the estimate may lack.            *)
LEMMA ScaledExactly ==
  ASSUME ScaleInv, NEW t \in 0 .. Word - 1
  PROVE  Scaled(t) = (t * Billion) \div frequency
<1>0. frequency \in Nat \ {0} /\ frequency \in 0 .. Word - 1 /\ t \in Nat
  BY Parameters DEF ScaleInv
<1>1. CASE frequency = Billion
  <2>1. /\ t * frequency <= t * Billion
        /\ t * Billion < (t + 1) * frequency
        /\ t * Billion \in Int
    BY <1>0, <1>1
  <2>2. (t * Billion) \div frequency = t
    BY <1>0, <2>1, Quotient
  <2>. QED
    BY <1>1, <2>2 DEF Scaled
<1>2. CASE frequency # Billion
  <2>. DEFINE a == Approximate(t)
  <2>1. /\ a \in 0 .. Word - 2
        /\ a * frequency <= t * Billion
        /\ t * Billion < (a + 2) * frequency
    BY <1>2, EstimateBounds
  <2>. HIDE DEF a
  <2>2. Narrow(a + 1) = a + 1 /\ Narrow(a) = a
    BY <2>1, Parameters, NoWrap DEF Narrow
  <2>3. Wide((a + 1) * frequency) = (a + 1) * frequency
    <3>1. (a + 1) * frequency \in 0 .. Word * Word - 1
      BY <1>0, <2>1, Parameters, ProductOfWords
    <3>. QED
      BY <3>1, Parameters, NoWrap DEF Wide
  <2>4. Wide(t * Billion) = t * Billion
    <3>1. Billion \in 0 .. Word - 1
      BY Parameters
    <3>2. t * Billion \in 0 .. Word * Word - 1
      BY <3>1, Parameters, ProductOfWords
    <3>. QED
      BY <3>2, Parameters, NoWrap DEF Wide
  <2>5. RoundUp(t) <=> (a + 1) * frequency <= t * Billion
    BY <2>2, <2>3, <2>4 DEF RoundUp, a
  <2>6. t * Billion \in Int /\ (a + 1) * frequency \in Int
    BY <1>0, <2>1, Parameters
  <2>7. CASE RoundUp(t)
    <3>1. (t * Billion) \div frequency = a + 1
      <4>. DEFINE k == a + 1
                  n == t * Billion
      <4>1. k \in Int /\ k + 1 = a + 2
        BY <2>1
      <4>2. n \in Int /\ k * frequency <= n /\ n < (k + 1) * frequency
        BY <2>1, <2>5, <2>6, <2>7, <4>1
      <4>. HIDE DEF k, n
      <4>3. n \div frequency = k
        BY <1>0, <4>1, <4>2, Quotient
      <4>. QED
        BY <4>3 DEF k, n
    <3>. QED
      BY <1>2, <2>2, <2>7, <3>1 DEF Scaled, a
  <2>8. CASE ~RoundUp(t)
    <3>1. (t * Billion) \div frequency = a
      BY <1>0, <2>1, <2>5, <2>6, <2>8, Quotient
    <3>2. a + 0 = a
      BY <2>1
    <3>. QED
      BY <1>2, <2>2, <2>8, <3>1, <3>2 DEF Scaled, a
  <2>. QED
    BY <2>7, <2>8
<1>. QED
  BY <1>1, <1>2

(* Division keeps the order.                                               *)
LEMMA DivisionMonotone ==
  ASSUME NEW m \in Int, NEW n \in Int, NEW d \in Nat \ {0}, m <= n
  PROVE  m \div d <= n \div d
<1>. DEFINE i == m \div d
            j == n \div d
<1>1. /\ i \in Int /\ d * i <= m
      /\ j \in Int /\ n < d * j + d
  BY Division
<1>. HIDE DEF i, j
<1>2. d * i = i * d /\ d * j + d = (j + 1) * d /\ i * d \in Int /\ (j + 1) * d \in Int
  BY <1>1
<1>3. i * d < (j + 1) * d
  BY <1>1, <1>2
<1>4. i < j + 1
  BY <1>1, <1>3, CancelLess
<1>. QED
  BY <1>1, <1>4 DEF i, j

-----------------------------------------------------------------------------
LEMMA ScaleInvHolds == Spec => []ScaleInv
<1>1. Init => ScaleInv
  <2>. SUFFICES ASSUME Init PROVE ScaleInv
    OBVIOUS
  <2>1. frequency \in 0 .. Word - 1 /\ Billion <= frequency
    BY ScaleAssumption DEF Init, Usable
  <2>. QED
    BY <2>1, Parameters DEF Init, ScaleInv
<1>2. ScaleInv /\ [Next]_vars => ScaleInv'
  <2>. SUFFICES ASSUME ScaleInv, [Next]_vars PROVE ScaleInv'
    OBVIOUS
  <2>1. CASE Next
    <3>1. ticks' \in 0 .. Word - 1
      BY <2>1, Parameters DEF Next, Read, ScaleInv
    <3>. QED
      BY <2>1, <3>1 DEF Next, Read, ScaleInv, Reciprocal
  <2>2. CASE UNCHANGED vars
    BY <2>2 DEF vars, ScaleInv, Reciprocal
  <2>. QED
    BY <2>1, <2>2
<1>. QED
  BY <1>1, <1>2, PTL DEF Spec

(* For every usable frequency and every uint64_t, the conversion is the    *)
(* division it avoids.                                                     *)
THEOREM AlwaysExact == Spec => []Exact
<1>1. ScaleInv => Exact
  BY ScaledExactly DEF Exact, ScaleInv
<1>. QED
  BY <1>1, ScaleInvHolds, PTL

(* Nanoseconds never go back while ticks do not.                           *)
THEOREM NeverGoesBack == Spec => NeverBack
<1>1. ScaleInv /\ ScaleInv' /\ [Next]_vars => [Scaled(ticks') >= Scaled(ticks)]_vars
  <2>. SUFFICES ASSUME ScaleInv, ScaleInv', Next
                PROVE  Scaled(ticks') >= Scaled(ticks)
    BY DEF vars
  <2>1. /\ ticks \in 0 .. Word - 1 /\ ticks' \in 0 .. Word - 1
        /\ ticks < ticks' /\ frequency \in Nat \ {0}
    BY Parameters DEF Next, Read, ScaleInv
  <2>2. /\ Scaled(ticks) = (ticks * Billion) \div frequency
        /\ Scaled(ticks') = (ticks' * Billion) \div frequency
    BY <2>1, ScaledExactly
  <2>3. ticks * Billion <= ticks' * Billion
    <3>1. ticks \in Int /\ ticks' \in Int /\ ticks <= ticks' /\ Billion \in Nat
      BY <2>1, Parameters
    <3>. QED
      BY <3>1, MultiplyAtMost
  <2>4. ticks * Billion \in Int /\ ticks' * Billion \in Int
    BY <2>1, Parameters
  <2>5. (ticks * Billion) \div frequency <= (ticks' * Billion) \div frequency
    BY <2>1, <2>3, <2>4, DivisionMonotone
  <2>6. /\ (ticks * Billion) \div frequency \in Int
        /\ (ticks' * Billion) \div frequency \in Int
    BY <2>1, <2>4, Division
  <2>. QED
    BY <2>2, <2>5, <2>6
<1>. QED
  BY <1>1, ScaleInvHolds, PTL DEF Spec, NeverBack
=============================================================================
