------------------------ MODULE PlannedRenderProofs -------------------------
(***************************************************************************)
(* What a render computes before it starts and leaves behind when it is    *)
(* complete, for every size of column, halo and window, every center and   *)
(* radius that a command can name, and every column BDS may store: TLC     *)
(* sees the same facts on small squares (MCRenderPlan).  In this order:    *)
(*                                                                         *)
(*   - squares of blocks and the columns they touch;                       *)
(*   - sorting by keys, the bits of a number, the two orders of a plan;    *)
(*   - what a plan looks like, and what it promises the job;               *)
(*   - the properties of PlannedRender that are about the plan;            *)
(*   - the inspector's verdict on a column, and on what a render wrote.    *)
(***************************************************************************)
EXTENDS PlannedRender, FiniteSetTheorems, TLAPS

-----------------------------------------------------------------------------
(* Columns of blocks and squares of columns.                               *)

(* Division by a positive number, in the form the provers can use.         *)
LEMMA Division ==
  ASSUME NEW n \in Int, NEW d \in Nat \ {0}
  PROVE  /\ n \div d \in Int
         /\ n % d \in 0 .. d - 1
         /\ n = d * (n \div d) + (n % d)
  OBVIOUS

(* A product of integers is an integer, and multiplying by a positive      *)
(* number keeps the order.                                                 *)
LEMMA Scaled ==
  ASSUME NEW a \in Int, NEW b \in Int, NEW d \in Nat \ {0}, d * a < d * b
  PROVE  a < b
  OBVIOUS

(* block_to_chunk rounds down on both sides of zero: every block lies in   *)
(* the column it is given.                                                 *)
THEOREM BlockInItsColumn ==
  ASSUME NEW block \in Int
  PROVE  /\ BlockToChunk(block) \in Int
         /\ ChunkSize * BlockToChunk(block) <= block
         /\ block < ChunkSize * BlockToChunk(block) + ChunkSize
<1>. ChunkSize \in Nat \ {0}
  BY PlanAssumption
<1>1. CASE block >= 0
  BY <1>1, Division DEF BlockToChunk
<1>2. CASE block < 0
  <2>. DEFINE up == -block + (ChunkSize - 1)
  <2>1. up \in Int
    OBVIOUS
  <2>2. /\ up \div ChunkSize \in Int
        /\ up % ChunkSize \in 0 .. ChunkSize - 1
        /\ up = ChunkSize * (up \div ChunkSize) + (up % ChunkSize)
    BY <2>1, Division
  <2>3. BlockToChunk(block) = -(up \div ChunkSize)
    BY <1>2 DEF BlockToChunk
  <2>4. ChunkSize * (-(up \div ChunkSize)) = -(ChunkSize * (up \div ChunkSize))
    BY <2>2
  <2>. HIDE DEF up
  <2>5. /\ -block <= ChunkSize * (up \div ChunkSize)
        /\ ChunkSize * (up \div ChunkSize) <= up
    BY <2>1, <2>2 DEF up
  <2>. QED
    BY <2>2, <2>3, <2>4, <2>5 DEF up
<1>. QED
  BY <1>1, <1>2

-----------------------------------------------------------------------------
(* Targets.                                                                *)

(* The blocks of column c along one axis.                                  *)
BlocksOf(c) == {b \in Int : ChunkSize * c <= b /\ b < ChunkSize * c + ChunkSize}

(* No other column holds a block of column c.                              *)
LEMMA ColumnOfBlock ==
  ASSUME NEW c \in Int, NEW b \in BlocksOf(c)
  PROVE  BlockToChunk(b) = c
<1>. DEFINE k == BlockToChunk(b)
<1>0. ChunkSize \in Nat \ {0} /\ b \in Int
  BY PlanAssumption DEF BlocksOf
<1>1. k \in Int /\ ChunkSize * k <= b /\ b < ChunkSize * k + ChunkSize
  BY <1>0, BlockInItsColumn
<1>2. ChunkSize * c <= b /\ b < ChunkSize * c + ChunkSize
  BY DEF BlocksOf
<1>. HIDE DEF k
<1>3. /\ ChunkSize * c \in Int /\ ChunkSize * k \in Int
      /\ ChunkSize * (c + 1) = ChunkSize * c + ChunkSize
      /\ ChunkSize * (k + 1) = ChunkSize * k + ChunkSize
  BY <1>0, <1>1
<1>4. c < k + 1
  BY <1>0, <1>1, <1>2, <1>3, Scaled
<1>5. k < c + 1
  BY <1>0, <1>1, <1>2, <1>3, Scaled
<1>6. k = c
  BY <1>1, <1>4, <1>5
<1>. QED
  BY <1>6 DEF k

(* block_to_chunk keeps the order of blocks.                               *)
LEMMA BlockToChunkMonotone ==
  ASSUME NEW a \in Int, NEW b \in Int, a <= b
  PROVE  BlockToChunk(a) <= BlockToChunk(b)
<1>. DEFINE i == BlockToChunk(a)
            j == BlockToChunk(b)
<1>0. ChunkSize \in Nat \ {0}
  BY PlanAssumption
<1>1. i \in Int /\ ChunkSize * i <= a
  BY BlockInItsColumn
<1>2. j \in Int /\ b < ChunkSize * j + ChunkSize
  BY BlockInItsColumn
<1>. HIDE DEF i, j
<1>3. /\ ChunkSize * i \in Int /\ ChunkSize * j \in Int
      /\ ChunkSize * (j + 1) = ChunkSize * j + ChunkSize
  BY <1>0, <1>1, <1>2
<1>4. i < j + 1
  BY <1>0, <1>1, <1>2, <1>3, Scaled
<1>5. i <= j
  BY <1>1, <1>2, <1>4
<1>. QED
  BY <1>5 DEF i, j

(* Along one axis, the columns from the first block's to the last block's  *)
(* are those that hold a block between the two.                            *)
LEMMA ColumnsBetween ==
  ASSUME NEW low \in Int, NEW high \in Int, low <= high, NEW c \in Int
  PROVE  c \in BlockToChunk(low) .. BlockToChunk(high)
           <=> BlocksOf(c) \cap (low .. high) # {}
<1>0. /\ ChunkSize \in Nat \ {0}
      /\ BlockToChunk(low) \in Int /\ BlockToChunk(high) \in Int
  BY PlanAssumption, BlockInItsColumn
<1>1. ASSUME NEW b \in BlocksOf(c) \cap (low .. high)
      PROVE  c \in BlockToChunk(low) .. BlockToChunk(high)
  <2>1. b \in Int /\ low <= b /\ b <= high /\ BlockToChunk(b) = c
    BY <1>1, ColumnOfBlock
  <2>2. BlockToChunk(low) <= c /\ c <= BlockToChunk(high)
    BY <2>1, BlockToChunkMonotone
  <2>. QED
    BY <1>0, <2>2
<1>2. ASSUME c \in BlockToChunk(low) .. BlockToChunk(high)
      PROVE  BlocksOf(c) \cap (low .. high) # {}
  <2>. DEFINE first == ChunkSize * c
              i == BlockToChunk(low)
              j == BlockToChunk(high)
  <2>1. first \in Int
    BY <1>0
  <2>2. CASE c = i
    <3>1. low \in BlocksOf(c)
      BY <2>2, BlockInItsColumn DEF BlocksOf
    <3>. QED
      BY <3>1
  <2>3. CASE c # i
    <3>1. i \in Int /\ j \in Int /\ i < c /\ c <= j
      BY <1>0, <1>2, <2>3
    <3>2. low < ChunkSize * i + ChunkSize /\ ChunkSize * j <= high
      BY BlockInItsColumn
    <3>. HIDE DEF i, j
    <3>3. ChunkSize * i + ChunkSize <= first
      <4>1. i + 1 <= c
        BY <3>1
      <4>2. ChunkSize * (i + 1) <= ChunkSize * c
        BY <1>0, <3>1, <4>1
      <4>3. ChunkSize * (i + 1) = ChunkSize * i + ChunkSize
        BY <1>0, <3>1
      <4>. QED
        BY <4>2, <4>3
    <3>4. first <= ChunkSize * j
      BY <1>0, <3>1
    <3>5. ChunkSize * i \in Int /\ ChunkSize * j \in Int
      BY <1>0, <3>1
    <3>. HIDE DEF first
    <3>6. first \in low .. high
      BY <1>0, <2>1, <3>2, <3>3, <3>4, <3>5
    <3>7. first \in BlocksOf(c)
      BY <1>0, <2>1 DEF BlocksOf, first
    <3>. QED
      BY <3>6, <3>7
  <2>. QED
    BY <2>2, <2>3
<1>. QED
  BY <1>1, <1>2

-----------------------------------------------------------------------------
(* The targets of a render are exactly the columns that hold a block of    *)
(* the square the operator asked for (square_bounds, contains).            *)
THEOREM TargetsTouchTheSquare ==
  ASSUME NEW cx \in Int, NEW cz \in Int, NEW r \in Nat \ {0},
         NEW x \in Int, NEW z \in Int
  PROVE  Contains(SquareBounds(cx, cz, r), <<x, z>>)
           <=> /\ BlocksOf(x) \cap (cx - r .. cx + r - 1) # {}
               /\ BlocksOf(z) \cap (cz - r .. cz + r - 1) # {}
<1>. DEFINE west == cx - r
            east == cx + r - 1
            north == cz - r
            south == cz + r - 1
<1>1. /\ west \in Int /\ east \in Int /\ west <= east
      /\ north \in Int /\ south \in Int /\ north <= south
  OBVIOUS
<1>2. Contains(SquareBounds(cx, cz, r), <<x, z>>)
        <=> /\ BlockToChunk(west) <= x /\ x <= BlockToChunk(east)
            /\ BlockToChunk(north) <= z /\ z <= BlockToChunk(south)
  BY DEF Contains, SquareBounds
<1>. HIDE DEF west, east, north, south
<1>3. /\ BlockToChunk(west) \in Int /\ BlockToChunk(east) \in Int
      /\ BlockToChunk(north) \in Int /\ BlockToChunk(south) \in Int
  BY <1>1, BlockInItsColumn
<1>4. x \in BlockToChunk(west) .. BlockToChunk(east)
        <=> BlocksOf(x) \cap (west .. east) # {}
  BY <1>1, ColumnsBetween
<1>5. z \in BlockToChunk(north) .. BlockToChunk(south)
        <=> BlocksOf(z) \cap (north .. south) # {}
  BY <1>1, ColumnsBetween
<1>6. Contains(SquareBounds(cx, cz, r), <<x, z>>)
        <=> /\ BlocksOf(x) \cap (west .. east) # {}
            /\ BlocksOf(z) \cap (north .. south) # {}
  BY <1>2, <1>3, <1>4, <1>5
<1>. QED
  BY <1>6 DEF west, east, north, south

-----------------------------------------------------------------------------
(* Keys.                                                                   *)

(* Coordinates in a range no wider than the span have distinct residues.   *)
LEMMA ResiduesDistinct ==
  ASSUME NEW low \in Int, NEW a \in low .. low + CoordinateSpan - 1,
         NEW b \in low .. low + CoordinateSpan - 1,
         a % CoordinateSpan = b % CoordinateSpan
  PROVE  a = b
<1>. DEFINE S == CoordinateSpan
            i == a \div S
            j == b \div S
            r == a % S
<1>0. S \in Nat \ {0} /\ a \in Int /\ b \in Int
  BY PlanAssumption
<1>1. i \in Int /\ j \in Int /\ r \in Int /\ a = S * i + r /\ b = S * j + r
  BY <1>0, Division
<1>2. a - b < S /\ b - a < S
  BY <1>0
<1>. HIDE DEF S, i, j, r
<1>3. /\ S * i \in Int /\ S * j \in Int
      /\ S * (i + 1) = S * i + S
      /\ S * (j + 1) = S * j + S
  BY <1>0, <1>1
<1>4. i < j + 1
  BY <1>0, <1>1, <1>2, <1>3, Scaled
<1>5. j < i + 1
  BY <1>0, <1>1, <1>2, <1>3, Scaled
<1>6. i = j
  BY <1>1, <1>4, <1>5
<1>. QED
  BY <1>1, <1>6

(* Two columns of a world no wider than the coordinates' range never share *)
(* a key of active_, whatever the signs of their coordinates (chunk_key).  *)
THEOREM KeysNeverCollide ==
  ASSUME NEW low \in Int,
         NEW p \in (low .. low + CoordinateSpan - 1) \X (low .. low + CoordinateSpan - 1),
         NEW q \in (low .. low + CoordinateSpan - 1) \X (low .. low + CoordinateSpan - 1),
         ChunkKey(p) = ChunkKey(q)
  PROVE  p = q
<1>. DEFINE S == CoordinateSpan
            a == p[1] % S
            b == p[2] % S
            c == q[1] % S
            d == q[2] % S
<1>0. /\ S \in Nat \ {0}
      /\ p[1] \in Int /\ p[2] \in Int /\ q[1] \in Int /\ q[2] \in Int
      /\ p = <<p[1], p[2]>> /\ q = <<q[1], q[2]>>
  BY PlanAssumption
<1>1. a \in 0 .. S - 1 /\ b \in 0 .. S - 1 /\ c \in 0 .. S - 1 /\ d \in 0 .. S - 1
  BY <1>0, Division
<1>2. a * S + b = c * S + d
  BY DEF ChunkKey
<1>3. a = c
  <2>. HIDE DEF S, a, b, c, d
  <2>1. /\ a \in Int /\ b \in Int /\ c \in Int /\ d \in Int
        /\ S * a \in Int /\ S * c \in Int
        /\ S * a = a * S /\ S * c = c * S
        /\ S * (a + 1) = S * a + S /\ S * (c + 1) = S * c + S
    BY <1>0, <1>1
  <2>2. a < c + 1
    BY <1>0, <1>1, <1>2, <2>1, Scaled
  <2>3. c < a + 1
    BY <1>0, <1>1, <1>2, <2>1, Scaled
  <2>. QED
    BY <2>1, <2>2, <2>3
<1>4. b = d
  <2>. HIDE DEF S, a, b, c, d
  <2>1. a * S \in Int /\ b \in Int /\ d \in Int
    BY <1>0, <1>1
  <2>. QED
    BY <1>2, <1>3, <2>1
<1>5. p[1] = q[1] /\ p[2] = q[2]
  BY <1>0, <1>3, <1>4, ResiduesDistinct
<1>. QED
  BY <1>0, <1>5

-----------------------------------------------------------------------------
(* The range of coordinates.                                               *)

(* Any block a radius away from a center has a column far from both ends   *)
(* of the coordinates' range.                                              *)
LEMMA ColumnFarFromEnds ==
  ASSUME NEW half \in Nat \ {0}, 2 * half <= ChunkSize * (half - Halo),
         NEW block \in -2 * half .. 2 * half - 1
  PROVE  BlockToChunk(block) \in -(half - Halo) .. half - Halo - 1
<1>. DEFINE k == BlockToChunk(block)
            m == half - Halo
<1>0. /\ ChunkSize \in Nat \ {0} /\ Halo \in Nat /\ m \in Int
      /\ block \in Int /\ -(2 * half) <= block /\ block < 2 * half
      /\ 2 * half <= ChunkSize * m /\ half \in Int
  BY PlanAssumption
<1>1. k \in Int /\ ChunkSize * k <= block /\ block < ChunkSize * k + ChunkSize
  BY <1>0, BlockInItsColumn
<1>. HIDE DEF k, m
<1>2. /\ ChunkSize * k \in Int /\ ChunkSize * m \in Int
      /\ ChunkSize * (k + 1) = ChunkSize * k + ChunkSize
      /\ ChunkSize * (-m) = -(ChunkSize * m)
  BY <1>0, <1>1
<1>3. ChunkSize * k < ChunkSize * m
  BY <1>0, <1>1, <1>2
<1>4. k < m
  BY <1>0, <1>1, <1>3, Scaled
<1>5. ChunkSize * (-m) < ChunkSize * (k + 1)
  BY <1>0, <1>1, <1>2
<1>6. -m < k + 1
  BY <1>0, <1>1, <1>5, Scaled
<1>7. k \in -m .. m - 1
  BY <1>0, <1>1, <1>4, <1>6
<1>. QED
  BY <1>7 DEF k, m

(* A render of any center and radius that parse_integer reads, from one    *)
(* end of the range to the other, is planned without overflow: every       *)
(* column of its halo has coordinates in the range (expanded never throws) *)
(* and a key of its own.  The code has half = 2^31, 16 blocks and a halo   *)
(* of 6: 2^32 <= 16 * (2^31 - 6).                                          *)
THEOREM PlanNeverOverflows ==
  ASSUME NEW half \in Nat \ {0}, CoordinateSpan = 2 * half,
         2 * half <= ChunkSize * (half - Halo),
         NEW cx \in -half .. half - 1, NEW cz \in -half .. half - 1,
         NEW r \in 1 .. half - 1,
         NEW b, b = GenerationBounds(SquareBounds(cx, cz, r))
  PROVE  /\ {b.minX, b.maxX, b.minZ, b.maxZ} \subseteq -half .. half - 1
         /\ \A p, q \in PositionsIn(b) : ChunkKey(p) = ChunkKey(q) => p = q
<1>. DEFINE west == BlockToChunk(cx - r)
            east == BlockToChunk(cx + r - 1)
            north == BlockToChunk(cz - r)
            south == BlockToChunk(cz + r - 1)
<1>0. Halo \in Nat /\ half \in Int
  BY PlanAssumption
<1>1. /\ cx - r \in -2 * half .. 2 * half - 1
      /\ cx + r - 1 \in -2 * half .. 2 * half - 1
      /\ cz - r \in -2 * half .. 2 * half - 1
      /\ cz + r - 1 \in -2 * half .. 2 * half - 1
  OBVIOUS
<1>2. {west, east, north, south} \subseteq -(half - Halo) .. half - Halo - 1
  BY <1>1, ColumnFarFromEnds
<1>3. /\ b.minX = west - Halo /\ b.maxX = east + Halo
      /\ b.minZ = north - Halo /\ b.maxZ = south + Halo
  BY DEF GenerationBounds, SquareBounds, Expanded
<1>. HIDE DEF west, east, north, south
<1>4. {b.minX, b.maxX, b.minZ, b.maxZ} \subseteq -half .. half - 1
  BY <1>0, <1>2, <1>3
<1>5. ASSUME NEW p \in PositionsIn(b)
      PROVE  p \in (-half .. -half + CoordinateSpan - 1)
                     \X (-half .. -half + CoordinateSpan - 1)
  <2>1. (b.minX .. b.maxX) \subseteq -half .. half - 1
    BY <1>0, <1>4
  <2>2. (b.minZ .. b.maxZ) \subseteq -half .. half - 1
    BY <1>0, <1>4
  <2>3. -half + CoordinateSpan - 1 = half - 1
    BY <1>0
  <2>. QED
    BY <2>1, <2>2, <2>3 DEF PositionsIn
<1>6. ASSUME NEW p \in PositionsIn(b), NEW q \in PositionsIn(b),
             ChunkKey(p) = ChunkKey(q)
      PROVE  p = q
  <2>1. -half \in Int
    BY <1>0
  <2>. QED
    BY <2>1, <1>5, <1>6, KeysNeverCollide
<1>. QED
  BY <1>4, <1>6

-----------------------------------------------------------------------------
(* Sorting by rank.                                                        *)

(* B orders the elements of K strictly and totally.                        *)
Orders(B, K) ==
  /\ \A k \in K : <<k, k>> \notin B
  /\ \A k, l, m \in K : <<k, l>> \in B /\ <<l, m>> \in B => <<k, m>> \in B
  /\ \A k, l \in K : k = l \/ <<k, l>> \in B \/ <<l, k>> \in B

Before(B, K, k) == {l \in K : <<l, k>> \in B}

(* The number of elements before it is an element's place, counted from 0: *)
(* it keeps the order, no two elements have the same and each is taken.    *)
LEMMA Ranks ==
  ASSUME NEW K, IsFiniteSet(K), NEW B, Orders(B, K)
  PROVE  /\ Cardinality(K) \in Nat
         /\ \A k \in K : Cardinality(Before(B, K, k)) \in 0 .. Cardinality(K) - 1
         /\ \A k, l \in K : <<k, l>> \in B
              <=> Cardinality(Before(B, K, k)) < Cardinality(Before(B, K, l))
         /\ \A i \in 0 .. Cardinality(K) - 1 :
              \E k \in K : Cardinality(Before(B, K, k)) = i
<1>. DEFINE n == Cardinality(K)
            rank == [k \in K |-> Cardinality(Before(B, K, k))]
<1>1. n \in Nat
  BY FS_CardinalityType
<1>2. ASSUME NEW k \in K
      PROVE  /\ IsFiniteSet(Before(B, K, k))
             /\ Cardinality(Before(B, K, k)) \in Nat
             /\ Cardinality(Before(B, K, k)) < n
  <2>1. Before(B, K, k) \in SUBSET K /\ k \notin Before(B, K, k)
    BY DEF Before, Orders
  <2>2. /\ IsFiniteSet(Before(B, K, k))
        /\ Cardinality(Before(B, K, k)) <= n
        /\ Cardinality(Before(B, K, k)) # n
    BY <2>1, FS_Subset
  <2>3. Cardinality(Before(B, K, k)) \in Nat
    BY <2>2, FS_CardinalityType
  <2>. QED
    BY <1>1, <2>2, <2>3
<1>3. ASSUME NEW k \in K, NEW l \in K, <<k, l>> \in B
      PROVE  Cardinality(Before(B, K, k)) < Cardinality(Before(B, K, l))
  <2>1. /\ Before(B, K, k) \in SUBSET Before(B, K, l)
        /\ k \in Before(B, K, l) /\ k \notin Before(B, K, k)
    BY <1>3, Zenon DEF Before, Orders
  <2>2. /\ Cardinality(Before(B, K, k)) <= Cardinality(Before(B, K, l))
        /\ Cardinality(Before(B, K, k)) # Cardinality(Before(B, K, l))
    BY <1>2, <2>1, FS_Subset
  <2>. QED
    BY <1>2, <2>2
<1>4. ASSUME NEW k \in K, NEW l \in K
      PROVE  <<k, l>> \in B
               <=> Cardinality(Before(B, K, k)) < Cardinality(Before(B, K, l))
  <2>1. k = l \/ <<k, l>> \in B \/ <<l, k>> \in B
    BY DEF Orders
  <2>2. CASE <<k, l>> \in B
    BY <2>2, <1>3
  <2>3. CASE k = l
    <3>1. <<k, l>> \notin B
      BY <2>3 DEF Orders
    <3>. QED
      BY <1>2, <2>3, <3>1
  <2>4. CASE <<l, k>> \in B
    <3>1. <<k, l>> \notin B
      BY <2>4 DEF Orders
    <3>. QED
      BY <1>2, <1>3, <2>4, <3>1
  <2>. QED
    BY <2>1, <2>2, <2>3, <2>4
<1>5. rank \in Injection(K, 0 .. n - 1)
  <2>1. \A k \in K : rank[k] \in 0 .. n - 1
    BY <1>1, <1>2
  <2>2. \A k, l \in K : rank[k] = rank[l] => k = l
    <3>. SUFFICES ASSUME NEW k \in K, NEW l \in K, k # l
                  PROVE  rank[k] # rank[l]
      OBVIOUS
    <3>1. <<k, l>> \in B \/ <<l, k>> \in B
      BY DEF Orders
    <3>. QED
      BY <1>2, <1>3, <3>1
  <2>. HIDE DEF rank
  <2>3. rank \in [K -> 0 .. n - 1]
    BY <2>1 DEF rank
  <2>. QED
    BY <2>2, <2>3 DEF Injection, IsInjective
<1>6. IsFiniteSet(0 .. n - 1) /\ Cardinality(0 .. n - 1) = n
  <2>1. CASE n = 0
    BY <2>1, FS_Interval
  <2>2. CASE n # 0
    BY <1>1, <2>2, FS_Interval
  <2>. QED
    BY <2>1, <2>2
<1>7. rank \in Surjection(K, 0 .. n - 1)
  BY <1>5, <1>6, FS_Injection
<1>8. \A i \in 0 .. n - 1 : \E k \in K : rank[k] = i
  BY <1>7 DEF Surjection
<1>. QED
  BY <1>1, <1>2, <1>4, <1>8

(* What std::sort leaves: each element's position once, in the order.      *)
Placed(B, K) ==
  [i \in 1 .. Cardinality(K) |->
     (CHOOSE r \in {<<Cardinality(Before(B, K, k)), k[2]>> : k \in K} : r[1] = i - 1)[2]]

LEMMA SortedSequence ==
  ASSUME NEW K, IsFiniteSet(K), NEW B, Orders(B, K),
         NEW s, s = Placed(B, K)
  PROVE  /\ Cardinality(K) \in Nat /\ DOMAIN s = 1 .. Cardinality(K)
         /\ Len(s) = Cardinality(K)
         /\ \A k \in K : s[Cardinality(Before(B, K, k)) + 1] = k[2]
         /\ \A i \in 1 .. Cardinality(K) :
              \E k \in K : Cardinality(Before(B, K, k)) = i - 1 /\ s[i] = k[2]
<1>. DEFINE n == Cardinality(K)
            rank(k) == Cardinality(Before(B, K, k))
            ranked == {<<rank(k), k[2]>> : k \in K}
<1>1. /\ n \in Nat
      /\ \A k \in K : rank(k) \in 0 .. n - 1
      /\ \A k, l \in K : <<k, l>> \in B <=> rank(k) < rank(l)
      /\ \A i \in 0 .. n - 1 : \E k \in K : rank(k) = i
  BY Ranks
<1>2. ASSUME NEW k \in K, NEW l \in K, rank(k) = rank(l)
      PROVE  k = l
  <2>1. ~(rank(k) < rank(l)) /\ ~(rank(l) < rank(k))
    BY <1>1, <1>2
  <2>. QED
    BY <1>1, <2>1 DEF Orders
<1>3. ASSUME NEW i \in 1 .. n, NEW k \in K, rank(k) = i - 1
      PROVE  s[i] = k[2]
  <2>. DEFINE r == CHOOSE e \in ranked : e[1] = i - 1
  <2>1. <<rank(k), k[2]>> \in ranked /\ <<rank(k), k[2]>>[1] = i - 1
    BY <1>3
  <2>2. r \in ranked /\ r[1] = i - 1
    BY <2>1, Zenon
  <2>3. s[i] = r[2]
    BY DEF Placed
  <2>. HIDE DEF r
  <2>4. PICK l \in K : r = <<rank(l), l[2]>>
    BY <2>2
  <2>5. r[1] = rank(l) /\ r[2] = l[2]
    BY <2>4
  <2>6. l = k
    BY <1>2, <1>3, <2>2, <2>5, Zenon
  <2>. QED
    BY <2>3, <2>5, <2>6
<1>4. \A i \in 1 .. n : \E k \in K : rank(k) = i - 1 /\ s[i] = k[2]
  <2>. TAKE i \in 1 .. n
  <2>1. i - 1 \in 0 .. n - 1
    BY <1>1
  <2>2. PICK k \in K : rank(k) = i - 1
    BY <1>1, <2>1
  <2>. QED
    BY <1>3, <2>2
<1>5. \A k \in K : s[rank(k) + 1] = k[2]
  <2>. TAKE k \in K
  <2>1. rank(k) \in 0 .. n - 1
    BY <1>1
  <2>2. rank(k) + 1 \in 1 .. n /\ rank(k) = (rank(k) + 1) - 1
    BY <1>1, <2>1
  <2>. QED
    BY <1>3, <2>2
<1>6. DOMAIN s = 1 .. n /\ Len(s) = n
  <2>1. DOMAIN s = 1 .. n
    BY DEF Placed
  <2>. QED
    BY <1>1, <2>1
<1>. QED
  BY <1>1, <1>4, <1>5, <1>6

(* The positions of P with their keys.                                     *)
Keyed(P, key) == {<<key[p], p>> : p \in P}

LEMMA KeyedFinite ==
  ASSUME NEW P, IsFiniteSet(P), NEW key
  PROVE  IsFiniteSet(Keyed(P, key)) /\ Cardinality(Keyed(P, key)) = Cardinality(P)
<1>. DEFINE f == [p \in P |-> <<key[p], p>>]
<1>1. f \in [P -> Keyed(P, key)]
  BY DEF Keyed
<1>2. \A p, q \in P : f[p] = f[q] => p = q
  OBVIOUS
<1>3. \A k \in Keyed(P, key) : \E p \in P : f[p] = k
  BY DEF Keyed
<1>. HIDE DEF f
<1>4. f \in Bijection(P, Keyed(P, key))
  BY <1>1, <1>2, <1>3 DEF Bijection, Injection, Surjection, IsInjective
<1>. QED
  BY <1>4, FS_Bijection DEF ExistsBijection

(* The positions in the order of their keys, each of them once.            *)
LEMMA SortedPositions ==
  ASSUME NEW P, IsFiniteSet(P), NEW key, NEW B, Orders(B, Keyed(P, key)),
         NEW s, s = Placed(B, Keyed(P, key))
  PROVE  /\ Cardinality(P) \in Nat /\ DOMAIN s = 1 .. Cardinality(P)
         /\ Len(s) = Cardinality(P)
         /\ {s[i] : i \in DOMAIN s} = P
         /\ \A i, j \in DOMAIN s :
              i < j => <<<<key[s[i]], s[i]>>, <<key[s[j]], s[j]>>>> \in B
<1>. DEFINE K == Keyed(P, key)
            n == Cardinality(P)
            rank(k) == Cardinality(Before(B, K, k))
<1>1. IsFiniteSet(K) /\ Cardinality(K) = n
  BY KeyedFinite
<1>2. \A k \in K : k[2] \in P /\ k = <<key[k[2]], k[2]>>
  BY DEF Keyed
<1>3. \A p \in P : <<key[p], p>> \in K /\ <<key[p], p>>[2] = p
  BY DEF Keyed
<1>. HIDE DEF K
<1>4. /\ n \in Nat
      /\ \A k \in K : rank(k) \in 0 .. n - 1
      /\ \A k, l \in K : <<k, l>> \in B <=> rank(k) < rank(l)
  <2>1. Orders(B, K)
    BY DEF K
  <2>. QED
    BY <1>1, <2>1, Ranks
<1>5. /\ DOMAIN s = 1 .. n /\ Len(s) = n
      /\ \A k \in K : s[rank(k) + 1] = k[2]
      /\ \A i \in 1 .. n : \E k \in K : rank(k) = i - 1 /\ s[i] = k[2]
  <2>1. /\ DOMAIN s = 1 .. Cardinality(K) /\ Len(s) = Cardinality(K)
        /\ \A k \in K : s[rank(k) + 1] = k[2]
        /\ \A i \in 1 .. Cardinality(K) : \E k \in K : rank(k) = i - 1 /\ s[i] = k[2]
    <3>1. /\ Orders(B, K) /\ IsFiniteSet(K)
          /\ s = Placed(B, K)
      BY <1>1 DEF K
    <3>. QED
      BY <3>1, SortedSequence
  <2>. QED
    BY <1>1, <2>1, Zenon
<1>6. {s[i] : i \in DOMAIN s} = P
  <2>1. ASSUME NEW i \in 1 .. n PROVE s[i] \in P
    BY <1>2, <1>5
  <2>2. ASSUME NEW p \in P PROVE \E i \in 1 .. n : s[i] = p
    <3>. DEFINE k == <<key[p], p>>
    <3>1. k \in K /\ k[2] = p
      BY <1>3
    <3>. HIDE DEF k
    <3>2. rank(k) \in 0 .. n - 1 /\ s[rank(k) + 1] = p
      BY <1>4, <1>5, <3>1, Zenon
    <3>3. rank(k) + 1 \in 1 .. n
      BY <1>4, <3>2
    <3>. QED
      BY <3>2, <3>3
  <2>3. DOMAIN s = 1 .. n
    BY <1>5
  <2>. HIDE DEF n
  <2>. QED
    BY <2>1, <2>2, <2>3
<1>7. ASSUME NEW i \in 1 .. n, NEW j \in 1 .. n, i < j
      PROVE  <<<<key[s[i]], s[i]>>, <<key[s[j]], s[j]>>>> \in B
  <2>1. PICK k \in K : rank(k) = i - 1 /\ s[i] = k[2]
    BY <1>5
  <2>2. PICK l \in K : rank(l) = j - 1 /\ s[j] = l[2]
    BY <1>5
  <2>3. rank(k) < rank(l)
    BY <1>4, <1>7, <2>1, <2>2
  <2>4. k = <<key[s[i]], s[i]>> /\ l = <<key[s[j]], s[j]>>
    BY <1>2, <2>1, <2>2
  <2>5. <<k, l>> \in B
    BY <1>4, <2>3
  <2>. QED
    BY <2>4, <2>5
<1>. QED
  BY <1>4, <1>5, <1>6, <1>7

-----------------------------------------------------------------------------
(* The positions of a rectangle, and center_out's order of them.           *)

IsBounds(b) ==
  /\ b.minX \in Int /\ b.maxX \in Int /\ b.minX <= b.maxX
  /\ b.minZ \in Int /\ b.maxZ \in Int /\ b.minZ <= b.maxZ

(* count is the number of positions (ChunkBounds::count).                  *)
LEMMA PositionsCounted ==
  ASSUME NEW b, IsBounds(b)
  PROVE  /\ IsFiniteSet(PositionsIn(b)) /\ Cardinality(PositionsIn(b)) = Count(b)
         /\ Count(b) \in Nat \ {0}
         /\ Width(b) \in Nat \ {0} /\ Depth(b) \in Nat \ {0}
<1>. DEFINE x0 == b.minX  x1 == b.maxX  z0 == b.minZ  z1 == b.maxZ
<1>1. /\ x0 \in Int /\ x1 \in Int /\ z0 \in Int /\ z1 \in Int
      /\ x0 <= x1 /\ z0 <= z1
  BY DEF IsBounds
<1>2. /\ PositionsIn(b) = (x0 .. x1) \X (z0 .. z1)
      /\ Width(b) = x1 - x0 + 1 /\ Depth(b) = z1 - z0 + 1
      /\ Count(b) = Width(b) * Depth(b)
  BY DEF PositionsIn, Width, Depth, Count
<1>. HIDE DEF x0, x1, z0, z1
<1>3. /\ IsFiniteSet(x0 .. x1) /\ Cardinality(x0 .. x1) = x1 - x0 + 1
      /\ IsFiniteSet(z0 .. z1) /\ Cardinality(z0 .. z1) = z1 - z0 + 1
  BY <1>1, FS_Interval
<1>4. /\ IsFiniteSet(PositionsIn(b)) /\ Cardinality(PositionsIn(b)) = Count(b)
  <2>1. /\ IsFiniteSet((x0 .. x1) \X (z0 .. z1))
        /\ Cardinality((x0 .. x1) \X (z0 .. z1)) = Cardinality(x0 .. x1) * Cardinality(z0 .. z1)
    BY <1>3, FS_Product, Zenon
  <2>. QED
    BY <1>2, <1>3, <2>1, Zenon
<1>5. Width(b) \in Nat \ {0} /\ Depth(b) \in Nat \ {0}
  BY <1>1, <1>2
<1>6. \A m, k \in Nat \ {0} : m * k \in Nat \ {0}
  OBVIOUS
<1>. QED
  BY <1>2, <1>4, <1>5, <1>6

(* center_out is every position once, the nearest first.                   *)
LEMMA CenterOutSorted ==
  ASSUME NEW b, IsBounds(b)
  PROVE  /\ DOMAIN CenterOut(b) = 1 .. Count(b)
         /\ Len(CenterOut(b)) = Count(b)
         /\ {CenterOut(b)[i] : i \in DOMAIN CenterOut(b)} = PositionsIn(b)
         /\ \A i, j \in DOMAIN CenterOut(b) :
              i < j => DistanceKey(b, CenterOut(b)[i]) <= DistanceKey(b, CenterOut(b)[j])
<1>. DEFINE P == PositionsIn(b)
            key == [p \in P |-> <<DistanceKey(b, p), p[2], p[1]>>]
            K == Keyed(P, key)
            B == {e \in K \X K : Nearer(e[1][1], e[2][1])}
<1>1. IsFiniteSet(P) /\ Cardinality(P) = Count(b)
  BY PositionsCounted
<1>2. \A p \in P : p \in Int \X Int /\ DistanceKey(b, p) \in Int
  <2>1. \A p \in P : p \in Int \X Int
    BY DEF PositionsIn, IsBounds
  <2>2. \A x, z \in Int : x * x + z * z \in Int
    OBVIOUS
  <2>3. \A p \in P : /\ p[1] * 2 - b.minX - b.maxX \in Int
                     /\ p[2] * 2 - b.minZ - b.maxZ \in Int
    BY <2>1 DEF IsBounds
  <2>. QED
    BY <2>1, <2>2, <2>3 DEF DistanceKey
<1>3. \A k \in K : /\ k[1] \in Int \X Int \X Int /\ k[2] \in P
                   /\ k[1] = <<DistanceKey(b, k[2]), k[2][2], k[2][1]>>
  <2>. SUFFICES ASSUME NEW p \in P
                PROVE  key[p] \in Int \X Int \X Int
    BY DEF Keyed
  <2>. QED
    BY <1>2
<1>4. \A k, l \in K : k[1] = l[1] => k = l
  <2>. SUFFICES ASSUME NEW p \in P, NEW q \in P, key[p] = key[q] PROVE p = q
    BY DEF Keyed
  <2>1. p[1] = q[1] /\ p[2] = q[2]
    OBVIOUS
  <2>. QED
    BY <1>2, <2>1
<1>5. Orders(B, K)
  <2>. HIDE DEF K
  <2>1. \A k, l \in K : <<k, l>> \in B <=> Nearer(k[1], l[1])
    OBVIOUS
  <2>2. \A u \in Int \X Int \X Int : ~Nearer(u, u)
    BY DEF Nearer
  <2>3. \A u, v, w \in Int \X Int \X Int : Nearer(u, v) /\ Nearer(v, w) => Nearer(u, w)
    BY DEF Nearer
  <2>4. \A u, v \in Int \X Int \X Int : u = v \/ Nearer(u, v) \/ Nearer(v, u)
    BY DEF Nearer
  <2>. HIDE DEF B
  <2>. QED
    BY <1>3, <1>4, <2>1, <2>2, <2>3, <2>4 DEF Orders
<1>6. CenterOut(b) = Placed(B, K)
  <2>1. K = {<<<<DistanceKey(b, p), p[2], p[1]>>, p>> : p \in P}
    BY DEF Keyed
  <2>. HIDE DEF K
  <2>2. \A k \in K : Before(B, K, k) = {l \in K : Nearer(l[1], k[1])}
    BY DEF Before
  <2>. HIDE DEF B
  <2>3. {<<Cardinality(Before(B, K, k)), k[2]>> : k \in K} =
          {<<Cardinality({l \in K : Nearer(l[1], k[1])}), k[2]>> : k \in K}
    BY <2>2
  <2>4. CenterOut(b) = Sorted(K, Nearer)
    BY <2>1 DEF CenterOut
  <2>. QED
    BY <2>3, <2>4, Zenon DEF Sorted, Placed
<1>. DEFINE s == CenterOut(b)
<1>7. /\ DOMAIN s = 1 .. Cardinality(P) /\ Len(s) = Cardinality(P)
      /\ {s[i] : i \in DOMAIN s} = P
      /\ \A i, j \in DOMAIN s : i < j => <<<<key[s[i]], s[i]>>, <<key[s[j]], s[j]>>>> \in B
  <2>. HIDE DEF key, P, B
  <2>. QED
    BY <1>1, <1>5, <1>6, SortedPositions
<1>8. ASSUME NEW i \in DOMAIN s, NEW j \in DOMAIN s, i < j
      PROVE  DistanceKey(b, s[i]) <= DistanceKey(b, s[j])
  <2>1. <<<<key[s[i]], s[i]>>, <<key[s[j]], s[j]>>>> \in B /\ s[i] \in P /\ s[j] \in P
    BY <1>7, <1>8
  <2>2. Nearer(key[s[i]], key[s[j]])
    BY <2>1
  <2>3. /\ key[s[i]][1] = DistanceKey(b, s[i]) /\ key[s[j]][1] = DistanceKey(b, s[j])
        /\ DistanceKey(b, s[i]) \in Int /\ DistanceKey(b, s[j]) \in Int
    BY <1>2, <2>1
  <2>. QED
    BY <2>2, <2>3 DEF Nearer
<1>. QED
  BY <1>1, <1>7, <1>8

-----------------------------------------------------------------------------
(* Bits.                                                                   *)

LEMMA LeastOf ==
  ASSUME NEW T, T \subseteq Nat, T # {}
  PROVE  \E x \in T : \A y \in T : x <= y
<1>1. PICK x \in T : \A y \in T : ~(<<y, x>> \in OpToRel(<, Nat))
  BY NatLessThanWellFounded, WFMin
<1>2. \A y \in T : ~(y < x)
  BY <1>1 DEF OpToRel
<1>. QED
  BY <1>2

LEMMA QuotientIs ==
  ASSUME NEW n \in Int, NEW d \in Nat \ {0}, NEW q \in Int, NEW r \in 0 .. d - 1,
         n = d * q + r
  PROVE  n \div d = q
<1>. DEFINE k == n \div d
            s == n % d
<1>1. k \in Int /\ s \in 0 .. d - 1 /\ n = d * k + s
  BY Division
<1>. HIDE DEF k, s
<1>2. /\ d * k \in Int /\ d * q \in Int
      /\ d * (k + 1) = d * k + d /\ d * (q + 1) = d * q + d
  BY <1>1
<1>3. d * k < d * (q + 1) /\ d * q < d * (k + 1)
  BY <1>1, <1>2
<1>4. k < q + 1 /\ q < k + 1
  BY <1>1, <1>3, Scaled
<1>5. k = q
  BY <1>1, <1>4
<1>. QED
  BY <1>5 DEF k

(* Powers of two are what the subsets of 1..i are counted by.              *)
LEMMA PowersDouble ==
  ASSUME NEW i \in Nat
  PROVE  2^i \in Nat \ {0} /\ 2^(i + 1) = 2 * 2^i
<1>. DEFINE S == 1 .. i
            T == 1 .. i + 1
            last == i + 1
            add == [U \in SUBSET S |-> U \cup {last}]
            new == {U \cup {last} : U \in SUBSET S}
<1>1. IsFiniteSet(S) /\ Cardinality(S) = i
  <2>1. CASE i = 0
    BY <2>1, FS_Interval
  <2>2. CASE i # 0
    BY <2>2, FS_Interval
  <2>. QED
    BY <2>1, <2>2
<1>2. IsFiniteSet(T) /\ Cardinality(T) = i + 1
  BY FS_Interval
<1>3. T = S \cup {last} /\ last \notin S
  OBVIOUS
<1>. HIDE DEF S, T, last
<1>4. IsFiniteSet(SUBSET S) /\ Cardinality(SUBSET S) = 2^i
  BY <1>1, FS_SUBSET
<1>5. Cardinality(SUBSET T) = 2^(i + 1)
  BY <1>2, FS_SUBSET
<1>6. SUBSET T = (SUBSET S) \cup new
  <2>1. ASSUME NEW U \in SUBSET T PROVE U \in (SUBSET S) \cup new
    <3>1. CASE last \in U
      <4>1. U \ {last} \in SUBSET S /\ U = (U \ {last}) \cup {last}
        BY <1>3, <3>1
      <4>. QED
        BY <4>1
    <3>2. CASE last \notin U
      BY <1>3, <3>2
    <3>. QED
      BY <3>1, <3>2
  <2>2. ASSUME NEW U \in SUBSET S PROVE U \in SUBSET T /\ U \cup {last} \in SUBSET T
    BY <1>3
  <2>. QED
    BY <2>1, <2>2
<1>7. (SUBSET S) \cap new = {}
  BY <1>3
<1>8. IsFiniteSet(new) /\ Cardinality(new) = 2^i
  <2>1. add \in [SUBSET S -> new]
    OBVIOUS
  <2>2. \A U, V \in SUBSET S : add[U] = add[V] => U = V
    <3>. SUFFICES ASSUME NEW U \in SUBSET S, NEW V \in SUBSET S,
                         U \cup {last} = V \cup {last}
                  PROVE  U = V
      OBVIOUS
    <3>1. last \notin U /\ last \notin V
      BY <1>3
    <3>. QED
      BY <3>1
  <2>3. \A V \in new : \E U \in SUBSET S : add[U] = V
    OBVIOUS
  <2>. HIDE DEF add, new
  <2>4. add \in Bijection(SUBSET S, new)
    BY <2>1, <2>2, <2>3 DEF Bijection, Injection, Surjection, IsInjective
  <2>. QED
    BY <1>4, <2>4, FS_Bijection DEF ExistsBijection
<1>. HIDE DEF new
<1>9. 2^i \in Nat \ {0}
  <2>1. 2^i \in Nat
    BY <1>4, FS_CardinalityType
  <2>2. S \in SUBSET S
    OBVIOUS
  <2>3. Cardinality(SUBSET S) # 0
    BY <1>4, <2>2, FS_EmptySet
  <2>. QED
    BY <1>4, <2>1, <2>3
<1>10. Cardinality(SUBSET T) = 2^i + 2^i - Cardinality({})
  BY <1>4, <1>6, <1>7, <1>8, FS_Union
<1>11. Cardinality({}) = 0
  BY FS_EmptySet
<1>12. 2^(i + 1) = 2^i + 2^i
  BY <1>5, <1>9, <1>10, <1>11
<1>. QED
  BY <1>9, <1>12

(* Halving once more.                                                      *)
LEMMA Halved ==
  ASSUME NEW n \in Nat, NEW k \in Nat
  PROVE  /\ n \div 2^k \in Nat
         /\ n \div 2^(k + 1) = (n \div 2^k) \div 2
         /\ n \div 2^k = 2 * (n \div 2^(k + 1)) + ((n \div 2^k) % 2)
<1>. DEFINE P == 2^k
            q == n \div P
            r == n % P
            h == q \div 2
            c == q % 2
<1>1. P \in Nat \ {0} /\ 2^(k + 1) = 2 * P
  BY PowersDouble
<1>. HIDE DEF P
<1>2. q \in Int /\ r \in 0 .. P - 1 /\ n = P * q + r
  BY <1>1, Division
<1>3. q \in Nat
  <2>. HIDE DEF q, r
  <2>1. /\ P * q \in Int /\ P * (-1) = -P /\ P * (q + 1) = P * q + P
    BY <1>1, <1>2
  <2>2. P * (-1) < P * q
    BY <1>1, <1>2, <2>1
  <2>3. -1 < q
    BY <1>1, <1>2, <2>2, Scaled
  <2>. QED
    BY <1>2, <2>3
<1>. HIDE DEF q, r
<1>4. h \in Nat /\ c \in 0 .. 1 /\ q = 2 * h + c
  BY <1>3
<1>. HIDE DEF h, c
<1>5. n = (2 * P) * h + (P * c + r)
  <2>1. P * q = P * (2 * h) + P * c
    BY <1>1, <1>4
  <2>2. P * (2 * h) = (2 * P) * h
    BY <1>1, <1>4
  <2>3. /\ P * q \in Int /\ P * c \in Int /\ (2 * P) * h \in Int /\ r \in Int
    BY <1>1, <1>2, <1>4
  <2>. QED
    BY <1>2, <2>1, <2>2, <2>3
<1>6. 2 * P \in Nat \ {0} /\ P * c + r \in 0 .. 2 * P - 1
  <2>1. CASE c = 0
    <3>1. P * c = 0
      BY <1>1, <2>1
    <3>. QED
      BY <1>1, <1>2, <3>1
  <2>2. CASE c = 1
    <3>1. P * c = P
      BY <1>1, <2>2
    <3>. QED
      BY <1>1, <1>2, <3>1
  <2>. QED
    BY <1>4, <2>1, <2>2
<1>7. n \div (2 * P) = h
  BY <1>4, <1>5, <1>6, QuotientIs
<1>. QED
  BY <1>1, <1>3, <1>4, <1>7 DEF P, q, h, c

(* A number's bits from k on say what is left of it without the bits below.*)
LEMMA BitsFrom ==
  ASSUME NEW n \in 0 .. 2^30 - 1, NEW m \in 0 .. 2^30 - 1, NEW k \in 0 .. 29
  PROVE  (\A i \in OffsetBits : i >= k => (i \in Bits(n) <=> i \in Bits(m)))
           <=> n \div 2^k = m \div 2^k
<1>. DEFINE same(i) == n \div 2^i = m \div 2^i
<1>1. 2^30 \in Nat \ {0} /\ n \in Nat /\ m \in Nat
  OBVIOUS
<1>2. \A i \in Nat : /\ n \div 2^i \in Nat /\ m \div 2^i \in Nat
                     /\ n \div 2^(i + 1) = (n \div 2^i) \div 2
                     /\ n \div 2^i = 2 * (n \div 2^(i + 1)) + ((n \div 2^i) % 2)
                     /\ m \div 2^(i + 1) = (m \div 2^i) \div 2
                     /\ m \div 2^i = 2 * (m \div 2^(i + 1)) + ((m \div 2^i) % 2)
  BY <1>1, Halved
<1>3. \A i \in OffsetBits : (i \in Bits(n) <=> i \in Bits(m))
                              <=> (n \div 2^i) % 2 = (m \div 2^i) % 2
  <2>. TAKE i \in OffsetBits
  <2>1. n \div 2^i \in Nat /\ m \div 2^i \in Nat
    BY <1>2 DEF OffsetBits
  <2>. DEFINE u == n \div 2^i
              v == m \div 2^i
  <2>2. (i \in Bits(n) <=> u % 2 = 1) /\ (i \in Bits(m) <=> v % 2 = 1)
    BY DEF Bits
  <2>. HIDE DEF u, v
  <2>3. u \in Nat /\ v \in Nat
    BY <2>1 DEF u, v
  <2>4. (u % 2 = 1 <=> v % 2 = 1) <=> u % 2 = v % 2
    BY <2>3
  <2>. QED
    BY <2>2, <2>4 DEF u, v
<1>4. same(30)
  <2>1. n = 2^30 * 0 + n /\ n \in 0 .. 2^30 - 1 /\ m = 2^30 * 0 + m /\ m \in 0 .. 2^30 - 1
    OBVIOUS
  <2>2. n \div 2^30 = 0
    BY <1>1, <2>1, QuotientIs
  <2>3. m \div 2^30 = 0
    BY <1>1, <2>1, QuotientIs
  <2>. QED
    BY <2>2, <2>3
<1>5. ASSUME \A i \in OffsetBits : i >= k => (i \in Bits(n) <=> i \in Bits(m))
      PROVE  same(k)
  <2>. DEFINE T == {j \in 0 .. 30 - k : ~same(30 - j)}
  <2>1. SUFFICES T = {}
    <3>1. 30 - k \in 0 .. 30 - k /\ 30 - (30 - k) = k
      OBVIOUS
    <3>. HIDE DEF same
    <3>. QED
      BY <3>1
  <2>2. SUFFICES ASSUME T # {} PROVE FALSE
    OBVIOUS
  <2>3. T \subseteq Nat
    OBVIOUS
  <2>4. PICK j \in T : \A l \in T : j <= l
    BY <2>2, <2>3, LeastOf
  <2>. DEFINE i == 30 - j
  <2>5. j \in 0 .. 30 - k /\ ~same(i)
    OBVIOUS
  <2>6. j # 0
    <3>1. j = 0 => 30 - j = 30
      OBVIOUS
    <3>. QED
      BY <1>4, <2>5, <3>1
  <2>7. /\ j - 1 \in 0 .. 30 - k /\ 30 - (j - 1) = i + 1 /\ i \in OffsetBits /\ i >= k
        /\ ~(j <= j - 1) /\ i \in Nat
    BY <2>5, <2>6 DEF OffsetBits
  <2>8. same(i + 1)
    <3>1. j - 1 \notin T
      BY <2>4, <2>7
    <3>. HIDE DEF same, i
    <3>. QED
      BY <2>7, <3>1
  <2>9. (n \div 2^i) % 2 = (m \div 2^i) % 2
    BY <1>3, <1>5, <2>7
  <2>. HIDE DEF i
  <2>10. n \div 2^i = m \div 2^i
    <3>1. /\ n \div 2^i = 2 * (n \div 2^(i + 1)) + ((n \div 2^i) % 2)
          /\ m \div 2^i = 2 * (m \div 2^(i + 1)) + ((m \div 2^i) % 2)
      BY <1>2, <2>7
    <3>2. n \div 2^(i + 1) = m \div 2^(i + 1)
      BY <2>8
    <3>. QED
      BY <2>9, <3>1, <3>2, Zenon
  <2>. QED
    BY <2>5, <2>10
<1>6. ASSUME same(k)
      PROVE  \A i \in OffsetBits : i >= k => (i \in Bits(n) <=> i \in Bits(m))
  <2>. DEFINE T == {i \in Nat : i >= k /\ ~same(i)}
  <2>1. T = {}
    <3>1. SUFFICES ASSUME T # {} PROVE FALSE
      OBVIOUS
    <3>2. PICK i \in T : \A l \in T : i <= l
      BY <3>1, LeastOf
    <3>3. i \in Nat /\ i >= k /\ ~same(i)
      OBVIOUS
    <3>4. i # k
      BY <1>6, <3>3
    <3>5. i - 1 \in Nat /\ i - 1 >= k /\ (i - 1) + 1 = i /\ ~(i <= i - 1)
      BY <3>3, <3>4
    <3>6. same(i - 1)
      BY <3>2, <3>5
    <3>. DEFINE h == i - 1
    <3>7. h \in Nat /\ same(h) /\ ~same(h + 1)
      BY <3>3, <3>5, <3>6
    <3>. HIDE DEF h
    <3>. QED
      <4>1. /\ n \div 2^(h + 1) = (n \div 2^h) \div 2
            /\ m \div 2^(h + 1) = (m \div 2^h) \div 2
        BY <1>2, <3>7
      <4>2. n \div 2^h = m \div 2^h /\ n \div 2^(h + 1) # m \div 2^(h + 1)
        BY <3>7
      <4>. QED
        BY <4>1, <4>2, Zenon
  <2>2. ASSUME NEW i \in OffsetBits, i >= k
        PROVE  (n \div 2^i) % 2 = (m \div 2^i) % 2
    <3>1. i \in Nat
      BY DEF OffsetBits
    <3>2. i \notin T
      BY <2>1
    <3>. HIDE DEF T
    <3>. QED
      BY <2>2, <3>1, <3>2 DEF T
  <2>. QED
    BY <1>3, <2>2
<1>. QED
  BY <1>5, <1>6

-----------------------------------------------------------------------------
(* morton_order.                                                           *)

(* Where a bit goes when its word is spread by groups of k.                *)
SpreadTo(i, k) == IF (i \div k) % 2 = 0 THEN i ELSE i + k

LEMMA SpreadBy ==
  ASSUME NEW bits \in SUBSET Nat, NEW k \in {16, 8, 4, 2, 1}
  PROVE  /\ Spread(bits, k) = {SpreadTo(i, k) : i \in bits}
         /\ Spread(bits, k) \in SUBSET Nat
<1>1. \A i \in Nat : (i \div k) % 2 = 0 \/ (i \div k) % 2 = 1
  OBVIOUS
<1>2. \A i \in Nat : ((i + k) \div k) % 2 = 1 - ((i \div k) % 2)
  <2>1. CASE k = 16 BY <2>1
  <2>2. CASE k = 8 BY <2>2
  <2>3. CASE k = 4 BY <2>3
  <2>4. CASE k = 2 BY <2>4
  <2>5. CASE k = 1 BY <2>5
  <2>. QED
    BY <2>1, <2>2, <2>3, <2>4, <2>5
<1>3. ASSUME NEW j \in Spread(bits, k)
      PROVE  j \in {SpreadTo(i, k) : i \in bits}
  <2>1. (j \div k) % 2 = 0 /\ (j \in bits \/ \E i \in bits : j = i + k)
    BY DEF Spread
  <2>2. CASE j \in bits
    BY <2>1, <2>2 DEF SpreadTo
  <2>3. CASE \E i \in bits : j = i + k
    <3>1. PICK i \in bits : j = i + k
      BY <2>3
    <3>2. ((i + k) \div k) % 2 = 1 - ((i \div k) % 2)
      BY <1>2
    <3>3. ~((i \div k) % 2 = 0)
      BY <2>1, <3>1, <3>2
    <3>. QED
      BY <3>1, <3>3 DEF SpreadTo
  <2>. QED
    BY <2>1, <2>2, <2>3
<1>4. ASSUME NEW i \in bits
      PROVE  SpreadTo(i, k) \in Spread(bits, k)
  <2>1. ((i + k) \div k) % 2 = 1 - ((i \div k) % 2)
    BY <1>2
  <2>2. CASE (i \div k) % 2 = 0
    BY <2>2 DEF SpreadTo, Spread
  <2>3. CASE ~((i \div k) % 2 = 0)
    <3>1. (i \div k) % 2 = 1
      BY <1>1, <2>3
    <3>2. ((i + k) \div k) % 2 = 0
      BY <2>1, <3>1
    <3>. QED
      BY <2>3, <3>2 DEF SpreadTo, Spread
  <2>. QED
    BY <2>2, <2>3
<1>5. \A i \in Nat : SpreadTo(i, k) \in Nat
  BY DEF SpreadTo
<1>. QED
  BY <1>3, <1>4, <1>5

(* spread_bits leaves a gap after every bit.                               *)
THEOREM SpreadBitsDoubles ==
  ASSUME NEW bits \in SUBSET OffsetBits
  PROVE  SpreadBits(bits) = {2 * i : i \in bits}
<1>. DEFINE a == Spread(bits, 16)
            b == Spread(a, 8)
            c == Spread(b, 4)
            d == Spread(c, 2)
            e == Spread(d, 1)
<1>1. SpreadBits(bits) = e
  BY DEF SpreadBits
<1>2. bits \in SUBSET Nat
  BY DEF OffsetBits
<1>3. a = {SpreadTo(i, 16) : i \in bits} /\ a \in SUBSET Nat
  BY <1>2, SpreadBy
<1>. HIDE DEF a
<1>4. b = {SpreadTo(i, 8) : i \in a} /\ b \in SUBSET Nat
  BY <1>3, SpreadBy
<1>. HIDE DEF b
<1>5. c = {SpreadTo(i, 4) : i \in b} /\ c \in SUBSET Nat
  BY <1>4, SpreadBy
<1>. HIDE DEF c
<1>6. d = {SpreadTo(i, 2) : i \in c} /\ d \in SUBSET Nat
  BY <1>5, SpreadBy
<1>. HIDE DEF d
<1>7. e = {SpreadTo(i, 1) : i \in d}
  BY <1>6, SpreadBy
<1>. HIDE DEF e
<1>8. \A i \in OffsetBits : SpreadTo(i, 16) = 32 * (i \div 16) + (i % 16)
  BY DEF OffsetBits, SpreadTo
<1>9. \A i \in OffsetBits :
        SpreadTo(32 * (i \div 16) + (i % 16), 8) = 16 * (i \div 8) + (i % 8)
  BY DEF OffsetBits, SpreadTo
<1>10. \A i \in OffsetBits :
        SpreadTo(16 * (i \div 8) + (i % 8), 4) = 8 * (i \div 4) + (i % 4)
  BY DEF OffsetBits, SpreadTo
<1>11. \A i \in OffsetBits :
        SpreadTo(8 * (i \div 4) + (i % 4), 2) = 4 * (i \div 2) + (i % 2)
  BY DEF OffsetBits, SpreadTo
<1>12. \A i \in OffsetBits : SpreadTo(4 * (i \div 2) + (i % 2), 1) = 2 * i
  BY DEF OffsetBits, SpreadTo
<1>13. a = {32 * (i \div 16) + (i % 16) : i \in bits}
  BY <1>3, <1>8
<1>14. b = {16 * (i \div 8) + (i % 8) : i \in bits}
  BY <1>4, <1>9, <1>13
<1>15. c = {8 * (i \div 4) + (i % 4) : i \in bits}
  BY <1>5, <1>10, <1>14
<1>16. d = {4 * (i \div 2) + (i % 2) : i \in bits}
  BY <1>6, <1>11, <1>15
<1>17. e = {2 * i : i \in bits}
  BY <1>7, <1>12, <1>16
<1>. QED
  BY <1>1, <1>17

(* A key alternates the bits of both offsets, z above x.                   *)
LEMMA KeyBits ==
  ASSUME NEW b, NEW p
  PROVE  /\ MortonKey(b, p) \subseteq 0 .. 59
         /\ \A i \in OffsetBits :
              /\ 2 * i \in MortonKey(b, p) <=> i \in Bits(p[1] - b.minX)
              /\ 2 * i + 1 \in MortonKey(b, p) <=> i \in Bits(p[2] - b.minZ)
<1>. DEFINE X == Bits(p[1] - b.minX)
            Z == Bits(p[2] - b.minZ)
<1>1. X \in SUBSET OffsetBits /\ Z \in SUBSET OffsetBits
  BY DEF Bits
<1>2. MortonKey(b, p) = SpreadBits(X) \cup {i + 1 : i \in SpreadBits(Z)}
  BY DEF MortonKey
<1>. HIDE DEF X, Z
<1>3. SpreadBits(X) = {2 * i : i \in X} /\ SpreadBits(Z) = {2 * i : i \in Z}
  BY <1>1, SpreadBitsDoubles
<1>4. MortonKey(b, p) = {2 * i : i \in X} \cup {2 * i + 1 : i \in Z}
  BY <1>2, <1>3
<1>5. \A j \in X \cup Z : j \in 0 .. 29
  BY <1>1 DEF OffsetBits
<1>6. MortonKey(b, p) \subseteq 0 .. 59
  BY <1>4, <1>5
<1>7. ASSUME NEW i \in OffsetBits
      PROVE  /\ 2 * i \in MortonKey(b, p) <=> i \in X
             /\ 2 * i + 1 \in MortonKey(b, p) <=> i \in Z
  <2>1. i \in Int /\ \A j \in X \cup Z : j \in Int
    BY <1>5 DEF OffsetBits
  <2>2. \A j \in X \cup Z : /\ 2 * i = 2 * j => i = j
                            /\ 2 * i + 1 = 2 * j + 1 => i = j
                            /\ 2 * i # 2 * j + 1 /\ 2 * i + 1 # 2 * j
    BY <2>1
  <2>. QED
    BY <1>4, <2>2
<1>. QED
  BY <1>6, <1>7 DEF X, Z

(* Numbers are compared by the highest bit in which they differ.           *)
LEMMA BelowOrders ==
  /\ \A s : ~Below(s, s)
  /\ \A s, t, u \in SUBSET Nat : Below(s, t) /\ Below(t, u) => Below(s, u)
  /\ \A s, t \in SUBSET (0 .. 59) : s = t \/ Below(s, t) \/ Below(t, s)
<1>1. \A s : ~Below(s, s)
  BY DEF Below
<1>2. ASSUME NEW s \in SUBSET Nat, NEW t \in SUBSET Nat, NEW u \in SUBSET Nat,
             Below(s, t), Below(t, u)
      PROVE  Below(s, u)
  <2>1. PICK i \in t \ s : \A j \in s \ t : j < i
    BY <1>2 DEF Below
  <2>2. PICK k \in u \ t : \A j \in t \ u : j < k
    BY <1>2 DEF Below
  <2>3. i \in Nat /\ k \in Nat /\ i # k
    BY <2>1, <2>2
  <2>4. CASE i < k
    <3>1. k \in u \ s
      BY <2>1, <2>2, <2>3, <2>4
    <3>2. \A j \in s \ u : j < k
      BY <2>1, <2>2, <2>3, <2>4
    <3>. QED
      BY <3>1, <3>2 DEF Below
  <2>5. CASE k < i
    <3>1. i \in u \ s
      BY <2>1, <2>2, <2>3, <2>5
    <3>2. \A j \in s \ u : j < i
      BY <2>1, <2>2, <2>3, <2>5
    <3>. QED
      BY <3>1, <3>2 DEF Below
  <2>. QED
    BY <2>3, <2>4, <2>5
<1>3. ASSUME NEW s \in SUBSET (0 .. 59), NEW t \in SUBSET (0 .. 59), s # t
      PROVE  Below(s, t) \/ Below(t, s)
  <2>. DEFINE D == (s \ t) \cup (t \ s)
              T == {59 - i : i \in D}
  <2>1. T \subseteq Nat /\ T # {}
    BY <1>3
  <2>2. PICK x \in T : \A y \in T : x <= y
    BY <2>1, LeastOf
  <2>3. PICK i \in D : x = 59 - i
    OBVIOUS
  <2>4. \A j \in D : j <= i
    <3>. TAKE j \in D
    <3>1. 59 - i <= 59 - j
      BY <2>2, <2>3
    <3>. QED
      BY <3>1
  <2>5. CASE i \in t \ s
    BY <2>4, <2>5 DEF Below
  <2>6. CASE i \in s \ t
    BY <2>4, <2>6 DEF Below
  <2>. QED
    BY <2>5, <2>6
<1>. QED
  BY <1>1, <1>2, <1>3, Zenon

(* What lies between two numbers shares the high bits that they share.     *)
LEMMA BetweenAgrees ==
  ASSUME NEW s \in SUBSET Nat, NEW t \in SUBSET Nat, NEW u \in SUBSET Nat,
         Below(s, t), Below(t, u), NEW m \in Nat,
         \A j \in Nat : j >= m => (j \in s <=> j \in u)
  PROVE  \A j \in Nat : j >= m => (j \in s <=> j \in t)
<1>1. PICK i \in t \ s : \A j \in s \ t : j < i
  BY DEF Below
<1>2. PICK k \in u \ t : \A j \in t \ u : j < k
  BY DEF Below
<1>3. i \in Nat /\ k \in Nat
  BY <1>1, <1>2
<1>4. ASSUME NEW h \in t \ s, h >= m, \A j \in s \ t : j < h
      PROVE  FALSE
  <2>1. h \in Nat /\ h \in t \ u
    BY <1>4
  <2>2. h < k /\ k >= m
    BY <1>2, <1>3, <1>4, <2>1
  <2>3. k \in s \ t
    BY <1>2, <1>3, <2>2
  <2>4. k < h
    BY <1>4, <2>3
  <2>. QED
    BY <1>3, <2>1, <2>2, <2>4
<1>5. i < m
  BY <1>1, <1>3, <1>4
<1>6. ASSUME NEW j \in Nat, j >= m
      PROVE  j \in s <=> j \in t
  <2>1. j \notin s \ t
    BY <1>1, <1>3, <1>5, <1>6
  <2>2. j \notin t \ s
    <3>1. SUFFICES ASSUME j \in t \ s PROVE FALSE
      OBVIOUS
    <3>2. \A l \in s \ t : l < j
      BY <1>1, <1>3, <1>5, <1>6
    <3>. QED
      BY <1>4, <1>6, <3>1, <3>2
  <2>. QED
    BY <2>1, <2>2
<1>. QED
  BY <1>6

LEMMA Offsets ==
  ASSUME NEW b, IsBounds(b), Width(b) <= 2^30, Depth(b) <= 2^30,
         NEW p \in PositionsIn(b)
  PROVE  /\ p = <<p[1], p[2]>>
         /\ p[1] - b.minX \in 0 .. 2^30 - 1 /\ p[2] - b.minZ \in 0 .. 2^30 - 1
<1>1. /\ b.minX \in Int /\ b.maxX \in Int /\ b.minZ \in Int /\ b.maxZ \in Int
      /\ b.maxX - b.minX + 1 <= 2^30 /\ b.maxZ - b.minZ + 1 <= 2^30
  BY DEF IsBounds, Width, Depth
<1>2. p \in (b.minX .. b.maxX) \X (b.minZ .. b.maxZ)
  BY DEF PositionsIn
<1>. DEFINE x0 == b.minX  x1 == b.maxX  z0 == b.minZ  z1 == b.maxZ  top == 2^30
<1>. HIDE DEF x0, x1, z0, z1
<1>3. /\ x0 \in Int /\ x1 \in Int /\ z0 \in Int /\ z1 \in Int
      /\ x1 - x0 + 1 <= top /\ z1 - z0 + 1 <= top
      /\ p \in (x0 .. x1) \X (z0 .. z1) /\ top \in Int
  BY <1>1, <1>2 DEF x0, x1, z0, z1
<1>. HIDE DEF top
<1>4. p = <<p[1], p[2]>> /\ p[1] - x0 \in 0 .. top - 1 /\ p[2] - z0 \in 0 .. top - 1
  BY <1>3
<1>. QED
  BY <1>4 DEF x0, z0, top

(* Two keys share their bits from 2 * k on exactly if the positions lie in *)
(* one aligned block of side 2^k.                                          *)
LEMMA KeysAgree ==
  ASSUME NEW b, IsBounds(b), Width(b) <= 2^30, Depth(b) <= 2^30,
         NEW p \in PositionsIn(b), NEW q \in PositionsIn(b), NEW k \in 0 .. 29
  PROVE  (\A j \in Nat : j >= 2 * k => (j \in MortonKey(b, p) <=> j \in MortonKey(b, q)))
           <=> /\ (p[1] - b.minX) \div 2^k = (q[1] - b.minX) \div 2^k
               /\ (p[2] - b.minZ) \div 2^k = (q[2] - b.minZ) \div 2^k
<1>. DEFINE px == p[1] - b.minX  pz == p[2] - b.minZ
            qx == q[1] - b.minX  qz == q[2] - b.minZ
            s == MortonKey(b, p)
            t == MortonKey(b, q)
            agree(m, n) == \A i \in OffsetBits : i >= k => (i \in Bits(m) <=> i \in Bits(n))
<1>1. /\ px \in 0 .. 2^30 - 1 /\ pz \in 0 .. 2^30 - 1
      /\ qx \in 0 .. 2^30 - 1 /\ qz \in 0 .. 2^30 - 1
  BY Offsets
<1>2. /\ s \subseteq 0 .. 59 /\ t \subseteq 0 .. 59
      /\ \A i \in OffsetBits :
           /\ 2 * i \in s <=> i \in Bits(px)
           /\ 2 * i + 1 \in s <=> i \in Bits(pz)
           /\ 2 * i \in t <=> i \in Bits(qx)
           /\ 2 * i + 1 \in t <=> i \in Bits(qz)
  BY KeyBits
<1>. HIDE DEF px, pz, qx, qz, s, t
<1>3. /\ agree(px, qx) <=> px \div 2^k = qx \div 2^k
      /\ agree(pz, qz) <=> pz \div 2^k = qz \div 2^k
  BY <1>1, BitsFrom
<1>4. ASSUME \A j \in Nat : j >= 2 * k => (j \in s <=> j \in t)
      PROVE  agree(px, qx) /\ agree(pz, qz)
  <2>1. SUFFICES ASSUME NEW i \in OffsetBits, i >= k
                 PROVE  /\ i \in Bits(px) <=> i \in Bits(qx)
                        /\ i \in Bits(pz) <=> i \in Bits(qz)
    OBVIOUS
  <2>2. /\ 2 * i \in Nat /\ 2 * i >= 2 * k
        /\ 2 * i + 1 \in Nat /\ 2 * i + 1 >= 2 * k
    BY <2>1 DEF OffsetBits
  <2>. QED
    BY <1>2, <1>4, <2>2
<1>5. ASSUME agree(px, qx), agree(pz, qz), NEW j \in Nat, j >= 2 * k
      PROVE  j \in s <=> j \in t
  <2>1. CASE j > 59
    BY <1>2, <2>1
  <2>2. CASE j <= 59
    <3>. DEFINE i == j \div 2
    <3>1. i \in OffsetBits /\ i >= k /\ (j = 2 * i \/ j = 2 * i + 1)
      BY <1>5, <2>2 DEF OffsetBits
    <3>. HIDE DEF i
    <3>. QED
      BY <1>2, <1>5, <3>1
  <2>. QED
    BY <2>1, <2>2
<1>6. (\A j \in Nat : j >= 2 * k => (j \in s <=> j \in t))
        <=> px \div 2^k = qx \div 2^k /\ pz \div 2^k = qz \div 2^k
  <2>. HIDE DEF agree
  <2>. QED
    BY <1>3, <1>4, <1>5
<1>. QED
  BY <1>6 DEF px, pz, qx, qz, s, t

(* No two positions of a rectangle share a key of its order.               *)
LEMMA MortonKeysDiffer ==
  ASSUME NEW b, IsBounds(b), Width(b) <= 2^30, Depth(b) <= 2^30,
         NEW p \in PositionsIn(b), NEW q \in PositionsIn(b),
         MortonKey(b, p) = MortonKey(b, q)
  PROVE  p = q
<1>1. /\ (p[1] - b.minX) \div 2^0 = (q[1] - b.minX) \div 2^0
      /\ (p[2] - b.minZ) \div 2^0 = (q[2] - b.minZ) \div 2^0
  BY KeysAgree
<1>2. \A n \in 0 .. 2^30 - 1 : n \div 2^0 = n
  OBVIOUS
<1>3. p[1] - b.minX = q[1] - b.minX /\ p[2] - b.minZ = q[2] - b.minZ
  BY <1>1, <1>2, Offsets
<1>4. p[1] = q[1] /\ p[2] = q[2]
  <2>1. p \in Int \X Int /\ q \in Int \X Int /\ b.minX \in Int /\ b.minZ \in Int
    BY DEF PositionsIn, IsBounds
  <2>. DEFINE x0 == b.minX  z0 == b.minZ  x == p[1]  z == p[2]  u == q[1]  v == q[2]
  <2>2. /\ x \in Int /\ z \in Int /\ u \in Int /\ v \in Int /\ x0 \in Int /\ z0 \in Int
        /\ x - x0 = u - x0 /\ z - z0 = v - z0
    BY <1>3, <2>1
  <2>. HIDE DEF x0, z0, x, z, u, v
  <2>3. x = u /\ z = v
    BY <2>2
  <2>. QED
    BY <2>3 DEF x, z, u, v
<1>. QED
  BY <1>4, Offsets

(* morton_order is every position once, in the order of the keys.          *)
LEMMA MortonSorted ==
  ASSUME NEW b, IsBounds(b), Width(b) <= 2^30, Depth(b) <= 2^30
  PROVE  /\ DOMAIN MortonOrder(b) = 1 .. Count(b)
         /\ Len(MortonOrder(b)) = Count(b)
         /\ {MortonOrder(b)[i] : i \in DOMAIN MortonOrder(b)} = PositionsIn(b)
         /\ \A i, j \in DOMAIN MortonOrder(b) :
              i < j => Below(MortonKey(b, MortonOrder(b)[i]), MortonKey(b, MortonOrder(b)[j]))
<1>. DEFINE P == PositionsIn(b)
            key == [p \in P |-> MortonKey(b, p)]
            K == Keyed(P, key)
            B == {e \in K \X K : Below(e[1][1], e[2][1])}
<1>1. IsFiniteSet(P) /\ Cardinality(P) = Count(b)
  BY PositionsCounted
<1>2. \A p \in P : key[p] = MortonKey(b, p) /\ MortonKey(b, p) \in SUBSET (0 .. 59)
  BY KeyBits
<1>3. \A k \in K : /\ k[1] \in SUBSET (0 .. 59) /\ k[2] \in P
                   /\ k = <<k[1], k[2]>> /\ k[1] = MortonKey(b, k[2])
  <2>. HIDE DEF key, P
  <2>. QED
    BY <1>2 DEF Keyed
<1>4. \A k, l \in K : k[1] = l[1] => k = l
  <2>. TAKE k \in K, l \in K
  <2>. HAVE k[1] = l[1]
  <2>. HIDE DEF K
  <2>1. MortonKey(b, k[2]) = MortonKey(b, l[2]) /\ k[2] \in P /\ l[2] \in P
    BY <1>3
  <2>2. k[2] = l[2]
    BY <2>1, MortonKeysDiffer
  <2>. QED
    BY <1>3, <2>2
<1>5. Orders(B, K)
  <2>. HIDE DEF K
  <2>1. \A k, l \in K : <<k, l>> \in B <=> Below(k[1], l[1])
    OBVIOUS
  <2>2. /\ \A s : ~Below(s, s)
        /\ \A s, t, u \in SUBSET (0 .. 59) : Below(s, t) /\ Below(t, u) => Below(s, u)
        /\ \A s, t \in SUBSET (0 .. 59) : s = t \/ Below(s, t) \/ Below(t, s)
    <3>1. SUBSET (0 .. 59) \subseteq SUBSET Nat
      OBVIOUS
    <3>. QED
      BY <3>1, BelowOrders
  <2>. HIDE DEF B
  <2>. QED
    BY <1>3, <1>4, <2>1, <2>2 DEF Orders
<1>6. MortonOrder(b) = Placed(B, K)
  <2>1. K = {<<MortonKey(b, p), p>> : p \in P}
    BY DEF Keyed
  <2>. HIDE DEF K
  <2>2. \A k \in K : Before(B, K, k) = {l \in K : Below(l[1], k[1])}
    BY DEF Before
  <2>. HIDE DEF B
  <2>3. {<<Cardinality(Before(B, K, k)), k[2]>> : k \in K} =
          {<<Cardinality({l \in K : Below(l[1], k[1])}), k[2]>> : k \in K}
    BY <2>2
  <2>4. MortonOrder(b) = Sorted(K, Below)
    BY <2>1 DEF MortonOrder
  <2>. QED
    BY <2>3, <2>4, Zenon DEF Sorted, Placed
<1>. DEFINE s == MortonOrder(b)
<1>7. /\ DOMAIN s = 1 .. Cardinality(P) /\ Len(s) = Cardinality(P)
      /\ {s[i] : i \in DOMAIN s} = P
      /\ \A i, j \in DOMAIN s : i < j => <<<<key[s[i]], s[i]>>, <<key[s[j]], s[j]>>>> \in B
  <2>. HIDE DEF key, P, B
  <2>. QED
    BY <1>1, <1>5, <1>6, SortedPositions
<1>8. ASSUME NEW i \in DOMAIN s, NEW j \in DOMAIN s, i < j
      PROVE  Below(MortonKey(b, s[i]), MortonKey(b, s[j]))
  <2>1. <<<<key[s[i]], s[i]>>, <<key[s[j]], s[j]>>>> \in B /\ s[i] \in P /\ s[j] \in P
    BY <1>7, <1>8
  <2>2. Below(key[s[i]], key[s[j]])
    BY <2>1
  <2>. HIDE DEF key, s
  <2>. QED
    BY <1>2, <2>1, <2>2
<1>. QED
  BY <1>1, <1>7, <1>8

-----------------------------------------------------------------------------
(* Plans.                                                                  *)

LEMMA SquareIsBounds ==
  ASSUME NEW cx \in Int, NEW cz \in Int, NEW r \in Nat \ {0}
  PROVE  IsBounds(SquareBounds(cx, cz, r))
<1>1. /\ cx - r \in Int /\ cx + r - 1 \in Int /\ cx - r <= cx + r - 1
      /\ cz - r \in Int /\ cz + r - 1 \in Int /\ cz - r <= cz + r - 1
  OBVIOUS
<1>2. /\ BlockToChunk(cx - r) \in Int /\ BlockToChunk(cx + r - 1) \in Int
      /\ BlockToChunk(cx - r) <= BlockToChunk(cx + r - 1)
      /\ BlockToChunk(cz - r) \in Int /\ BlockToChunk(cz + r - 1) \in Int
      /\ BlockToChunk(cz - r) <= BlockToChunk(cz + r - 1)
  BY <1>1, BlockInItsColumn, BlockToChunkMonotone
<1>. QED
  BY <1>2 DEF SquareBounds, IsBounds

LEMMA HaloAround ==
  ASSUME NEW t, IsBounds(t), NEW g, g = GenerationBounds(t)
  PROVE  /\ IsBounds(g)
         /\ g.minX = t.minX - Halo /\ g.maxX = t.maxX + Halo
         /\ g.minZ = t.minZ - Halo /\ g.maxZ = t.maxZ + Halo
         /\ {p \in PositionsIn(g) : Contains(t, p)} = PositionsIn(t)
         /\ PositionsIn(t) \subseteq PositionsIn(g)
<1>1. Halo \in Nat
  BY PlanAssumption
<1>2. /\ g.minX = t.minX - Halo /\ g.maxX = t.maxX + Halo
      /\ g.minZ = t.minZ - Halo /\ g.maxZ = t.maxZ + Halo
  BY DEF GenerationBounds, Expanded
<1>3. IsBounds(g)
  BY <1>1, <1>2 DEF IsBounds
<1>4. /\ (t.minX .. t.maxX) \subseteq g.minX .. g.maxX
      /\ (t.minZ .. t.maxZ) \subseteq g.minZ .. g.maxZ
  BY <1>1, <1>2 DEF IsBounds
<1>5. PositionsIn(t) \subseteq PositionsIn(g)
  BY <1>4 DEF PositionsIn
<1>6. ASSUME NEW p \in PositionsIn(g)
      PROVE  Contains(t, p) <=> p \in PositionsIn(t)
  <2>1. p = <<p[1], p[2]>> /\ p[1] \in Int /\ p[2] \in Int
    BY <1>3 DEF PositionsIn, IsBounds
  <2>2. /\ p[1] \in t.minX .. t.maxX <=> t.minX <= p[1] /\ p[1] <= t.maxX
        /\ p[2] \in t.minZ .. t.maxZ <=> t.minZ <= p[2] /\ p[2] <= t.maxZ
    BY <2>1 DEF IsBounds
  <2>3. p \in PositionsIn(t) <=> p[1] \in t.minX .. t.maxX /\ p[2] \in t.minZ .. t.maxZ
    BY <2>1 DEF PositionsIn
  <2>. QED
    BY <2>2, <2>3 DEF Contains
<1>. QED
  BY <1>2, <1>3, <1>5, <1>6

(* A bounded plan's square is small enough for its Morton keys.            *)
LEMMA BoundedWidth ==
  ASSUME NEW t, IsBounds(t), Count(t) <= TargetLimit, NEW g, g = GenerationBounds(t)
  PROVE  Width(g) <= 2^30 /\ Depth(g) <= 2^30
<1>. DEFINE w == Width(t)  d == Depth(t)  top == 2^30
<1>1. w \in Nat \ {0} /\ d \in Nat \ {0} /\ w * d <= TargetLimit
  BY PositionsCounted DEF Count
<1>2. /\ Halo \in Nat /\ TargetLimit \in Nat /\ TargetLimit + 2 * Halo <= top
  BY PlanAssumption
<1>3. Width(g) = w + 2 * Halo /\ Depth(g) = d + 2 * Halo
  BY <1>2, HaloAround DEF Width, Depth, IsBounds
<1>4. top \in Int
  OBVIOUS
<1>. HIDE DEF w, d, top
<1>5. w <= w * d /\ d <= w * d /\ w * d \in Int
  BY <1>1
<1>. QED
  BY <1>1, <1>2, <1>3, <1>4, <1>5 DEF top

(* Whatever the center and the radius: handleStart's plan requests every   *)
(* column of the halo's square exactly once, its targets are the columns   *)
(* of the square, and at least one and at most all of its columns may be   *)
(* awaited at once.                                                        *)
THEOREM PlanShape ==
  ASSUME NEW cx \in Int, NEW cz \in Int, NEW r \in Nat \ {0}, NEW dim,
         NEW pl, pl = PlanFor(dim, cx, cz, r),
         NEW t, t = SquareBounds(cx, cz, r), NEW g, g = GenerationBounds(t)
  PROVE  /\ IsBounds(t) /\ IsBounds(g)
         /\ pl.order \in Seq(PositionsIn(g)) /\ Len(pl.order) = Count(g)
         /\ DOMAIN pl.order = 1 .. Count(g)
         /\ {pl.order[i] : i \in DOMAIN pl.order} = PositionsIn(g)
         /\ pl.target = PositionsIn(t) /\ Cardinality(pl.target) = Count(t)
         /\ pl.window \in 1 .. Len(pl.order)
         /\ pl.dim = dim
<1>1. IsBounds(t) /\ IsBounds(g) /\ pl.target = PositionsIn(t)
  BY SquareIsBounds, HaloAround DEF PlanFor
<1>2. Cardinality(pl.target) = Count(t)
  BY <1>1, PositionsCounted
<1>3. /\ DOMAIN pl.order = 1 .. Count(g) /\ Len(pl.order) = Count(g)
      /\ {pl.order[i] : i \in DOMAIN pl.order} = PositionsIn(g)
  <2>1. CASE Count(t) <= TargetLimit
    <3>1. pl.order = MortonOrder(g)
      BY <2>1 DEF PlanFor
    <3>2. Width(g) <= 2^30 /\ Depth(g) <= 2^30
      BY <1>1, <2>1, BoundedWidth
    <3>. QED
      BY <1>1, <3>1, <3>2, MortonSorted
  <2>2. CASE ~(Count(t) <= TargetLimit)
    <3>1. pl.order = CenterOut(g)
      BY <2>2 DEF PlanFor
    <3>. QED
      BY <1>1, <3>1, CenterOutSorted
  <2>. QED
    BY <2>1, <2>2
<1>4. Count(g) \in Nat \ {0}
  BY <1>1, PositionsCounted
<1>5. pl.order \in Seq(PositionsIn(g))
  <2>1. pl.order \in [1 .. Count(g) -> PositionsIn(g)]
    <3>1. \A i \in 1 .. Count(g) : pl.order[i] \in PositionsIn(g)
      BY <1>3
    <3>2. pl.order = [i \in DOMAIN pl.order |-> pl.order[i]]
      <4>1. CASE Count(t) <= TargetLimit
        BY <4>1 DEF PlanFor, MortonOrder, Sorted
      <4>2. CASE ~(Count(t) <= TargetLimit)
        BY <4>2 DEF PlanFor, CenterOut, Sorted
      <4>. QED
        BY <4>1, <4>2
    <3>. QED
      BY <1>3, <3>1, <3>2
  <2>. QED
    BY <1>4, <2>1
<1>6. pl.window \in 1 .. Len(pl.order)
  <2>1. MaxActive \in Nat \ {0}
    BY PlanAssumption
  <2>2. (pl.window = MaxActive /\ MaxActive < Len(pl.order)) \/ pl.window = Len(pl.order)
    BY DEF PlanFor
  <2>. QED
    BY <1>3, <1>4, <2>1, <2>2
<1>7. pl.dim = dim
  BY DEF PlanFor
<1>. QED
  BY <1>1, <1>2, <1>3, <1>5, <1>6, <1>7

-----------------------------------------------------------------------------
(* What a plan promises the job.                                           *)

(* Every plan that handleStart makes is one that RenderJob can carry out:  *)
(* its order repeats no column and has all the targets, of which there is  *)
(* at least one, and its window is open.                                   *)
THEOREM PlanKeepsPromise ==
  ASSUME NEW cx \in Int, NEW cz \in Int, NEW r \in Nat \ {0}, NEW dim,
         NEW pl, pl = PlanFor(dim, cx, cz, r)
  PROVE  WellPlanned(pl)
<1>. DEFINE t == SquareBounds(cx, cz, r)
            g == GenerationBounds(t)
            n == Count(g)
            P == PositionsIn(g)
            s == pl.order
<1>1. /\ IsBounds(t) /\ IsBounds(g)
      /\ s \in Seq(P) /\ Len(s) = n /\ DOMAIN s = 1 .. n
      /\ {s[i] : i \in DOMAIN s} = P
      /\ pl.target = PositionsIn(t) /\ pl.window \in 1 .. Len(s)
  BY PlanShape
<1>2. /\ IsFiniteSet(P) /\ Cardinality(P) = n /\ n \in Nat \ {0}
      /\ IsFiniteSet(PositionsIn(t)) /\ PositionsIn(t) \subseteq P
  BY <1>1, PositionsCounted, HaloAround
<1>3. PositionsIn(t) # {}
  <2>. HIDE DEF t
  <2>0. IsBounds(t)
    BY <1>1
  <2>1. t.minX \in t.minX .. t.maxX /\ t.minZ \in t.minZ .. t.maxZ
    BY <2>0 DEF IsBounds
  <2>2. <<t.minX, t.minZ>> \in PositionsIn(t)
    BY <2>1, Zenon DEF PositionsIn
  <2>. QED
    BY <2>2
<1>4. DOMAIN pl = {"dim", "order", "target", "window"}
  BY DEF PlanFor
<1>. HIDE DEF t, g, n, P, s
<1>5. \A i, j \in 1 .. n : s[i] = s[j] => i = j
  <2>1. IsFiniteSet(1 .. n) /\ Cardinality(1 .. n) = n
    BY <1>2, FS_Interval
  <2>2. s \in [1 .. n -> P]
    BY <1>1
  <2>3. \A p \in P : \E i \in 1 .. n : s[i] = p
    BY <1>1
  <2>4. s \in Surjection(1 .. n, P)
    BY <2>2, <2>3 DEF Surjection
  <2>5. s \in Injection(1 .. n, P)
    BY <1>2, <2>1, <2>4, FS_SurjSameCardinalityImpliesInj
  <2>. QED
    BY <2>5 DEF Injection, IsInjective
<1>6. pl.window \in Nat \ {0}
  BY <1>1, <1>2
<1>. QED
  BY <1>1, <1>2, <1>3, <1>4, <1>5, <1>6 DEF WellPlanned, s

(* The columns of a square's halo.                                         *)
LEMMA HaloCounted ==
  ASSUME NEW t, IsBounds(t), NEW g, g = GenerationBounds(t)
  PROVE  /\ IsFiniteSet(PositionsIn(g) \ PositionsIn(t))
         /\ Cardinality(PositionsIn(g) \ PositionsIn(t)) =
              2 * Halo * (Width(t) + Depth(t) + 2 * Halo)
<1>. DEFINE w == Width(t)  d == Depth(t)  h == 2 * Halo
<1>1. /\ IsBounds(g) /\ PositionsIn(t) \subseteq PositionsIn(g)
      /\ Width(g) = w + h /\ Depth(g) = d + h /\ h \in Nat
  <2>1. /\ IsBounds(g) /\ PositionsIn(t) \subseteq PositionsIn(g)
        /\ g.minX = t.minX - Halo /\ g.maxX = t.maxX + Halo
        /\ g.minZ = t.minZ - Halo /\ g.maxZ = t.maxZ + Halo
    BY HaloAround
  <2>2. Halo \in Nat
    BY PlanAssumption
  <2>. DEFINE x0 == t.minX  x1 == t.maxX  z0 == t.minZ  z1 == t.maxZ
  <2>3. x0 \in Int /\ x1 \in Int /\ z0 \in Int /\ z1 \in Int
    BY DEF IsBounds
  <2>. HIDE DEF x0, x1, z0, z1
  <2>4. /\ Width(g) = (x1 + Halo) - (x0 - Halo) + 1 /\ Width(t) = x1 - x0 + 1
        /\ Depth(g) = (z1 + Halo) - (z0 - Halo) + 1 /\ Depth(t) = z1 - z0 + 1
    BY <2>1, Zenon DEF Width, Depth, x0, x1, z0, z1
  <2>5. Width(g) = w + h /\ Depth(g) = d + h /\ h \in Nat
    BY <2>2, <2>3, <2>4
  <2>. QED
    BY <2>1, <2>5
<1>2. /\ w \in Nat \ {0} /\ d \in Nat \ {0}
      /\ IsFiniteSet(PositionsIn(g)) /\ IsFiniteSet(PositionsIn(t))
      /\ Cardinality(PositionsIn(g)) = (w + h) * (d + h)
      /\ Cardinality(PositionsIn(t)) = w * d
  BY <1>1, PositionsCounted DEF Count
<1>3. /\ IsFiniteSet(PositionsIn(g) \ PositionsIn(t))
      /\ Cardinality(PositionsIn(g) \ PositionsIn(t)) =
           Cardinality(PositionsIn(g)) - Cardinality(PositionsIn(g) \cap PositionsIn(t))
  BY <1>2, FS_Difference
<1>4. PositionsIn(g) \cap PositionsIn(t) = PositionsIn(t)
  BY <1>1
<1>. HIDE DEF w, d, h
<1>5. (w + h) * (d + h) - w * d = h * (w + d + h)
  BY <1>1, <1>2
<1>6. Cardinality(PositionsIn(g) \ PositionsIn(t)) = h * (w + d + h)
  BY <1>2, <1>3, <1>4, <1>5, Zenon
<1>. QED
  BY <1>3, <1>6 DEF w, d, h

(* No render of W by D targets is left waiting by its window if there are  *)
(* more than TargetLimit, so that everything is requested at once, or if   *)
(* the halo is small: 12 * (W + D + 12) + 1 < 1536 in the code, which      *)
(* holds up to squares of 57 columns (fill_window, handleStart).           *)
THEOREM PlanOutgrowsHalo ==
  ASSUME NEW cx \in Int, NEW cz \in Int, NEW r \in Nat \ {0}, NEW dim,
         NEW pl, pl = PlanFor(dim, cx, cz, r), NEW t, t = SquareBounds(cx, cz, r),
         \/ Count(t) > TargetLimit
         \/ 2 * Halo * (Width(t) + Depth(t) + 2 * Halo) + 1 < MaxActive
  PROVE  WindowOutgrows(pl)
<1>. DEFINE g == GenerationBounds(t)
            halo == PositionsIn(g) \ PositionsIn(t)
<1>1. /\ IsBounds(t) /\ Len(pl.order) = Count(g) /\ DOMAIN pl.order = 1 .. Count(g)
      /\ {pl.order[i] : i \in DOMAIN pl.order} = PositionsIn(g)
      /\ pl.target = PositionsIn(t)
  BY PlanShape
<1>2. SUFFICES ASSUME pl.window # Len(pl.order)
               PROVE  Cardinality(HaloAhead(pl)) + 1 < pl.window
  BY DEF WindowOutgrows
<1>3. pl.window = MaxActive /\ Count(t) <= TargetLimit
  BY <1>2 DEF PlanFor
<1>4. 2 * Halo * (Width(t) + Depth(t) + 2 * Halo) + 1 < MaxActive
  <2>1. Count(t) \in Nat /\ TargetLimit \in Nat
    BY <1>1, PositionsCounted, PlanAssumption
  <2>2. ~(Count(t) > TargetLimit)
    BY <1>3, <2>1
  <2>. QED
    BY <2>2
<1>5. HaloAhead(pl) \subseteq halo
  BY <1>1 DEF HaloAhead
<1>6. /\ IsFiniteSet(halo)
      /\ Cardinality(halo) = 2 * Halo * (Width(t) + Depth(t) + 2 * Halo)
  BY <1>1, HaloCounted
<1>. HIDE DEF halo
<1>7. /\ Cardinality(HaloAhead(pl)) <= Cardinality(halo)
      /\ Cardinality(HaloAhead(pl)) \in Nat /\ Cardinality(halo) \in Nat
  BY <1>5, <1>6, FS_Subset, FS_CardinalityType
<1>8. Cardinality(halo) + 1 < MaxActive /\ MaxActive \in Nat
  BY <1>4, <1>6, PlanAssumption
<1>. QED
  BY <1>3, <1>7, <1>8

-----------------------------------------------------------------------------
(* What holds of every plan and of the database after it.                  *)

Halos == GenerationBounds(Square)

(* Once planned, a render's square stays what it is.                       *)
LEMMA AlwaysPlanned == Spec => []Init
<1>1. Init /\ [Next]_vars => Init'
  <2>. SUFFICES ASSUME Init, [Next]_vars PROVE Init'
    OBVIOUS
  <2>1. UNCHANGED vars
    BY DEF Next
  <2>. QED
    BY <2>1 DEF vars, Init
<1>. QED
  BY <1>1, PTL DEF Spec

LEMMA SquareTyped ==
  ASSUME Init
  PROVE  /\ Half \in Nat \ {0} /\ CoordinateSpan = 2 * Half
         /\ centerX \in -Half .. Half - 1 /\ centerZ \in -Half .. Half - 1
         /\ radius \in 1 .. Half - 1
         /\ centerX \in Int /\ centerZ \in Int /\ radius \in Nat \ {0}
         /\ dimension \in Rendered
<1>1. Half \in Nat \ {0} /\ CoordinateSpan = 2 * Half
  BY PlanAssumption, SquareAssumption DEF Half
<1>2. /\ centerX \in -Half .. Half - 1 /\ centerZ \in -Half .. Half - 1
      /\ radius \in 1 .. Half - 1
  BY SquareAssumption DEF Init
<1>. QED
  BY <1>1, <1>2 DEF Init

LEMMA Shape ==
  ASSUME Init
  PROVE  /\ IsBounds(Square) /\ IsBounds(Halos)
         /\ Len(plan.order) = Count(Halos) /\ DOMAIN plan.order = 1 .. Count(Halos)
         /\ Planned = PositionsIn(Halos)
         /\ plan.target = PositionsIn(Square)
         /\ Cardinality(plan.target) = Count(Square)
<1>1. plan = PlanFor(Name(dimension), centerX, centerZ, radius)
  BY DEF Init
<1>. QED
  BY <1>1, SquareTyped, PlanShape DEF Planned, Square, Halos

(* The targets of a render are the columns that hold a block of the square *)
(* (square_bounds, block_to_chunk), for every column size.                 *)
THEOREM TouchedTargets == Spec => []TargetsAreTouched
<1>1. Init => TargetsAreTouched
  <2>. SUFFICES ASSUME Init PROVE TargetsAreTouched
    OBVIOUS
  <2>. DEFINE blocks(c) == c * ChunkSize .. c * ChunkSize + ChunkSize - 1
              square(v) == v - radius .. v + radius - 1
              touched(p) == /\ blocks(p[1]) \cap square(centerX) # {}
                            /\ blocks(p[2]) \cap square(centerZ) # {}
  <2>1. \A c \in Int : blocks(c) = BlocksOf(c)
    <3>. TAKE c \in Int
    <3>1. ChunkSize \in Nat \ {0} /\ c * ChunkSize \in Int /\ c * ChunkSize = ChunkSize * c
      BY PlanAssumption
    <3>. QED
      BY <3>1 DEF BlocksOf
  <2>2. ASSUME NEW p \in PositionsIn(Halos)
        PROVE  Contains(Square, p) <=> touched(p)
    <3>1. p[1] \in Int /\ p[2] \in Int /\ p = <<p[1], p[2]>>
      BY Shape DEF PositionsIn, IsBounds
    <3>2. Contains(Square, <<p[1], p[2]>>)
            <=> /\ BlocksOf(p[1]) \cap square(centerX) # {}
                /\ BlocksOf(p[2]) \cap square(centerZ) # {}
      <4>. DEFINE a == p[1]  b == p[2]
      <4>1. a \in Int /\ b \in Int
        BY <3>1
      <4>. HIDE DEF a, b
      <4>2. Contains(SquareBounds(centerX, centerZ, radius), <<a, b>>)
              <=> /\ BlocksOf(a) \cap (centerX - radius .. centerX + radius - 1) # {}
                  /\ BlocksOf(b) \cap (centerZ - radius .. centerZ + radius - 1) # {}
        BY <4>1, SquareTyped, TargetsTouchTheSquare
      <4>. QED
        BY <4>2 DEF Square, a, b
    <3>. HIDE DEF blocks, square
    <3>. QED
      BY <2>1, <3>1, <3>2
  <2>3. plan.target = {p \in PositionsIn(Halos) : Contains(Square, p)}
    BY Shape, HaloAround DEF Halos
  <2>4. plan.target = {p \in Planned : touched(p)}
    <3>. HIDE DEF touched
    <3>. QED
      BY <2>2, <2>3, Shape
  <2>. QED
    BY <2>4 DEF TargetsAreTouched
<1>. QED
  BY <1>1, AlwaysPlanned, PTL

(* Every column of the targets' frontier is requested exactly once and     *)
(* nothing else is (generation_bounds, morton_order, center_out), for      *)
(* every halo and in either order.                                         *)
THEOREM FrontierRequested == Spec => []FrontierPlannedOnce
<1>1. Init => FrontierPlannedOnce
  <2>. SUFFICES ASSUME Init PROVE FrontierPlannedOnce
    OBVIOUS
  <2>. DEFINE t == Square
              x0 == t.minX  x1 == t.maxX  z0 == t.minZ  z1 == t.maxZ
  <2>1. /\ x0 \in Int /\ x1 \in Int /\ x0 <= x1 /\ z0 \in Int /\ z1 \in Int /\ z0 <= z1
        /\ Halo \in Nat
    BY Shape, PlanAssumption DEF IsBounds
  <2>2. /\ plan.target = (x0 .. x1) \X (z0 .. z1)
        /\ Planned = (x0 - Halo .. x1 + Halo) \X (z0 - Halo .. z1 + Halo)
        /\ PositionsIn(Expanded(SquareBounds(centerX, centerZ, radius), Halo + 1)) =
             (x0 - (Halo + 1) .. x1 + (Halo + 1)) \X (z0 - (Halo + 1) .. z1 + (Halo + 1))
    BY Shape, HaloAround DEF PositionsIn, Halos, Expanded, Square
  <2>3. Len(plan.order) = Cardinality(Planned)
    BY Shape, PositionsCounted
  <2>. HIDE DEF t, x0, x1, z0, z1
  <2>. DEFINE Wider == (x0 - (Halo + 1) .. x1 + (Halo + 1))
                         \X (z0 - (Halo + 1) .. z1 + (Halo + 1))
              clamp(v, low, high) == IF v < low THEN low ELSE IF v > high THEN high ELSE v
  <2>4. ASSUME NEW p \in Planned
        PROVE  p \in Wider /\ \E q \in plan.target : Near(p, q)
    <3>. DEFINE a == p[1]  b == p[2]
                i == clamp(a, x0, x1)  j == clamp(b, z0, z1)
    <3>1. p \in (x0 - Halo .. x1 + Halo) \X (z0 - Halo .. z1 + Halo)
      BY <2>2
    <3>2. a \in x0 - Halo .. x1 + Halo /\ b \in z0 - Halo .. z1 + Halo /\ p = <<a, b>>
      BY <3>1
    <3>. HIDE DEF a, b
    <3>3. a \in x0 - (Halo + 1) .. x1 + (Halo + 1) /\ b \in z0 - (Halo + 1) .. z1 + (Halo + 1)
      BY <2>1, <3>2
    <3>4. /\ i \in x0 .. x1 /\ a - i \in -Halo .. Halo
          /\ j \in z0 .. z1 /\ b - j \in -Halo .. Halo
      BY <2>1, <3>2
    <3>. HIDE DEF i, j
    <3>5. <<i, j>> \in plan.target
      BY <2>2, <3>4
    <3>6. Near(p, <<i, j>>)
      BY <3>2, <3>4 DEF Near
    <3>. QED
      BY <3>2, <3>3, <3>5, <3>6
  <2>5. ASSUME NEW p \in Wider, NEW q \in plan.target, Near(p, q)
        PROVE  p \in Planned
    <3>. DEFINE a == p[1]  b == p[2]  i == q[1]  j == q[2]
    <3>1. a \in Int /\ b \in Int /\ p = <<a, b>> /\ i \in x0 .. x1 /\ j \in z0 .. z1
      BY <2>1, <2>2
    <3>2. a - i \in -Halo .. Halo /\ b - j \in -Halo .. Halo
      BY <2>5 DEF Near
    <3>. HIDE DEF a, b, i, j
    <3>3. a \in x0 - Halo .. x1 + Halo /\ b \in z0 - Halo .. z1 + Halo
      BY <2>1, <3>1, <3>2
    <3>. QED
      BY <2>2, <3>1, <3>3
  <2>6. Planned = {p \in Wider : \E q \in plan.target : Near(p, q)}
    <3>. HIDE DEF Wider
    <3>. QED
      BY <2>4, <2>5
  <2>. QED
    BY <2>2, <2>3, <2>6 DEF FrontierPlannedOnce
<1>. QED
  BY <1>1, AlwaysPlanned, PTL

(* A plan that is not bounded is ordered by the distance to the center of  *)
(* its square (center_out, distance_key).                                  *)
THEOREM OutwardPlan == Spec => []NearestFirst
<1>1. Init => NearestFirst
  <2>. SUFFICES ASSUME Init, Cardinality(plan.target) > TargetLimit,
                       NEW i \in DOMAIN plan.order, NEW j \in DOMAIN plan.order, i < j
                PROVE  LET b == SquareBounds(centerX, centerZ, radius)
                           away(v, low, high) == (2 * v - low - high) * (2 * v - low - high)
                           far(p) == away(p[1], b.minX, b.maxX) + away(p[2], b.minZ, b.maxZ)
                       IN  far(plan.order[i]) <= far(plan.order[j])
    BY DEF NearestFirst
  <2>. DEFINE t == Square
              g == Halos
              away(v, low, high) == (2 * v - low - high) * (2 * v - low - high)
              far(p) == away(p[1], t.minX, t.maxX) + away(p[2], t.minZ, t.maxZ)
  <2>1. plan.order = CenterOut(g)
    <3>1. Count(t) \in Nat /\ TargetLimit \in Nat /\ Count(t) > TargetLimit
      BY Shape, PositionsCounted, PlanAssumption
    <3>2. ~(Count(t) <= TargetLimit)
      BY <3>1
    <3>3. plan = PlanFor(Name(dimension), centerX, centerZ, radius)
      BY DEF Init
    <3>. QED
      BY <3>2, <3>3 DEF PlanFor, Square, Halos
  <2>2. DistanceKey(g, plan.order[i]) <= DistanceKey(g, plan.order[j])
    BY <2>1, Shape, CenterOutSorted
  <2>3. ASSUME NEW p \in PositionsIn(g)
        PROVE  DistanceKey(g, p) = far(p)
    <3>. DEFINE x0 == t.minX  x1 == t.maxX  z0 == t.minZ  z1 == t.maxZ
                u0 == g.minX  u1 == g.maxX  v0 == g.minZ  v1 == g.maxZ
                a == p[1]  b == p[2]
    <3>1. /\ u0 = x0 - Halo /\ u1 = x1 + Halo /\ v0 = z0 - Halo /\ v1 = z1 + Halo
          /\ x0 \in Int /\ x1 \in Int /\ z0 \in Int /\ z1 \in Int /\ Halo \in Nat
          /\ a \in Int /\ b \in Int
      <4>1. IsBounds(t) /\ IsBounds(g) /\ g = GenerationBounds(t) /\ Halo \in Nat
        BY Shape, PlanAssumption DEF Halos
      <4>2. a \in u0 .. u1 /\ b \in v0 .. v1
        BY DEF PositionsIn
      <4>. HIDE DEF t, g
      <4>3. u0 = x0 - Halo /\ u1 = x1 + Halo /\ v0 = z0 - Halo /\ v1 = z1 + Halo
        BY <4>1, HaloAround
      <4>4. x0 \in Int /\ x1 \in Int /\ z0 \in Int /\ z1 \in Int
        BY <4>1 DEF IsBounds
      <4>. QED
        BY <4>1, <4>2, <4>3, <4>4
    <3>. HIDE DEF t, g, x0, x1, z0, z1, u0, u1, v0, v1, a, b
    <3>2. /\ a * 2 - u0 - u1 = 2 * a - x0 - x1
          /\ b * 2 - v0 - v1 = 2 * b - z0 - z1
      BY <3>1
    <3>3. DistanceKey(g, p) = (a * 2 - u0 - u1) * (a * 2 - u0 - u1)
                                + (b * 2 - v0 - v1) * (b * 2 - v0 - v1)
      BY Zenon DEF DistanceKey, a, b, u0, u1, v0, v1
    <3>4. far(p) = (2 * a - x0 - x1) * (2 * a - x0 - x1)
                     + (2 * b - z0 - z1) * (2 * b - z0 - z1)
      BY Zenon DEF a, b, x0, x1, z0, z1
    <3>. QED
      BY <3>2, <3>3, <3>4, Zenon
  <2>4. plan.order[i] \in PositionsIn(g) /\ plan.order[j] \in PositionsIn(g)
    BY Shape DEF Planned
  <2>5. far(plan.order[i]) <= far(plan.order[j])
    <3>. HIDE DEF far, g
    <3>. QED
      BY <2>2, <2>3, <2>4
  <2>. QED
    BY <2>5 DEF Square
<1>. QED
  BY <1>1, AlwaysPlanned, PTL

(* No two columns of a plan share a key of active_ (chunk_key): neither    *)
(* signs nor the ends of the coordinates' range can bring two together.    *)
THEOREM DistinctKeys == Spec => []KeysDistinct
<1>1. Init => KeysDistinct
  <2>. SUFFICES ASSUME Init PROVE KeysDistinct
    OBVIOUS
  <2>1. 2 * Half <= ChunkSize * (Half - Halo)
    BY SquareAssumption
  <2>2. \A p, q \in PositionsIn(Halos) : ChunkKey(p) = ChunkKey(q) => p = q
    BY <2>1, SquareTyped, PlanNeverOverflows DEF Halos, Square
  <2>. QED
    BY <2>2, Shape DEF KeysDistinct
<1>. QED
  BY <1>1, AlwaysPlanned, PTL

(* A bounded plan requests the columns of an aligned block of side 2, 4,   *)
(* 8... in one run (morton_order, morton_key, spread_bits).                *)
THEOREM PlannedByQuadrant == Spec => []QuadrantsTogether
<1>1. Init => QuadrantsTogether
  <2>. SUFFICES ASSUME Init, Cardinality(plan.target) <= TargetLimit, NEW k \in OffsetBits
                PROVE  LET b == GenerationBounds(SquareBounds(centerX, centerZ, radius))
                           block(i) == <<(plan.order[i][1] - b.minX) \div 2^k,
                                         (plan.order[i][2] - b.minZ) \div 2^k>>
                       IN  \A i \in 1 .. Len(plan.order) - 1 :
                             block(i) # block(i + 1) =>
                               \A j \in i + 2 .. Len(plan.order) : block(j) # block(i)
    BY DEF QuadrantsTogether
  <2>. DEFINE g == Halos
              s == plan.order
              block(i) == <<(s[i][1] - g.minX) \div 2^k, (s[i][2] - g.minZ) \div 2^k>>
              key(i) == MortonKey(g, s[i])
              agree(i, j) == \A l \in Nat : l >= 2 * k => (l \in key(i) <=> l \in key(j))
  <2>1. Count(Square) <= TargetLimit
    BY Shape
  <2>2. s = MortonOrder(g)
    <3>1. plan = PlanFor(Name(dimension), centerX, centerZ, radius)
      BY DEF Init
    <3>. QED
      BY <2>1, <3>1 DEF PlanFor, Square, Halos
  <2>3. IsBounds(g) /\ Width(g) <= 2^30 /\ Depth(g) <= 2^30
    BY <2>1, Shape, BoundedWidth DEF Halos
  <2>4. /\ DOMAIN s = 1 .. Count(g) /\ Len(s) = Count(g) /\ Count(g) \in Nat
        /\ \A i \in 1 .. Count(g) : s[i] \in PositionsIn(g)
        /\ \A i, j \in 1 .. Count(g) : i < j => Below(key(i), key(j))
    <3>1. /\ DOMAIN s = 1 .. Count(g) /\ Len(s) = Count(g)
          /\ {s[i] : i \in DOMAIN s} = PositionsIn(g)
          /\ \A i, j \in DOMAIN s : i < j => Below(key(i), key(j))
      BY <2>2, <2>3, MortonSorted
    <3>2. Count(g) \in Nat
      BY <2>3, PositionsCounted
    <3>. HIDE DEF g, s, key
    <3>. QED
      BY <3>1, <3>2
  <2>5. \A i, j \in 1 .. Count(g) : agree(i, j) <=> block(i) = block(j)
    <3>. TAKE i \in 1 .. Count(g), j \in 1 .. Count(g)
    <3>1. s[i] \in PositionsIn(g) /\ s[j] \in PositionsIn(g) /\ k \in 0 .. 29
      BY <2>4 DEF OffsetBits
    <3>2. agree(i, j) <=> /\ (s[i][1] - g.minX) \div 2^k = (s[j][1] - g.minX) \div 2^k
                          /\ (s[i][2] - g.minZ) \div 2^k = (s[j][2] - g.minZ) \div 2^k
      <4>. HIDE DEF g, s
      <4>. QED
        BY <2>3, <3>1, KeysAgree
    <3>. HIDE DEF g, s, agree
    <3>. QED
      BY <3>2
  <2>6. \A i \in 1 .. Count(g) : key(i) \in SUBSET Nat
    <3>1. \A i : key(i) \subseteq 0 .. 59
      BY KeyBits
    <3>. HIDE DEF key
    <3>. QED
      BY <3>1
  <2>7. ASSUME NEW i \in 1 .. Count(g) - 1, block(i) # block(i + 1),
               NEW j \in i + 2 .. Count(g), block(j) = block(i)
        PROVE  FALSE
    <3>. HIDE DEF g, s, key, block
    <3>1. i \in 1 .. Count(g) /\ i + 1 \in 1 .. Count(g) /\ j \in 1 .. Count(g)
          /\ i < i + 1 /\ i + 1 < j
      BY <2>4
    <3>2. Below(key(i), key(i + 1)) /\ Below(key(i + 1), key(j))
      BY <2>4, <3>1
    <3>3. agree(i, j)
      BY <2>5, <2>7, <3>1, Zenon
    <3>4. agree(i, i + 1)
      <4>. DEFINE u == key(i)  v == key(i + 1)  w == key(j)  m == 2 * k
      <4>1. /\ u \in SUBSET Nat /\ v \in SUBSET Nat /\ w \in SUBSET Nat /\ m \in Nat
            /\ Below(u, v) /\ Below(v, w)
        BY <2>6, <3>1, <3>2 DEF OffsetBits
      <4>2. \A l \in Nat : l >= m => (l \in u <=> l \in w)
        BY <3>3
      <4>. HIDE DEF u, v, w, m
      <4>3. \A l \in Nat : l >= m => (l \in u <=> l \in v)
        BY <4>1, <4>2, BetweenAgrees
      <4>. QED
        BY <4>3 DEF u, v, m
    <3>. HIDE DEF agree
    <3>. QED
      BY <2>5, <2>7, <3>1, <3>4
  <2>. QED
    BY <2>4, <2>7 DEF Halos, Square
<1>. QED
  BY <1>1, AlwaysPlanned, PTL

-----------------------------------------------------------------------------
(* Packed words.                                                           *)

LEMMA PerWordOf ==
  ASSUME NEW bits \in Widths \ {0}
  PROVE  PerWord(bits) \in {32, 16, 10, 8, 6, 5, 4, 2}
<1>1. CASE bits \in {1, 2, 3}
  BY <1>1 DEF PerWord
<1>2. CASE bits \in {4, 5, 6}
  BY <1>2 DEF PerWord
<1>3. CASE bits \in {8, 16}
  BY <1>3 DEF PerWord
<1>4. QED
  BY <1>1, <1>2, <1>3 DEF Widths

(* As many words as hold all blocks, and no more.                          *)
LEMMA EnoughWords ==
  ASSUME NEW p \in {32, 16, 10, 8, 6, 5, 4, 2}, NEW n \in Nat \ {0}, NEW words \in Nat
  PROVE  words = (n + p - 1) \div p <=> (words * p >= n /\ (words - 1) * p < n)
<1>1. CASE p = 32 BY <1>1
<1>2. CASE p = 16 BY <1>2
<1>3. CASE p = 10 BY <1>3
<1>4. CASE p = 8 BY <1>4
<1>5. CASE p = 6 BY <1>5
<1>6. CASE p = 5 BY <1>6
<1>7. CASE p = 4 BY <1>7
<1>8. CASE p = 2 BY <1>8
<1>9. QED
  BY <1>1, <1>2, <1>3, <1>4, <1>5, <1>6, <1>7, <1>8

(* A block's word and field are within the words, and a field below the    *)
(* last block is a block's.                                                *)
LEMMA FieldOfBlock ==
  ASSUME NEW p \in {32, 16, 10, 8, 6, 5, 4, 2}, NEW n \in Nat \ {0}, NEW b \in 0 .. n - 1
  PROVE  /\ b \div p \in 0 .. ((n + p - 1) \div p) - 1
         /\ b % p \in 0 .. p - 1
         /\ (b \div p) * p + (b % p) = b
<1>1. CASE p = 32 BY <1>1
<1>2. CASE p = 16 BY <1>2
<1>3. CASE p = 10 BY <1>3
<1>4. CASE p = 8 BY <1>4
<1>5. CASE p = 6 BY <1>5
<1>6. CASE p = 5 BY <1>6
<1>7. CASE p = 4 BY <1>7
<1>8. CASE p = 2 BY <1>8
<1>9. QED
  BY <1>1, <1>2, <1>3, <1>4, <1>5, <1>6, <1>7, <1>8

LEMMA BlockOfField ==
  ASSUME NEW p \in {32, 16, 10, 8, 6, 5, 4, 2}, NEW word \in Nat, NEW field \in 0 .. p - 1
  PROVE  /\ word * p + field \in Nat
         /\ (word * p + field) \div p = word
         /\ (word * p + field) % p = field
<1>1. CASE p = 32 BY <1>1
<1>2. CASE p = 16 BY <1>2
<1>3. CASE p = 10 BY <1>3
<1>4. CASE p = 8 BY <1>4
<1>5. CASE p = 6 BY <1>5
<1>6. CASE p = 5 BY <1>6
<1>7. CASE p = 4 BY <1>7
<1>8. CASE p = 2 BY <1>8
<1>9. QED
  BY <1>1, <1>2, <1>3, <1>4, <1>5, <1>6, <1>7, <1>8

(* decode_section looks at the field of every block and at no padding,     *)
(* for every supported width and every number of blocks.                   *)
THEOREM EveryBlockDecoded ==
  ASSUME NEW bits \in Widths \ {0}
  PROVE  DecodedFields(bits) =
           {<<b \div PerWord(bits), b % PerWord(bits)>> : b \in 0 .. SectionBlocks - 1}
<1> DEFINE p == PerWord(bits)
           n == SectionBlocks
           words == (n + p - 1) \div p
<1>1. p \in {32, 16, 10, 8, 6, 5, 4, 2} /\ n \in Nat \ {0} /\ bits # 0
  BY PerWordOf, RecordAssumption
<1>2. DecodedFields(bits) =
        {f \in (0 .. words - 1) \X (0 .. p - 1) : f[1] * p + f[2] < n}
  BY <1>1 DEF DecodedFields, PackedWords
<1> HIDE DEF p, n
<1>3. ASSUME NEW f \in (0 .. words - 1) \X (0 .. p - 1), f[1] * p + f[2] < n
      PROVE  \E b \in 0 .. n - 1 : f = <<b \div p, b % p>>
  <2>1. f[1] \in Nat /\ f[2] \in 0 .. p - 1 /\ f = <<f[1], f[2]>>
    BY <1>3, <1>1
  <2>2. /\ f[1] * p + f[2] \in Nat
        /\ (f[1] * p + f[2]) \div p = f[1]
        /\ (f[1] * p + f[2]) % p = f[2]
    BY <2>1, <1>1, BlockOfField
  <2>3. f[1] * p + f[2] \in 0 .. n - 1
    BY <2>2, <1>3, <1>1
  <2>4. QED
    BY <2>1, <2>2, <2>3, Zenon
<1>4. ASSUME NEW b \in 0 .. n - 1
      PROVE  /\ <<b \div p, b % p>> \in (0 .. words - 1) \X (0 .. p - 1)
             /\ (b \div p) * p + (b % p) < n
  BY <1>1, FieldOfBlock
<1>5. {f \in (0 .. words - 1) \X (0 .. p - 1) : f[1] * p + f[2] < n} =
        {<<b \div p, b % p>> : b \in 0 .. n - 1}
  BY <1>3, <1>4
<1>6. QED
  BY <1>2, <1>5 DEF p, n

-----------------------------------------------------------------------------
(* Sections.                                                               *)

LEMMA EntriesWellFormed ==
  ASSUME NEW entries \in Seq(BOOLEAN), NEW n \in Nat
  PROVE  (Len(entries) = n /\ \A i \in DOMAIN entries : entries[i])
           <=> entries = [i \in 1..n |-> TRUE]
<1>1. entries \in [1 .. Len(entries) -> BOOLEAN] /\ Len(entries) \in Nat
  OBVIOUS
<1>2. ASSUME Len(entries) = n, \A i \in DOMAIN entries : entries[i]
      PROVE  entries = [i \in 1..n |-> TRUE]
  BY <1>1, <1>2
<1>3. ASSUME entries = [i \in 1..n |-> TRUE]
      PROVE  Len(entries) = n /\ \A i \in DOMAIN entries : entries[i]
  <2>1. DOMAIN entries = 1 .. n /\ DOMAIN entries = 1 .. Len(entries)
    BY <1>1, <1>3
  <2>2. Len(entries) = n
    BY <2>1, <1>1
  <2>3. \A i \in DOMAIN entries : entries[i]
    BY <1>3, <2>1
  <2>4. QED
    BY <2>2, <2>3
<1>4. QED
  BY <1>2, <1>3

(* The one odd field is harmless exactly if no block is out of range.      *)
LEMMA IndicesInPalette ==
  ASSUME NEW layer \in LayerType, layer.bits \in Widths \ {0}, layer.count \in Nat \ {0}
  PROVE  (layer.odd \in DecodedFields(layer.bits) => layer.value < layer.count)
           <=> \A b \in 0 .. SectionBlocks - 1 : DocumentedIndex(layer, b) < layer.count
<1> DEFINE at(b) == <<b \div PerWord(layer.bits), b % PerWord(layer.bits)>>
<1>1. layer.value \in Nat
  BY DEF LayerType
<1>2. \A b : DocumentedIndex(layer, b) = IF at(b) = layer.odd THEN layer.value ELSE 0
  BY DEF DocumentedIndex, PerWord
<1>3. DecodedFields(layer.bits) = {at(b) : b \in 0 .. SectionBlocks - 1}
  BY EveryBlockDecoded
<1> HIDE DEF at
<1>4. layer.odd \in DecodedFields(layer.bits)
        <=> \E b \in 0 .. SectionBlocks - 1 : at(b) = layer.odd
  BY <1>3
<1>5. QED
  BY <1>1, <1>2, <1>4

LEMMA LayerAsDocumented ==
  ASSUME NEW layer \in LayerType
  PROVE  DecodesLayer(layer) <=> DocumentedLayer(layer)
<1>1. /\ layer.runtime \in BOOLEAN /\ layer.bits \in 0..127 /\ layer.words \in Nat
      /\ layer.count \in Nat /\ layer.entries \in Seq(BOOLEAN)
  BY DEF LayerType
<1>2. SectionBlocks \in Nat \ {0}
  BY RecordAssumption
<1>3. CASE layer.bits = 0
  <2>1. PaletteSize(layer) = 1 /\ PackedWords(layer.bits) = 0
    BY <1>3 DEF PaletteSize, PackedWords
  <2>2. DecodedFields(layer.bits) = {}
    BY <1>3 DEF DecodedFields
  <2>3. (Len(layer.entries) = 1 /\ \A i \in DOMAIN layer.entries : layer.entries[i])
          <=> layer.entries = <<TRUE>>
    <3>1. /\ <<TRUE>> \in Seq(BOOLEAN) /\ Len(<<TRUE>>) = 1
          /\ \A i \in DOMAIN <<TRUE>> : <<TRUE>>[i]
      <4>1. <<TRUE>> \in Seq(BOOLEAN) /\ Len(<<TRUE>>) = 1
        OBVIOUS
      <4>2. DOMAIN <<TRUE>> = {1}
        OBVIOUS
      <4>3. <<TRUE>>[1] = TRUE
        OBVIOUS
      <4>4. QED
        BY <4>1, <4>2, <4>3, Zenon
    <3>2. \A e \in Seq(BOOLEAN) :
            (Len(e) = 1 /\ \A i \in DOMAIN e : e[i]) <=> e = [i \in 1..1 |-> TRUE]
      BY EntriesWellFormed
    <3>3. QED
      BY <3>1, <3>2, <1>1, Zenon
  <2>4. 0 \in Widths /\ 1 \in 1..SectionBlocks
    BY <1>2 DEF Widths
  <2>5. QED
    BY <1>3, <2>1, <2>2, <2>3, <2>4, Zenon DEF DecodesLayer, DocumentedLayer
<1>4. CASE layer.bits # 0
  <2>1. layer.bits \in Widths <=> layer.bits \in {1, 2, 3, 4, 5, 6, 8, 16}
    BY <1>4 DEF Widths
  <2>2. SUFFICES ASSUME layer.bits \in Widths \ {0}
                 PROVE  DecodesLayer(layer) <=> DocumentedLayer(layer)
    BY <1>4, <2>1 DEF DecodesLayer, DocumentedLayer
  <2>3. layer.words = PackedWords(layer.bits)
          <=> /\ layer.words * (32 \div layer.bits) >= SectionBlocks
              /\ (layer.words - 1) * (32 \div layer.bits) < SectionBlocks
    <3>1. PerWord(layer.bits) \in {32, 16, 10, 8, 6, 5, 4, 2}
      BY <2>2, PerWordOf
    <3>2. layer.words = (SectionBlocks + PerWord(layer.bits) - 1) \div PerWord(layer.bits)
            <=> /\ layer.words * PerWord(layer.bits) >= SectionBlocks
                /\ (layer.words - 1) * PerWord(layer.bits) < SectionBlocks
      BY <3>1, <1>1, <1>2, EnoughWords
    <3>3. QED
      BY <3>2, <1>4, Zenon DEF PackedWords, PerWord
  <2>4. PaletteSize(layer) = layer.count
    BY <1>4 DEF PaletteSize
  <2>5. (Len(layer.entries) = layer.count /\ \A i \in DOMAIN layer.entries : layer.entries[i])
          <=> layer.entries = [i \in 1 .. layer.count |-> TRUE]
    BY <1>1, EntriesWellFormed
  <2>6. CASE layer.count \in 1..SectionBlocks
    <3>1. (layer.odd \in DecodedFields(layer.bits) => layer.value < layer.count)
            <=> \A b \in 0 .. SectionBlocks - 1 : DocumentedIndex(layer, b) < layer.count
      BY <2>2, <2>6, <1>2, IndicesInPalette
    <3>2. QED
      BY <1>4, <2>1, <2>2, <2>3, <2>4, <2>5, <2>6, <3>1, Zenon
         DEF DecodesLayer, DocumentedLayer
  <2>7. CASE layer.count \notin 1..SectionBlocks
    BY <1>4, <2>4, <2>7 DEF DecodesLayer, DocumentedLayer
  <2>8. QED
    BY <2>6, <2>7
<1>5. QED
  BY <1>3, <1>4

LEMMA SectionAsDocumented ==
  ASSUME NEW section \in SectionType, NEW y
  PROVE  DecodeSection(section, y) <=> DocumentedSection(section, y)
<1>1. \A i \in DOMAIN section.layers : section.layers[i] \in LayerType
  BY DEF SectionType
<1>2. \A i \in DOMAIN section.layers :
        DecodesLayer(section.layers[i]) <=> DocumentedLayer(section.layers[i])
  BY <1>1, LayerAsDocumented
<1>3. QED
  BY <1>2 DEF DecodeSection, DocumentedSection, SectionType

-----------------------------------------------------------------------------
(* The records of a column, as the inspector sorts them.                   *)

LEMMA RecordParts ==
  ASSUME NEW d, NEW p, NEW bytes, NEW value
  PROVE  /\ BedrockRecord(d, p, bytes, value).key.bytes = bytes
         /\ BedrockRecord(d, p, bytes, value).value = value
BY DEF BedrockRecord

LEMMA RecordsSorted ==
  ASSUME NEW d, NEW p, NEW c
  PROVE  LET R == BedrockRecords(d, p, c) IN
         /\ Tagged(R, FinalizedTag) =
              {BedrockRecord(d, p, <<FinalizedTag>>, v) : v \in c.states}
         /\ Tagged(R, HeightsTag) =
              {BedrockRecord(d, p, <<HeightsTag>>, m) : m \in c.maps}
         /\ Sections(R) =
              {BedrockRecord(d, p, <<SectionTag, y % 256>>, c.sections[y]) :
                 y \in DOMAIN c.sections}
<1> DEFINE states == {BedrockRecord(d, p, <<FinalizedTag>>, v) : v \in c.states}
           maps == {BedrockRecord(d, p, <<HeightsTag>>, m) : m \in c.maps}
           sections == {BedrockRecord(d, p, <<SectionTag, y % 256>>, c.sections[y]) :
                          y \in DOMAIN c.sections}
           R == BedrockRecords(d, p, c)
<1>1. R = states \cup maps \cup sections
  BY DEF BedrockRecords
<1>2. \A r \in states : r.key.bytes = <<FinalizedTag>>
  BY RecordParts
<1>3. \A r \in maps : r.key.bytes = <<HeightsTag>>
  BY RecordParts
<1>4. \A r \in sections : r.key.bytes[1] = 47 /\ Len(r.key.bytes) = 2
  <2>1. TAKE r \in sections
  <2>2. PICK y \in DOMAIN c.sections :
          r = BedrockRecord(d, p, <<SectionTag, y % 256>>, c.sections[y])
    BY Zenon
  <2>3. r.key.bytes = <<SectionTag, y % 256>>
    BY <2>2, RecordParts
  <2>4. QED
    BY <2>3 DEF SectionTag
<1> HIDE DEF R, states, maps, sections
<1>5. /\ \A r \in states : r.key.bytes[1] = 54
      /\ \A r \in maps : r.key.bytes[1] = 43
  BY <1>2, <1>3 DEF FinalizedTag, HeightsTag
<1>6. Tagged(R, FinalizedTag) = states
  BY <1>1, <1>4, <1>5 DEF Tagged, FinalizedTag
<1>7. Tagged(R, HeightsTag) = maps
  BY <1>1, <1>4, <1>5 DEF Tagged, HeightsTag
<1>8. Sections(R) = sections
  BY <1>1, <1>4, <1>5 DEF Tagged, Sections, SectionTag
<1>9. QED
  BY <1>6, <1>7, <1>8 DEF R, states, maps, sections

(* A section's number survives its byte.                                   *)
LEMMA ByteAndBack ==
  ASSUME NEW y \in -128..127
  PROVE  Int8(y % 256) = y
<1>1. CASE y >= 0
  BY <1>1 DEF Int8
<1>2. CASE y < 0
  <2>1. y % 256 = y + 256
    BY <1>2
  <2>2. QED
    BY <2>1, <1>2 DEF Int8
<1>3. QED
  BY <1>1, <1>2

(* The inspector's sections and heights are the documented ones, counted   *)
(* from the bottom of the dimension.                                       *)
LEMMA Dimension ==
  ASSUME NEW d, d.id \in 0..2
  PROVE  /\ MinimumY(d) = 16 * MinimumSection(d.id)
         /\ MaximumY(d) = MinimumY(d) + HeightLimit(d.id)
         /\ MinimumSection(d.id) \in Int
         /\ HeightLimit(d.id) \in {384, 128, 256}
BY DEF MinimumY, MaximumY, MinimumSection, HeightLimit

LEMMA SectionInDimension ==
  ASSUME NEW d, d.id \in 0..2, NEW y \in Int
  PROVE  y - MinimumSection(d.id) \in 0 .. (HeightLimit(d.id) \div 16) - 1
           <=> (16 * y >= MinimumY(d) /\ 16 * y < MaximumY(d))
<1>1. CASE d.id = 0
  BY <1>1 DEF MinimumY, MaximumY, MinimumSection, HeightLimit
<1>2. CASE d.id = 1
  BY <1>2 DEF MinimumY, MaximumY, MinimumSection, HeightLimit
<1>3. CASE d.id = 2
  BY <1>3 DEF MinimumY, MaximumY, MinimumSection, HeightLimit
<1>4. QED
  BY <1>1, <1>2, <1>3

(* The section of a surface is the one that holds the block below it, with *)
(* negative heights and at a multiple of 16 as well.                       *)
THEOREM SurfaceInItsSection ==
  ASSUME NEW d, d.id \in 0..2, NEW h \in Nat \ {0}, NEW y \in Int
  PROVE  y - MinimumSection(d.id) = (h - 1) \div 16
           <=> (MinimumY(d) + h) - 1 \in 16 * y .. 16 * y + 15
<1>1. CASE d.id = 0
  BY <1>1 DEF MinimumY, MinimumSection
<1>2. CASE d.id # 0
  BY <1>2 DEF MinimumY, MinimumSection
<1>3. QED
  BY <1>1, <1>2

(* A height map that is not cut short is read whole.                       *)
LEMMA WholeMapRead ==
  ASSUME NEW r, r.value.size \in Nat, r.value.size >= 2 * HeightEntries
  PROVE  Heights(r) = {r.value.heights[i] : i \in 1..HeightEntries}
BY RecordAssumption DEF Heights

LEMMA MapTypes ==
  ASSUME NEW c, IsColumn(c), NEW m \in c.maps, m.size >= 2 * HeightEntries
  PROVE  m.size \in Nat /\ \A i \in 1..HeightEntries : m.heights[i] \in Nat
<1>1. m.size \in Nat /\ m.heights \in [1 .. m.size \div 2 -> Nat]
  BY DEF IsColumn
<1>2. 1..HeightEntries \subseteq 1 .. m.size \div 2
  BY <1>1, RecordAssumption
<1>3. QED
  BY <1>1, <1>2

LEMMA FinalizedAsDocumented ==
  ASSUME NEW d, NEW p, NEW c, IsColumn(c)
  PROVE  Finalized(BedrockRecords(d, p, c)) <=> [size |-> 4, int |-> 2] \in c.states
<1>1. Finalized(BedrockRecords(d, p, c))
        <=> \E v \in c.states :
              LET r == BedrockRecord(d, p, <<FinalizedTag>>, v)
              IN  r.value.size = 4 /\ r.value.int = 2
  BY RecordsSorted DEF Finalized
<1>2. \A v \in c.states : BedrockRecord(d, p, <<FinalizedTag>>, v).value = v
  BY RecordParts
<1>3. \A v \in c.states : v \in [size : Nat, int : Int]
  BY DEF IsColumn
<1>4. QED
  BY <1>1, <1>2, <1>3

LEMMA SectionsAsDocumented ==
  ASSUME NEW d, d.id \in 0..2, NEW p, NEW c, IsColumn(c)
  PROVE  (\A r \in Sections(BedrockRecords(d, p, c)) : ValidSection(r, d.id))
           <=> \A y \in DOMAIN c.sections :
                 /\ 16 * y >= MinimumY(d) /\ 16 * y < MaximumY(d)
                 /\ DocumentedSection(c.sections[y], y)
<1> DEFINE record(y) == BedrockRecord(d, p, <<SectionTag, y % 256>>, c.sections[y])
<1>1. Sections(BedrockRecords(d, p, c)) = {record(y) : y \in DOMAIN c.sections}
  BY RecordsSorted
<1>2. ASSUME NEW y \in DOMAIN c.sections
      PROVE  ValidSection(record(y), d.id)
               <=> /\ 16 * y >= MinimumY(d) /\ 16 * y < MaximumY(d)
                   /\ DocumentedSection(c.sections[y], y)
  <2>1. y \in -128..127 /\ c.sections[y] \in SectionType
    BY DEF IsColumn
  <2>2. Int8(record(y).key.bytes[2]) = y /\ record(y).value = c.sections[y]
    <3>1. record(y).key.bytes = <<SectionTag, y % 256>> /\ record(y).value = c.sections[y]
      BY RecordParts
    <3> HIDE DEF record
    <3>2. record(y).key.bytes[2] = y % 256
      BY <3>1
    <3>3. QED
      BY <2>1, <3>1, <3>2, ByteAndBack
  <2>3. SectionIndex(record(y), d.id) \in 0 .. (HeightLimit(d.id) \div 16) - 1
          <=> (16 * y >= MinimumY(d) /\ 16 * y < MaximumY(d))
    BY <2>1, <2>2, SectionInDimension DEF SectionIndex
  <2>4. DecodeSection(c.sections[y], y) <=> DocumentedSection(c.sections[y], y)
    BY <2>1, SectionAsDocumented
  <2>5. QED
    BY <2>2, <2>3, <2>4, Zenon DEF ValidSection
<1> HIDE DEF record
<1>3. QED
  BY <1>1, <1>2, Zenon

LEMMA HeightsAsDocumented ==
  ASSUME NEW d, d.id \in 0..2, NEW p, NEW c, IsColumn(c)
  PROVE  HeightValid(BedrockRecords(d, p, c), d.id)
           <=> \E m \in c.maps :
                 /\ m.size >= 2 * HeightEntries
                 /\ \A i \in 1..HeightEntries : m.heights[i] <= HeightLimit(d.id)
<1> DEFINE record(m) == BedrockRecord(d, p, <<HeightsTag>>, m)
           Fits(r) == /\ r.value.size >= 2 * HeightEntries
                      /\ \A h \in Heights(r) : h <= HeightLimit(d.id)
<1>1. Tagged(BedrockRecords(d, p, c), HeightsTag) = {record(m) : m \in c.maps}
  BY RecordsSorted
<1>2. ASSUME NEW m \in c.maps
      PROVE  Fits(record(m))
               <=> /\ m.size >= 2 * HeightEntries
                   /\ \A i \in 1..HeightEntries : m.heights[i] <= HeightLimit(d.id)
  <2>1. record(m).value = m
    BY RecordParts
  <2> HIDE DEF record
  <2>2. CASE ~(m.size >= 2 * HeightEntries)
    BY <2>1, <2>2
  <2>3. CASE m.size >= 2 * HeightEntries
    <3>1. Heights(record(m)) = {m.heights[i] : i \in 1..HeightEntries}
      BY <2>1, <2>3, MapTypes, WholeMapRead
    <3>2. QED
      BY <2>1, <2>3, <3>1
  <2>4. QED
    BY <2>2, <2>3
<1>3. HeightValid(BedrockRecords(d, p, c), d.id) <=> \E m \in c.maps : Fits(record(m))
  <2>1. HeightValid(BedrockRecords(d, p, c), d.id)
          <=> \E r \in Tagged(BedrockRecords(d, p, c), HeightsTag) : Fits(r)
    BY DEF HeightValid
  <2> HIDE DEF Fits, record
  <2>2. QED
    BY <1>1, <2>1
<1> HIDE DEF Fits, record
<1>4. QED
  BY <1>2, <1>3, Zenon

(* With one whole map, and every stored section valid, the masks agree     *)
(* exactly if each surface has its section.                                *)
LEMMA SurfacesCovered ==
  ASSUME NEW d, d.id \in 0..2, NEW p, NEW c, IsColumn(c),
         NEW m \in c.maps, m.size >= 2 * HeightEntries,
         \A i \in 1..HeightEntries : m.heights[i] <= HeightLimit(d.id),
         \A r \in Sections(BedrockRecords(d, p, c)) : ValidSection(r, d.id)
  PROVE  RequiredSections(BedrockRecords(d, p, c), d.id)
             \subseteq DecodedSections(BedrockRecords(d, p, c), d.id)
           <=> \A i \in 1..HeightEntries :
                 m.heights[i] > 0 =>
                   \E y \in DOMAIN c.sections :
                     /\ (MinimumY(d) + m.heights[i]) - 1 \in 16 * y .. 16 * y + 15
                     /\ c.sections[y].storages > 0
<1> DEFINE R == BedrockRecords(d, p, c)
           record(y) == BedrockRecord(d, p, <<SectionTag, y % 256>>, c.sections[y])
           surfaces == {m.heights[i] : i \in 1..HeightEntries}
           least == MinimumSection(d.id)
           stored == {y \in DOMAIN c.sections : c.sections[y].storages > 0}
<1>1. RequiredSections(R, d.id) =
        {(h - 1) \div 16 : h \in {k \in surfaces : k \in 1 .. HeightLimit(d.id)}}
  <2>1. c.maps = {m}
    BY DEF IsColumn
  <2>2. Tagged(R, HeightsTag) = {BedrockRecord(d, p, <<HeightsTag>>, m)}
    BY <2>1, RecordsSorted
  <2>3. BedrockRecord(d, p, <<HeightsTag>>, m).value = m
    BY RecordParts
  <2>4. Heights(BedrockRecord(d, p, <<HeightsTag>>, m)) = surfaces
    BY <2>3, MapTypes, WholeMapRead
  <2>5. UNION {Heights(r) : r \in Tagged(R, HeightsTag)} = surfaces
    BY <2>2, <2>4
  <2>6. QED
    BY <2>5 DEF RequiredSections
<1>2. DecodedSections(R, d.id) = {y - least : y \in stored}
  <2>1. Sections(R) = {record(y) : y \in DOMAIN c.sections}
    BY RecordsSorted
  <2>2. ASSUME NEW y \in DOMAIN c.sections
        PROVE  /\ SectionIndex(record(y), d.id) = y - least
               /\ record(y).value.storages # 0 <=> c.sections[y].storages > 0
    <3>1. y \in -128..127 /\ c.sections[y] \in SectionType
      BY DEF IsColumn
    <3>2. Int8(record(y).key.bytes[2]) = y /\ record(y).value = c.sections[y]
      <4>1. record(y).key.bytes = <<SectionTag, y % 256>> /\ record(y).value = c.sections[y]
        BY RecordParts
      <4> HIDE DEF record
      <4>2. record(y).key.bytes[2] = y % 256
        BY <4>1
      <4>3. QED
        BY <3>1, <4>1, <4>2, ByteAndBack
    <3>3. c.sections[y].storages \in 0..255
      BY <3>1 DEF SectionType
    <3>4. QED
      BY <3>2, <3>3 DEF SectionIndex
  <2> HIDE DEF record, R, least
  <2>3. DecodedSections(R, d.id) =
          {SectionIndex(r, d.id) : r \in {s \in Sections(R) : s.value.storages # 0}}
    BY DEF DecodedSections, R
  <2>4. {s \in Sections(R) : s.value.storages # 0} = {record(y) : y \in stored}
    BY <2>1, <2>2
  <2>5. QED
    BY <2>2, <2>3, <2>4
<1>3. \A i \in 1..HeightEntries : m.heights[i] \in Nat
  BY MapTypes
<1>4. least \in Int /\ \A y \in stored : y \in Int
  <2>1. least \in Int
    BY Dimension
  <2>2. ASSUME NEW y \in stored PROVE y \in Int
    <3>1. y \in -128..127
      BY DEF IsColumn
    <3>2. QED
      BY <3>1
  <2>3. QED
    BY <2>1, <2>2, Zenon
<1>5. RequiredSections(R, d.id) \subseteq DecodedSections(R, d.id)
        <=> \A i \in 1..HeightEntries :
              m.heights[i] > 0 => \E y \in stored : y - least = (m.heights[i] - 1) \div 16
  <2>1. \A i \in 1..HeightEntries :
          m.heights[i] \in 1 .. HeightLimit(d.id) <=> m.heights[i] > 0
    BY <1>3, Dimension
  <2>2. RequiredSections(R, d.id) \subseteq DecodedSections(R, d.id)
          <=> \A i \in 1..HeightEntries :
                m.heights[i] \in 1 .. HeightLimit(d.id) =>
                  (m.heights[i] - 1) \div 16 \in {y - least : y \in stored}
    <3> HIDE DEF R, stored, least
    <3>1. QED
      BY <1>1, <1>2
  <2> HIDE DEF R, stored, least
  <2>3. QED
    BY <2>1, <2>2
<1>6. ASSUME NEW i \in 1..HeightEntries, m.heights[i] > 0, NEW y \in stored
      PROVE  y - least = (m.heights[i] - 1) \div 16
               <=> (MinimumY(d) + m.heights[i]) - 1 \in 16 * y .. 16 * y + 15
  <2>1. m.heights[i] \in Nat \ {0} /\ y \in Int
    BY <1>3, <1>4, <1>6
  <2>2. QED
    BY <2>1, SurfaceInItsSection
<1> HIDE DEF R, least
<1>7. QED
  BY <1>5, <1>6 DEF R

(* Whatever a column holds, the inspector passes it exactly if it is as    *)
(* documented.                                                             *)
THEOREM ServiceableAsDocumented ==
  ASSUME NEW d, d.id \in 0..2, NEW p, NEW c, IsColumn(c)
  PROVE  Serviceable(BedrockRecords(d, p, c), d.id) <=> Documented(d, c)
<1> DEFINE R == BedrockRecords(d, p, c)
           Whole(m) == /\ m.size >= 2 * HeightEntries
                       /\ \A i \in 1..HeightEntries : m.heights[i] <= HeightLimit(d.id)
           Covered(m) == \A i \in 1..HeightEntries :
                           m.heights[i] > 0 =>
                             \E y \in DOMAIN c.sections :
                               /\ (MinimumY(d) + m.heights[i]) - 1 \in 16 * y .. 16 * y + 15
                               /\ c.sections[y].storages > 0
           sound == \A y \in DOMAIN c.sections :
                      /\ 16 * y >= MinimumY(d) /\ 16 * y < MaximumY(d)
                      /\ DocumentedSection(c.sections[y], y)
<1>1. Finalized(R) <=> [size |-> 4, int |-> 2] \in c.states
  BY FinalizedAsDocumented
<1>2. (\A r \in Sections(R) : ValidSection(r, d.id)) <=> sound
  BY SectionsAsDocumented
<1>3. HeightValid(R, d.id) <=> \E m \in c.maps : Whole(m)
  BY HeightsAsDocumented
<1>4. ASSUME NEW m \in c.maps, Whole(m), \A r \in Sections(R) : ValidSection(r, d.id)
      PROVE  RequiredSections(R, d.id) \subseteq DecodedSections(R, d.id) <=> Covered(m)
  BY <1>4, SurfacesCovered
<1>5. Documented(d, c) <=> /\ [size |-> 4, int |-> 2] \in c.states
                           /\ \E m \in c.maps : Whole(m) /\ Covered(m)
                           /\ sound
  <2>1. ASSUME NEW m \in c.maps
        PROVE  (Whole(m) /\ Covered(m))
                 <=> /\ m.size >= 2 * HeightEntries
                     /\ \A i \in 1..HeightEntries :
                          LET top == MinimumY(d) + m.heights[i] IN
                          /\ top <= MaximumY(d)
                          /\ top > MinimumY(d) =>
                               \E y \in DOMAIN c.sections :
                                 /\ top - 1 \in 16 * y .. 16 * y + 15
                                 /\ c.sections[y].storages > 0
    <3>1. CASE ~(m.size >= 2 * HeightEntries)
      BY <3>1
    <3>2. CASE m.size >= 2 * HeightEntries
      <4>1. ASSUME NEW i \in 1..HeightEntries
            PROVE  /\ MinimumY(d) + m.heights[i] <= MaximumY(d)
                        <=> m.heights[i] <= HeightLimit(d.id)
                   /\ MinimumY(d) + m.heights[i] > MinimumY(d) <=> m.heights[i] > 0
        BY <3>2, MapTypes, Dimension
      <4>2. QED
        BY <3>2, <4>1, Zenon
    <3>3. QED
      BY <3>1, <3>2
  <2> HIDE DEF Whole, Covered
  <2>2. QED
    BY <2>1, Zenon DEF Documented
<1> HIDE DEF Whole, Covered, sound, R
<1>6. Serviceable(R, d.id) <=> /\ [size |-> 4, int |-> 2] \in c.states
                               /\ \E m \in c.maps : Whole(m) /\ Covered(m)
                               /\ sound
  BY <1>1, <1>2, <1>3, <1>4, Zenon DEF Serviceable, IsColumn
<1>7. QED
  BY <1>5, <1>6 DEF R

(* The record a render writes is the one that BDS would: for a dimension   *)
(* that resolve accepts, what serialize leaves is the column as BDS has    *)
(* it, finalized.                                                          *)
THEOREM RenderWritesBedrocksKey ==
  ASSUME NEW d, KnownDimension(d), d.id \in 0..2,
         (d.vtable = "overworld") <=> d.id = 0,
         d.vtable # "overworld" => (d.name = "15NetherDimension" <=> d.id = 1),
         NEW p, NEW c, c.states = {}
  PROVE  SerializedRecords(d, p, c) =
           BedrockRecords(d, p, [states |-> {[size |-> 4, int |-> 2]},
                                 maps |-> c.maps, sections |-> c.sections])
<1>1. FinalizedRecord(d, p) =
        BedrockRecord(d, p, <<FinalizedTag>>, [size |-> 4, int |-> 2])
  <2>1. FinalizedWords(d, p) = IF d.id = 0 THEN p ELSE <<p[1], p[2], d.id>>
    BY DEF FinalizedWords
  <2>2. QED
    BY <2>1 DEF FinalizedRecord, BedrockRecord
<1>2. QED
  BY <1>1 DEF SerializedRecords, BedrockRecords
-----------------------------------------------------------------------------
(* A whole rectangle, in a database of several dimensions.                 *)

(* The key of a record tells its dimension and its position, whatever the  *)
(* database holds of others.                                               *)
LEMMA KeyTells ==
  ASSUME NEW d, d.id \in 0..2, NEW p \in Int \X Int, NEW bytes \in Seq(Int),
         Len(bytes) \in {1, 2}, NEW value, NEW id \in 0..2
  PROVE  /\ MatchesDimension(BedrockRecord(d, p, bytes, value).key, id) <=> d.id = id
         /\ <<BedrockRecord(d, p, bytes, value).key.words[1],
              BedrockRecord(d, p, bytes, value).key.words[2]>> = p
<1> DEFINE key == BedrockRecord(d, p, bytes, value).key
<1>1. key.words = (IF d.id = 0 THEN p ELSE <<p[1], p[2], d.id>>) /\ key.bytes = bytes
  BY DEF BedrockRecord
<1>2. p = <<p[1], p[2]>>
  OBVIOUS
<1>5. Len(key.bytes) = 1 \/ Len(key.bytes) = 2
  BY <1>1
<1> HIDE DEF key
<1>3. CASE d.id = 0
  <2>1. key.words = <<p[1], p[2]>>
    BY <1>1, <1>2, <1>3
  <2>2. Len(key.words) = 2 /\ key.words[1] = p[1] /\ key.words[2] = p[2]
    BY <2>1
  <2>3. KeySize(key) \in {9, 10}
    <3>1. KeySize(key) = 4 * 2 + Len(key.bytes)
      BY <2>2, Zenon DEF KeySize
    <3>2. CASE Len(key.bytes) = 1
      <4>1. KeySize(key) = 4 * 2 + 1
        BY <3>1, <3>2, Zenon
      <4>2. QED
        BY <4>1
    <3>3. CASE Len(key.bytes) = 2
      <4>1. KeySize(key) = 4 * 2 + 2
        BY <3>1, <3>3, Zenon
      <4>2. QED
        BY <4>1
    <3>4. QED
      BY <1>5, <3>2, <3>3, Zenon
  <2>4. MatchesDimension(key, id) <=> d.id = id
    BY <1>3, <2>3 DEF MatchesDimension
  <2>5. QED
    BY <1>2, <2>2, <2>4 DEF key
<1>4. CASE d.id # 0
  <2>1. key.words = <<p[1], p[2], d.id>>
    BY <1>1, <1>4
  <2>2. Len(key.words) = 3 /\ key.words[1] = p[1] /\ key.words[2] = p[2] /\ key.words[3] = d.id
    BY <2>1
  <2>3. KeySize(key) \in {13, 14}
    <3>1. KeySize(key) = 4 * 3 + Len(key.bytes)
      BY <2>2, Zenon DEF KeySize
    <3>2. CASE Len(key.bytes) = 1
      <4>1. KeySize(key) = 4 * 3 + 1
        BY <3>1, <3>2, Zenon
      <4>2. QED
        BY <4>1
    <3>3. CASE Len(key.bytes) = 2
      <4>1. KeySize(key) = 4 * 3 + 2
        BY <3>1, <3>3, Zenon
      <4>2. QED
        BY <4>1
    <3>4. QED
      BY <1>5, <3>2, <3>3, Zenon
  <2>4. MatchesDimension(key, id) <=> d.id = id
    BY <1>4, <2>2, <2>3 DEF MatchesDimension
  <2>5. QED
    BY <1>2, <2>2, <2>4 DEF key
<1>6. QED
  BY <1>3, <1>4

LEMMA ColumnKeys ==
  ASSUME NEW d, d.id \in 0..2, NEW p \in Int \X Int, NEW c, IsColumn(c),
         NEW r \in BedrockRecords(d, p, c), NEW id \in 0..2
  PROVE  /\ MatchesDimension(r.key, id) <=> d.id = id
         /\ <<r.key.words[1], r.key.words[2]>> = p
<1>1. CASE \E v \in c.states : r = BedrockRecord(d, p, <<FinalizedTag>>, v)
  <2>1. <<FinalizedTag>> \in Seq(Int) /\ Len(<<FinalizedTag>>) = 1
    BY DEF FinalizedTag
  <2>2. QED
    BY <1>1, <2>1, KeyTells
<1>2. CASE \E m \in c.maps : r = BedrockRecord(d, p, <<HeightsTag>>, m)
  <2>1. <<HeightsTag>> \in Seq(Int) /\ Len(<<HeightsTag>>) = 1
    BY DEF HeightsTag
  <2> DEFINE last == <<HeightsTag>>
  <2> HIDE DEF last
  <2>2. /\ last \in Seq(Int) /\ Len(last) = 1
        /\ \E m \in c.maps : r = BedrockRecord(d, p, last, m)
    BY <1>2, <2>1 DEF last
  <2>3. QED
    BY <2>2, KeyTells
<1>3. CASE \E y \in DOMAIN c.sections :
             r = BedrockRecord(d, p, <<SectionTag, y % 256>>, c.sections[y])
  <2>1. PICK y \in DOMAIN c.sections :
          r = BedrockRecord(d, p, <<SectionTag, y % 256>>, c.sections[y])
    BY <1>3
  <2>2. y \in -128..127
    BY DEF IsColumn
  <2>3. y % 256 \in Int
    BY <2>2
  <2>4. <<SectionTag, y % 256>> \in Seq(Int) /\ Len(<<SectionTag, y % 256>>) = 2
    BY <2>3 DEF SectionTag
  <2> DEFINE last == <<SectionTag, y % 256>>
  <2> HIDE DEF last
  <2>5. last \in Seq(Int) /\ Len(last) = 2 /\ r = BedrockRecord(d, p, last, c.sections[y])
    BY <2>1, <2>4 DEF last
  <2>6. QED
    BY <2>5, KeyTells
<1>4. QED
  BY <1>1, <1>2, <1>3 DEF BedrockRecords

(* The records of each dimension's columns at its places.                  *)
RecordsOf(Dims, Places, col) ==
  UNION {UNION {BedrockRecords(e, q, col[e][q]) : q \in Places[e]} : e \in Dims}

(* A database that holds, of each dimension of a set, columns at some      *)
(* places passes the inspector for a rectangle exactly if the dimension    *)
(* has a documented column at each of the rectangle's positions, whatever  *)
(* the other dimensions hold at the same positions.                        *)
THEOREM RectangleAsDocumented ==
  ASSUME NEW Dims, NEW Places, NEW col,
         \A e \in Dims : e.id \in 0..2 /\ Places[e] \subseteq Int \X Int,
         \A e, f \in Dims : e.id = f.id => e = f,
         \A e \in Dims : \A q \in Places[e] : IsColumn(col[e][q]),
         NEW d \in Dims, NEW name, DimensionId(name) = d.id,
         NEW b, b.minX \in Int, b.maxX \in Int, b.minZ \in Int, b.maxZ \in Int,
         b.minX <= b.maxX, b.minZ <= b.maxZ
  PROVE  AllServiceable(RecordsOf(Dims, Places, col), name, b)
           <=> \A q \in (b.minX .. b.maxX) \X (b.minZ .. b.maxZ) :
                 q \in Places[d] /\ Documented(d, col[d][q])
<1> DEFINE database == RecordsOf(Dims, Places, col)
           square == (b.minX .. b.maxX) \X (b.minZ .. b.maxZ)
           At(q) == RecordsAt(database, d.id, q)
           seen == {q \in square : At(q) # {}}
<1>0. database = UNION {UNION {BedrockRecords(e, q, col[e][q]) : q \in Places[e]} :
                          e \in Dims}
  BY DEF RecordsOf
<1> HIDE DEF database
<1>1. \A q \in square : q \in Int \X Int
  OBVIOUS
<1>2. ASSUME NEW q \in Places[d]
      PROVE  At(q) = BedrockRecords(d, q, col[d][q])
  <2>1. ASSUME NEW r \in At(q)
        PROVE  r \in BedrockRecords(d, q, col[d][q])
    <3>1. /\ r \in database /\ MatchesDimension(r.key, d.id)
          /\ <<r.key.words[1], r.key.words[2]>> = q
      BY <2>1 DEF RecordsAt
    <3>2. PICK e \in Dims : r \in UNION {BedrockRecords(e, s, col[e][s]) : s \in Places[e]}
      BY <1>0, <3>1
    <3>3. PICK s \in Places[e] : r \in BedrockRecords(e, s, col[e][s])
      BY <3>2
    <3>4. /\ MatchesDimension(r.key, d.id) <=> e.id = d.id
          /\ <<r.key.words[1], r.key.words[2]>> = s
      BY <3>3, ColumnKeys
    <3>5. e = d /\ s = q
      BY <3>1, <3>4
    <3>6. QED
      BY <3>3, <3>5
  <2>2. ASSUME NEW r \in BedrockRecords(d, q, col[d][q])
        PROVE  r \in At(q)
    <3>1. r \in database
      BY <1>0, <2>2
    <3>2. MatchesDimension(r.key, d.id) /\ <<r.key.words[1], r.key.words[2]>> = q
      BY <2>2, ColumnKeys
    <3>3. QED
      BY <3>1, <3>2 DEF RecordsAt
  <2>3. QED
    BY <2>1, <2>2
<1>3. ASSUME NEW q \in square, q \notin Places[d]
      PROVE  At(q) = {}
  <2>1. SUFFICES ASSUME NEW r \in At(q) PROVE FALSE
    OBVIOUS
  <2>2. /\ r \in database /\ MatchesDimension(r.key, d.id)
        /\ <<r.key.words[1], r.key.words[2]>> = q
    BY <2>1 DEF RecordsAt
  <2>3. PICK e \in Dims : r \in UNION {BedrockRecords(e, s, col[e][s]) : s \in Places[e]}
    BY <1>0, <2>2
  <2>4. PICK s \in Places[e] : r \in BedrockRecords(e, s, col[e][s])
    BY <2>3
  <2>5. /\ MatchesDimension(r.key, d.id) <=> e.id = d.id
        /\ <<r.key.words[1], r.key.words[2]>> = s
    BY <2>4, ColumnKeys
  <2>6. QED
    BY <1>3, <2>2, <2>4, <2>5
<1>4. /\ IsFiniteSet(square)
      /\ Cardinality(square) = (b.maxX - b.minX + 1) * (b.maxZ - b.minZ + 1)
  <2>1. /\ IsFiniteSet(b.minX .. b.maxX) /\ IsFiniteSet(b.minZ .. b.maxZ)
        /\ Cardinality(b.minX .. b.maxX) = b.maxX - b.minX + 1
        /\ Cardinality(b.minZ .. b.maxZ) = b.maxZ - b.minZ + 1
    <3> DEFINE x0 == b.minX  x1 == b.maxX  z0 == b.minZ  z1 == b.maxZ
    <3>1. /\ x0 \in Int /\ x1 \in Int /\ z0 \in Int /\ z1 \in Int
          /\ ~(x0 > x1) /\ ~(z0 > z1)
      OBVIOUS
    <3> HIDE DEF x0, x1, z0, z1
    <3>2. /\ IsFiniteSet(x0 .. x1) /\ Cardinality(x0 .. x1) = x1 - x0 + 1
          /\ IsFiniteSet(z0 .. z1) /\ Cardinality(z0 .. z1) = z1 - z0 + 1
      BY <3>1, FS_Interval
    <3>3. QED
      BY <3>2 DEF x0, x1, z0, z1
  <2>2. QED
    BY <2>1, FS_Product
<1> HIDE DEF square, At
<1>5. Cardinality(seen) = (b.maxX - b.minX + 1) * (b.maxZ - b.minZ + 1) <=> seen = square
  BY <1>4, FS_Subset
<1>6. AllServiceable(database, name, b)
        <=> seen = square /\ \A q \in seen : Serviceable(At(q), d.id)
  BY <1>5, Zenon DEF AllServiceable, At, square
<1>7. ASSUME NEW q \in Places[d]
      PROVE  /\ Serviceable(At(q), d.id) <=> Documented(d, col[d][q])
             /\ Documented(d, col[d][q]) => At(q) # {}
  <2>1. Serviceable(At(q), d.id) <=> Documented(d, col[d][q])
    BY <1>2, ServiceableAsDocumented
  <2>2. Serviceable(At(q), d.id) => At(q) # {}
    BY DEF Serviceable, Finalized, Tagged
  <2>3. QED
    BY <2>1, <2>2
<1>8. QED
  BY <1>3, <1>6, <1>7 DEF database, square

-----------------------------------------------------------------------------
(* What the database holds after a render.                                 *)

LEMMA NameNumbers ==
  ASSUME NEW d \in Rendered
  PROVE  DimensionId(Name(d)) = d.id /\ d.id \in 0..2
BY DimensionAssumption DEF Name, DimensionId

(* A serialized column is the generated one, finalized.                    *)
LEMMA SerializedIsFinished ==
  ASSUME NEW d \in Rendered, NEW p
  PROVE  SerializedRecords(d, p, Generated[d]) = BedrockRecords(d, p, Finished(Generated[d]))
<1>1. /\ KnownDimension(d) /\ d.id \in 0..2
      /\ (d.vtable = "overworld") <=> d.id = 0
      /\ d.vtable # "overworld" => (d.name = "15NetherDimension" <=> d.id = 1)
  BY DimensionAssumption
<1>2. Generated[d].states = {}
  BY ColumnAssumption
<1>. QED
  BY <1>1, <1>2, RenderWritesBedrocksKey DEF Finished

LEMMA FinishedIsColumn ==
  ASSUME NEW c, IsColumn(c)
  PROVE  IsColumn(Finished(c))
<1>1. /\ Finished(c).states = {[size |-> 4, int |-> 2]}
      /\ Finished(c).maps = c.maps /\ Finished(c).sections = c.sections
  BY DEF Finished
<1>2. \A v \in Finished(c).states : v = [size |-> 4, int |-> 2]
  BY <1>1
<1>3. [size |-> 4, int |-> 2] \in [size : Nat, int : Int]
  OBVIOUS
<1>. QED
  BY <1>1, <1>2, <1>3, Zenon DEF IsColumn

(* The column the database holds at a position of the plan.                *)
ColumnAt(p) ==
  IF p \in plan.target
    THEN IF p = First /\ odd # {} THEN CHOOSE c \in odd : TRUE
                                  ELSE Finished(Generated[dimension])
    ELSE Generated[dimension]

(* Where the database holds columns of a dimension.                        *)
Stored(d) == IF d = dimension THEN Planned ELSE {}

LEMMA OddColumn ==
  ASSUME Init, odd # {}
  PROVE  \E c \in Odd[dimension] : odd = {c} /\ (CHOOSE e \in odd : TRUE) = c
BY DEF Init

LEMMA DatabaseColumns ==
  ASSUME Init
  PROVE  /\ Database = UNION {UNION {BedrockRecords(d, p, ColumnAt(p)) : p \in Stored(d)} :
                                d \in Rendered}
         /\ \A p \in Planned : IsColumn(ColumnAt(p))
<1>0. dimension \in Rendered
  BY DEF Init
<1>. DEFINE held(p) == IF p \in plan.target
                         THEN IF p = First /\ odd # {}
                                THEN UNION {BedrockRecords(dimension, p, c) : c \in odd}
                                ELSE SerializedRecords(dimension, p, Generated[dimension])
                         ELSE BedrockRecords(dimension, p, Generated[dimension])
<1>1. ASSUME NEW p \in Planned
      PROVE  held(p) = BedrockRecords(dimension, p, ColumnAt(p))
  <2>1. CASE p \in plan.target /\ p = First /\ odd # {}
    <3>1. PICK c \in Odd[dimension] : odd = {c} /\ (CHOOSE e \in odd : TRUE) = c
      BY <2>1, OddColumn
    <3>2. ColumnAt(p) = c
      BY <2>1, <3>1 DEF ColumnAt
    <3>3. UNION {BedrockRecords(dimension, p, e) : e \in odd} = BedrockRecords(dimension, p, c)
      BY <3>1
    <3>. QED
      BY <2>1, <3>2, <3>3
  <2>2. CASE p \in plan.target /\ ~(p = First /\ odd # {})
    BY <1>0, <2>2, SerializedIsFinished DEF ColumnAt
  <2>3. CASE p \notin plan.target
    BY <2>3 DEF ColumnAt
  <2>. QED
    BY <2>1, <2>2, <2>3
<1>2. Database = UNION {held(p) : p \in Planned}
  BY DEF Database
<1>. HIDE DEF held
<1>3. Database = UNION {BedrockRecords(dimension, p, ColumnAt(p)) : p \in Planned}
  BY <1>1, <1>2
<1>4. UNION {UNION {BedrockRecords(d, p, ColumnAt(p)) : p \in Stored(d)} : d \in Rendered}
        = UNION {BedrockRecords(dimension, p, ColumnAt(p)) : p \in Planned}
  BY <1>0 DEF Stored
<1>5. ASSUME NEW p \in Planned
      PROVE  IsColumn(ColumnAt(p))
  <2>1. IsColumn(Generated[dimension]) /\ \A c \in Odd[dimension] : IsColumn(c)
    BY <1>0, ColumnAssumption
  <2>2. IsColumn(Finished(Generated[dimension]))
    BY <2>1, FinishedIsColumn
  <2>3. odd # {} => IsColumn(CHOOSE c \in odd : TRUE)
    BY <2>1, OddColumn
  <2>. QED
    BY <2>1, <2>2, <2>3 DEF ColumnAt
<1>. QED
  BY <1>3, <1>4, <1>5

(* The inspector's verdict of a rectangle.                                 *)
LEMMA VerdictOfRectangle ==
  ASSUME Init, NEW d \in Rendered, NEW b, IsBounds(b)
  PROVE  AllServiceable(Database, Name(d), b)
           <=> \A p \in PositionsIn(b) : p \in Stored(d) /\ Documented(d, ColumnAt(p))
<1>. DEFINE Places == [e \in Rendered |-> Stored(e)]
            col == [e \in Rendered |-> [p \in Planned |-> ColumnAt(p)]]
<1>1. /\ \A e \in Rendered : e.id \in 0..2 /\ Places[e] \subseteq Int \X Int
      /\ \A e, f \in Rendered : e.id = f.id => e = f
  <2>1. Planned \subseteq Int \X Int
    BY Shape DEF PositionsIn, IsBounds
  <2>. QED
    BY <2>1, DimensionAssumption DEF Stored
<1>2. \A e \in Rendered : \A p \in Places[e] : p \in Planned /\ col[e][p] = ColumnAt(p)
  BY DEF Stored
<1>3. \A e \in Rendered : \A p \in Places[e] : IsColumn(col[e][p])
  BY <1>2, DatabaseColumns
<1>4. /\ b.minX \in Int /\ b.maxX \in Int /\ b.minZ \in Int /\ b.maxZ \in Int
      /\ b.minX <= b.maxX /\ b.minZ <= b.maxZ
  BY DEF IsBounds
<1>5. Database = RecordsOf(Rendered, Places, col)
  <2>1. ASSUME NEW e \in Rendered
        PROVE  {BedrockRecords(e, p, ColumnAt(p)) : p \in Stored(e)} =
                 {BedrockRecords(e, p, col[e][p]) : p \in Places[e]}
    <3>1. Places[e] = Stored(e)
      OBVIOUS
    <3>. HIDE DEF Places, col
    <3>. QED
      BY <1>2, <3>1
  <2>. HIDE DEF Places, col
  <2>. DEFINE here(e) == UNION {BedrockRecords(e, p, ColumnAt(p)) : p \in Stored(e)}
              there(e) == UNION {BedrockRecords(e, p, col[e][p]) : p \in Places[e]}
  <2>2. \A e \in Rendered : here(e) = there(e)
    BY <2>1, Zenon
  <2>3. Database = UNION {here(e) : e \in Rendered}
    BY DatabaseColumns
  <2>4. RecordsOf(Rendered, Places, col) = UNION {there(e) : e \in Rendered}
    BY DEF RecordsOf
  <2>. HIDE DEF here, there
  <2>. QED
    BY <2>2, <2>3, <2>4
<1>6. DimensionId(Name(d)) = d.id
  BY NameNumbers
<1>. HIDE DEF col
<1>7. AllServiceable(Database, Name(d), b)
        <=> \A p \in (b.minX .. b.maxX) \X (b.minZ .. b.maxZ) :
              p \in Places[d] /\ Documented(d, col[d][p])
  <2>. HIDE DEF Places
  <2>. QED
    BY <1>1, <1>3, <1>4, <1>5, <1>6, RectangleAsDocumented
<1>. QED
  BY <1>2, <1>7 DEF PositionsIn

(* After a complete render the inspector passes the square that was asked  *)
(* for, in its own dimension and in no other, and no column beyond it      *)
(* (serialize, write_finalized_record, matches_dimension), for every       *)
(* square, dimension and halo.                                             *)
THEOREM CompleteRenderPasses == Spec => []RenderPassesInspection
<1>1. Init => RenderPassesInspection
  <2>. SUFFICES ASSUME Init, odd = {}, NEW d \in Rendered
                PROVE  /\ AllServiceable(Database, Name(d), Square) <=> d = dimension
                       /\ ~AllServiceable(Database, Name(d), [Square EXCEPT !.maxX = @ + 1])
    BY DEF RenderPassesInspection
  <2>. DEFINE wide == [Square EXCEPT !.maxX = @ + 1]
              beyond == <<Square.maxX + 1, Square.minZ>>
  <2>1. /\ IsBounds(Square) /\ plan.target = PositionsIn(Square)
        /\ PositionsIn(Square) \subseteq Planned
    BY Shape, HaloAround DEF Halos
  <2>2. /\ wide.minX = Square.minX /\ wide.maxX = Square.maxX + 1
        /\ wide.minZ = Square.minZ /\ wide.maxZ = Square.maxZ
    BY DEF Square, SquareBounds
  <2>3. First \in PositionsIn(Square)
    BY <2>1 DEF PositionsIn, IsBounds, First
  <2>4. beyond \in PositionsIn(wide) /\ beyond \notin PositionsIn(Square)
    BY <2>1, <2>2 DEF PositionsIn, IsBounds
  <2>5. IsBounds(wide)
    BY <2>1, <2>2 DEF IsBounds
  <2>. HIDE DEF wide, beyond
  <2>6. Documented(dimension, Finished(Generated[dimension]))
    BY ColumnAssumption DEF Init
  <2>7. ~Documented(dimension, Generated[dimension])
    BY ColumnAssumption DEF Init, Documented
  <2>8. AllServiceable(Database, Name(d), Square) <=> d = dimension
    <3>1. CASE d = dimension
      <4>1. \A p \in PositionsIn(Square) : ColumnAt(p) = Finished(Generated[dimension])
        BY <2>1 DEF ColumnAt
      <4>. QED
        BY <2>1, <2>6, <3>1, <4>1, VerdictOfRectangle DEF Stored
    <3>2. CASE d # dimension
      BY <2>1, <2>3, <3>2, VerdictOfRectangle DEF Stored
    <3>. QED
      BY <3>1, <3>2
  <2>9. ~AllServiceable(Database, Name(d), wide)
    <3>1. SUFFICES ~(beyond \in Stored(d) /\ Documented(d, ColumnAt(beyond)))
      BY <2>4, <2>5, VerdictOfRectangle
    <3>2. ColumnAt(beyond) = Generated[dimension]
      BY <2>1, <2>4 DEF ColumnAt
    <3>. QED
      BY <2>7, <3>2 DEF Stored
  <2>. QED
    BY <2>8, <2>9 DEF wide
<1>. QED
  BY <1>1, AlwaysPlanned, PTL

(* Whatever the database holds at one column of the square, the inspector  *)
(* passes the square exactly if that column is as documented.              *)
THEOREM DocumentedVerdict == Spec => []VerdictAsDocumented
<1>1. Init => VerdictAsDocumented
  <2>. SUFFICES ASSUME Init, NEW c \in odd
                PROVE  AllServiceable(Database, Name(dimension), Square)
                         <=> Documented(dimension, c)
    BY DEF VerdictAsDocumented
  <2>1. /\ IsBounds(Square) /\ plan.target = PositionsIn(Square)
        /\ PositionsIn(Square) \subseteq Planned /\ dimension \in Rendered
    BY Shape, HaloAround DEF Halos, Init
  <2>2. First \in PositionsIn(Square)
    BY <2>1 DEF PositionsIn, IsBounds, First
  <2>3. ColumnAt(First) = c
    BY <2>1, <2>2, OddColumn DEF ColumnAt
  <2>4. \A p \in PositionsIn(Square) :
          p # First => ColumnAt(p) = Finished(Generated[dimension])
    BY <2>1 DEF ColumnAt
  <2>5. Documented(dimension, Finished(Generated[dimension]))
    BY <2>1, ColumnAssumption
  <2>6. AllServiceable(Database, Name(dimension), Square)
          <=> \A p \in PositionsIn(Square) :
                p \in Stored(dimension) /\ Documented(dimension, ColumnAt(p))
    BY <2>1, VerdictOfRectangle
  <2>. QED
    BY <2>1, <2>2, <2>3, <2>4, <2>5, <2>6 DEF Stored
<1>. QED
  BY <1>1, AlwaysPlanned, PTL
=============================================================================
