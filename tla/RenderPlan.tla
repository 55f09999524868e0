----------------------------- MODULE RenderPlan -----------------------------
(***************************************************************************)
(* The pure part of a render (render/plan.cpp) and the plan handleStart    *)
(* makes of it (plugin/commands.cpp): which columns a square of blocks     *)
(* touches, the halo around them, the order in which columns are requested *)
(* and how many may be awaited at once.  A position is <<x, z>>.           *)
(*                                                                         *)
(* As in RenderJob, a definition whose comment starts with "Slip:" is a    *)
(* mistake the definition after it could hold, and no part of the model.   *)
(***************************************************************************)
EXTENDS Integers, Sequences, FiniteSets

CONSTANTS
  ChunkSize,       \* blocks along a column's side: 16
  Halo,            \* columns of dependency frontier: 6
  MaxActive,       \* max_active_generation_requests: 1536
  TargetLimit,     \* bounded_generation_target_limit: 4096
  CoordinateSpan   \* 2^32: chunk coordinates are signed integers of 32 bits

ASSUME PlanAssumption ==
  /\ ChunkSize \in Nat \ {0}
  /\ Halo \in Nat
  /\ MaxActive \in Nat \ {0}
  /\ TargetLimit \in Nat
  /\ CoordinateSpan \in Nat \ {0}
  /\ TargetLimit + 2 * Halo <= 2^30

-----------------------------------------------------------------------------
(* Bounds.                                                                 *)

(* Slip: division truncates towards zero.                                  *)
BlockToChunkTruncated(block) ==
  IF block >= 0 THEN block \div ChunkSize ELSE -((-block) \div ChunkSize)

(* C++ division truncates, so negative blocks are rounded by hand.         *)
BlockToChunk(block) ==
  IF block >= 0
    THEN block \div ChunkSize
    ELSE -((-block + (ChunkSize - 1)) \div ChunkSize)

SquareBounds(centerX, centerZ, radius) ==
  [minX |-> BlockToChunk(centerX - radius),
   minZ |-> BlockToChunk(centerZ - radius),
   maxX |-> BlockToChunk(centerX + radius - 1),
   maxZ |-> BlockToChunk(centerZ + radius - 1)]

Width(b) == b.maxX - b.minX + 1
Depth(b) == b.maxZ - b.minZ + 1
Count(b) == Width(b) * Depth(b)

Contains(b, p) ==
  /\ b.minX <= p[1] /\ p[1] <= b.maxX
  /\ b.minZ <= p[2] /\ p[2] <= b.maxZ

PositionsIn(b) == (b.minX .. b.maxX) \X (b.minZ .. b.maxZ)

Expanded(b, chunks) ==
  [minX |-> b.minX - chunks, minZ |-> b.minZ - chunks,
   maxX |-> b.maxX + chunks, maxZ |-> b.maxZ + chunks]

(* Slip: the halo is added on one side only.                               *)
GenerationBoundsLopsided(target) ==
  [Expanded(target, Halo) EXCEPT !.minX = target.minX, !.minZ = target.minZ]

GenerationBounds(target) == Expanded(target, Halo)

-----------------------------------------------------------------------------
(* Orders.                                                                 *)

(***************************************************************************)
(* std::sort of the positions by their keys: a position goes where the     *)
(* number of keys before its own puts it.  An element is <<key, position>>.*)
(***************************************************************************)
Sorted(keyed, Before(_, _)) ==
  LET ranked == {<<Cardinality({l \in keyed : Before(l[1], k[1])}), k[2]>> : k \in keyed}
  IN  [i \in 1 .. Cardinality(keyed) |-> (CHOOSE r \in ranked : r[1] = i - 1)[2]]

(***************************************************************************)
(* spread_bits on a number written as the set of its one bits: shift left  *)
(* by k, or it in, and mask.  The mask that goes with a shift of k keeps   *)
(* every other group of k bits (0x0000ffff0000ffff for 16, and so on).     *)
(***************************************************************************)
Spread(bits, k) ==
  LET shifted == bits \cup {i + k : i \in bits}
  IN  {i \in shifted : (i \div k) % 2 = 0}

SpreadBits(bits) == Spread(Spread(Spread(Spread(Spread(bits, 16), 8), 4), 2), 1)

(* The bits of an offset within a bounded plan, none wider than 2^30, and  *)
(* the order of the numbers that two sets of bits are.                     *)
OffsetBits == 0..29
Bits(n) == {i \in OffsetBits : (n \div 2^i) % 2 = 1}

Below(s, t) ==
  \E i \in t \ s : \A j \in s \ t : j < i

(* Slip: the bits of z follow those of x instead of alternating with them. *)
MortonKeyConcatenated(b, p) ==
  Bits(p[1] - b.minX) \cup {i + 16 : i \in Bits(p[2] - b.minZ)}

MortonKey(b, p) ==
  SpreadBits(Bits(p[1] - b.minX))
    \cup {i + 1 : i \in SpreadBits(Bits(p[2] - b.minZ))}

MortonOrder(b) == Sorted({<<MortonKey(b, p), p>> : p \in PositionsIn(b)}, Below)

(* Slip: the center is rounded to a column before the distance is taken.   *)
DistanceKeyRounded(b, p) ==
  LET dx == p[1] - (b.minX + b.maxX) \div 2
      dz == p[2] - (b.minZ + b.maxZ) \div 2
  IN  dx * dx + dz * dz

(* Twice the distance to the center, squared.                              *)
DistanceKey(b, p) ==
  LET dx == p[1] * 2 - b.minX - b.maxX
      dz == p[2] * 2 - b.minZ - b.maxZ
  IN  dx * dx + dz * dz

Nearer(k, l) ==
  \/ k[1] < l[1]
  \/ k[1] = l[1] /\ (k[2] < l[2] \/ (k[2] = l[2] /\ k[3] < l[3]))

CenterOut(b) ==
  Sorted({<<<<DistanceKey(b, p), p[2], p[1]>>, p>> : p \in PositionsIn(b)}, Nearer)

(* Slip: z is widened with its sign, which fills the half that holds x.    *)
ChunkKeySignExtended(p) ==
  (IF p[2] < 0 THEN CoordinateSpan - 1 ELSE p[1] % CoordinateSpan)
    * CoordinateSpan + (p[2] % CoordinateSpan)

(* The key of a position in active_: both coordinates as unsigned halves.  *)
ChunkKey(p) ==
  (p[1] % CoordinateSpan) * CoordinateSpan + (p[2] % CoordinateSpan)

-----------------------------------------------------------------------------
(* handleStart's plan.  A small render goes through a bounded window in    *)
(* Morton order; a large one requests everything at once, center first.    *)

PlanFor(dim, centerX, centerZ, radius) ==
  LET target  == SquareBounds(centerX, centerZ, radius)
      planned == GenerationBounds(target)
      bounded == Count(target) <= TargetLimit
      order   == IF bounded THEN MortonOrder(planned) ELSE CenterOut(planned)
  IN  [dim |-> dim,
       order |-> order,
       target |-> {p \in PositionsIn(planned) : Contains(target, p)},
       window |-> IF bounded /\ MaxActive < Len(order)
                    THEN MaxActive ELSE Len(order)]
=============================================================================
