---------------------------- MODULE PlannedRender ----------------------------
(***************************************************************************)
(* The plan of a square around a center, and what the database holds of a  *)
(* dimension when the render of that square is complete: its targets       *)
(* serialized, its halo generated.  One target may hold anything instead.  *)
(***************************************************************************)
EXTENDS RenderPlan, PlanPromise, InspectorPromise

CONSTANTS
  Centers,     \* a center's coordinates, and a radius, in blocks
  Radii,
  Rendered,    \* BDS's dimension objects
  Generated,   \* by dimension, what BDS stores of a column it has generated
  Odd,         \* by dimension, what else the database may hold of a column
  OddSquares   \* <<centerX, centerZ, radius>>: the squares with an odd column

Half == CoordinateSpan \div 2

(* A column that BDS has generated, once it is finalized.                  *)
Finished(c) ==
  [states |-> {[size |-> 4, int |-> 2]}, maps |-> c.maps, sections |-> c.sections]

(* Centers and radii as parse_integer reads them; the last line is         *)
(* 2^32 <= 16 * (2^31 - 6).                                                *)
ASSUME SquareAssumption ==
  /\ Centers \subseteq -Half .. Half - 1
  /\ Radii \subseteq 1 .. Half - 1
  /\ CoordinateSpan = 2 * Half
  /\ CoordinateSpan <= ChunkSize * (Half - Halo)

(* The dimensions of BDS, which resolve tells apart by vtable and name.    *)
ASSUME DimensionAssumption ==
  /\ \A d \in Rendered :
       /\ KnownDimension(d) /\ d.id \in 0..2
       /\ d.vtable = "overworld" <=> d.id = 0
       /\ d.name = "15NetherDimension" <=> d.id = 1
  /\ \A d, e \in Rendered : d.id = e.id => d = e

(* BDS leaves columns with a height map and sections as documented.        *)
ASSUME ColumnAssumption ==
  \A d \in Rendered :
    /\ IsColumn(Generated[d]) /\ Generated[d].states = {}
    /\ Documented(d, Finished(Generated[d]))
    /\ \A c \in Odd[d] : IsColumn(c)

(* A dimension's name in a command.                                        *)
Name(d) == CASE d.id = 0 -> "overworld" [] d.id = 1 -> "nether" [] d.id = 2 -> "the_end"

-----------------------------------------------------------------------------
VARIABLES
  centerX, centerZ, radius, plan,
  dimension,   \* the dimension object that is rendered
  odd          \* what the database holds of the square's first column, if odd

vars == <<centerX, centerZ, radius, plan, dimension, odd>>
Square == SquareBounds(centerX, centerZ, radius)
First == <<Square.minX, Square.minZ>>

Init ==
  /\ centerX \in Centers
  /\ centerZ \in Centers
  /\ radius \in Radii
  /\ dimension \in Rendered
  /\ plan = PlanFor(Name(dimension), centerX, centerZ, radius)
  /\ \/ odd = {}
     \/ /\ <<centerX, centerZ, radius>> \in OddSquares
        /\ \E c \in Odd[dimension] : odd = {c}

Next == UNCHANGED vars
Spec == Init /\ [][Next]_vars

-----------------------------------------------------------------------------
Planned == {plan.order[i] : i \in DOMAIN plan.order}
Near(p, q) == p[1] - q[1] \in -Halo..Halo /\ p[2] - q[2] \in -Halo..Halo

(* The targets are the columns that hold a block of the square, no more    *)
(* and no fewer, on both sides of zero (square_bounds, block_to_chunk).    *)
TargetsAreTouched ==
  LET blocks(c) == c * ChunkSize .. c * ChunkSize + ChunkSize - 1
      square(v) == v - radius .. v + radius - 1
  IN  plan.target =
        {p \in Planned : /\ blocks(p[1]) \cap square(centerX) # {}
                         /\ blocks(p[2]) \cap square(centerZ) # {}}

(* Each column of the targets' frontier, and nothing else, is requested,   *)
(* exactly once (generation_bounds, morton_order, center_out).             *)
FrontierPlannedOnce ==
  /\ Len(plan.order) = Cardinality(Planned)
  /\ Planned = {p \in PositionsIn(Expanded(SquareBounds(centerX, centerZ, radius),
                                           Halo + 1)) :
                  \E q \in plan.target : Near(p, q)}

(* A bounded plan visits the halo's square quadrant by quadrant: columns   *)
(* of one aligned block of side 2, 4, 8... are requested in one run.       *)
QuadrantsTogether ==
  Cardinality(plan.target) <= TargetLimit =>
    \A k \in OffsetBits :
      LET b == GenerationBounds(SquareBounds(centerX, centerZ, radius))
          block(i) == <<(plan.order[i][1] - b.minX) \div 2^k,
                        (plan.order[i][2] - b.minZ) \div 2^k>>
      IN  \A i \in 1 .. Len(plan.order) - 1 :
            block(i) # block(i + 1) =>
              \A j \in i + 2 .. Len(plan.order) : block(j) # block(i)

(* A large plan goes outwards: no column is requested before one that is   *)
(* nearer to the center of the planned square.                             *)
NearestFirst ==
  Cardinality(plan.target) > TargetLimit =>
    \A i, j \in DOMAIN plan.order :
      i < j =>
        LET b == SquareBounds(centerX, centerZ, radius)
            away(v, low, high) == (2 * v - low - high) * (2 * v - low - high)
            far(p) == away(p[1], b.minX, b.maxX) + away(p[2], b.minZ, b.maxZ)
        IN  far(plan.order[i]) <= far(plan.order[j])

-----------------------------------------------------------------------------
(* The database: BDS has stored every column of the plan, the render its   *)
(* targets.                                                                *)
Database ==
  UNION {IF p \in plan.target
           THEN IF p = First /\ odd # {}
                  THEN UNION {BedrockRecords(dimension, p, c) : c \in odd}
                  ELSE SerializedRecords(dimension, p, Generated[dimension])
           ELSE BedrockRecords(dimension, p, Generated[dimension]) : p \in Planned}

(* A complete render passes the inspector: of the square that was asked    *)
(* for, in its own dimension and in no other, and not of any column more   *)
(* (write_finalized_record, matches_dimension, tools/database/README.md).  *)
RenderPassesInspection ==
  odd = {} =>
    \A d \in Rendered :
      /\ AllServiceable(Database, Name(d), Square) <=> d = dimension
      /\ ~AllServiceable(Database, Name(d), [Square EXCEPT !.maxX = @ + 1])

(* The inspector answers as documented, whatever a column holds: it finds  *)
(* all its columns finalized, every height within the dimension and each   *)
(* occupied section there and well-formed, or it does not pass them        *)
(* (inspect_columns.cpp, subchunk_validation.h).                           *)
VerdictAsDocumented ==
  \A c \in odd :
    AllServiceable(Database, Name(dimension), Square) <=> Documented(dimension, c)

-----------------------------------------------------------------------------
(* No two columns of a plan share a key of active_.                        *)
KeysDistinct ==
  \A p, q \in Planned : ChunkKey(p) = ChunkKey(q) => p = q
=============================================================================
