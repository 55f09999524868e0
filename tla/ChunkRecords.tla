---------------------------- MODULE ChunkRecords ----------------------------
(***************************************************************************)
(* The records of a column in Bedrock's LevelDB database: the one that     *)
(* ChunkSource::serialize writes itself, and those that BDS writes, as     *)
(* far as the repository's inspector reads them.  A key is its 32-bit      *)
(* words followed by its last bytes; a value is what its reader tells      *)
(* apart.                                                                  *)
(***************************************************************************)
EXTENDS Integers, Sequences

CONSTANTS
  HeightEntries,  \* heights of a column's map, two bytes each (256 in the code)
  SectionBlocks   \* blocks of a section (4096 in the code)

ASSUME RecordAssumption ==
  /\ HeightEntries \in Nat \ {0}
  /\ SectionBlocks \in Nat \ {0}

FinalizedTag == 54   \* 0x36
HeightsTag == 43     \* 0x2b, Data3D
SectionTag == 47     \* 0x2f

(* A BDS dimension object: its vtable, its RTTI name and the number that   *)
(* BDS itself gives it in keys.  resolve refuses any but these.            *)
KnownDimension(d) ==
  d.vtable = "overworld" \/ d.name \in {"15NetherDimension", "15TheEndDimension"}

(* Slip: every other dimension is taken for the Nether.                    *)
FinalizedWordsOneOther(d, p) ==
  IF d.vtable = "overworld" THEN p ELSE <<p[1], p[2], 1>>

(* How write_finalized_record's key begins: the column's position and,     *)
(* outside the Overworld, its dimension.                                   *)
FinalizedWords(d, p) ==
  IF d.vtable = "overworld"
    THEN p
    ELSE <<p[1], p[2], IF d.name = "15NetherDimension" THEN 1 ELSE 2>>

(* write_finalized_record: four bytes, the state 2.                        *)
FinalizedRecord(d, p) ==
  [key |-> [words |-> FinalizedWords(d, p), bytes |-> <<FinalizedTag>>],
   value |-> [size |-> 4, int |-> 2]]

KeySize(key) == 4 * Len(key.words) + Len(key.bytes)

(* A record that BDS writes by itself, SerializeChunk's among them.        *)
BedrockRecord(d, p, bytes, value) ==
  [key |-> [words |-> IF d.id = 0 THEN p ELSE <<p[1], p[2], d.id>>, bytes |-> bytes],
   value |-> value]

(* What BDS stores of a column: perhaps a state, perhaps a height map of   *)
(* some size, and sections, their signed number in the key's last byte.    *)
BedrockRecords(d, p, c) ==
  {BedrockRecord(d, p, <<FinalizedTag>>, v) : v \in c.states}
    \cup {BedrockRecord(d, p, <<HeightsTag>>, v) : v \in c.maps}
    \cup {BedrockRecord(d, p, <<SectionTag, y % 256>>, c.sections[y]) :
             y \in DOMAIN c.sections}

(* serialize: BDS stores the column, then the render its state.            *)
SerializedRecords(d, p, c) == BedrockRecords(d, p, c) \cup {FinalizedRecord(d, p)}
=============================================================================
