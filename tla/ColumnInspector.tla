--------------------------- MODULE ColumnInspector --------------------------
(***************************************************************************)
(* The database inspector of tools/database: which columns of a rectangle  *)
(* it calls serviceable, and when the whole of it.  Bit masks of sections  *)
(* are sets; the diagnostics and the sums it prints are left out.  BDS     *)
(* stores one record of each tag and section for a column, so that no      *)
(* record overwrites what another has said.                                *)
(*                                                                         *)
(* A stored section is [version, index, storages, layers, trailing]:       *)
(* storages is the number it declares, layers what is there.  A layer is   *)
(* [runtime, bits, words, odd, value, count, entries]: words is the number *)
(* of its packed words; every field of them is 0 but the one at odd, a     *)
(* pair <<word, field>>, that holds value; entries says for each palette   *)
(* entry whether it is a well-formed block.                                *)
(***************************************************************************)
EXTENDS ChunkRecords, FiniteSets

(* dimension_id, minimum_section and height_limit of main.                 *)
DimensionId(name) == CASE name = "overworld" -> 0
                       [] name = "nether" -> 1
                       [] name = "the_end" -> 2
MinimumSection(id) == IF id = 0 THEN -4 ELSE 0
HeightLimit(id) == CASE id = 0 -> 384 [] id = 1 -> 128 [] id = 2 -> 256

(* matches_dimension.                                                      *)
MatchesDimension(key, id) ==
  IF id = 0
    THEN KeySize(key) \in {9, 10}
    ELSE KeySize(key) \in {13, 14} /\ key.words[3] = id

(* A key's byte as a signed number.                                        *)
Int8(byte) == IF byte < 128 THEN byte ELSE byte - 256

-----------------------------------------------------------------------------
(* decode_section.                                                         *)
Widths == {0, 1, 2, 3, 4, 5, 6, 8, 16}
PerWord(bits) == 32 \div bits

PackedWords(bits) ==
  IF bits = 0 THEN 0 ELSE (SectionBlocks + PerWord(bits) - 1) \div PerWord(bits)

PaletteSize(layer) == IF layer.bits = 0 THEN 1 ELSE layer.count

(* The fields that are decoded: all of every word, up to the last block.   *)
DecodedFields(bits) ==
  IF bits = 0
    THEN {}
    ELSE {f \in (0 .. PackedWords(bits) - 1) \X (0 .. PerWord(bits) - 1) :
            f[1] * PerWord(bits) + f[2] < SectionBlocks}

DecodesLayer(layer) ==
  /\ ~layer.runtime
  /\ layer.bits \in Widths
  /\ layer.words = PackedWords(layer.bits)
  /\ PaletteSize(layer) \in 1 .. SectionBlocks
  /\ layer.bits # 0 => layer.count <= 2^layer.bits
  /\ layer.odd \in DecodedFields(layer.bits) => layer.value < layer.count
  /\ Len(layer.entries) = PaletteSize(layer)
  /\ \A i \in DOMAIN layer.entries : layer.entries[i]

(* Each layer begins where the one before it ends: nothing may be missing  *)
(* (take) nor left over (remaining).                                       *)
DecodeSection(section, y) ==
  /\ section.version \in {8, 9}
  /\ section.storages <= 16
  /\ section.version = 9 => section.index = y
  /\ section.storages = Len(section.layers)
  /\ \A i \in DOMAIN section.layers : DecodesLayer(section.layers[i])
  /\ ~section.trailing

-----------------------------------------------------------------------------
(* The records main reads for a column of its rectangle.                   *)
RecordsAt(database, id, p) ==
  {r \in database : /\ MatchesDimension(r.key, id)
                    /\ <<r.key.words[1], r.key.words[2]>> = p}

Tagged(records, tag) == {r \in records : r.key.bytes[1] = tag}

(* A section's record has the number of the section in its key as well.    *)
Sections(records) == {r \in Tagged(records, SectionTag) : Len(r.key.bytes) = 2}
SectionIndex(r, id) == Int8(r.key.bytes[2]) - MinimumSection(id)

ValidSection(r, id) ==
  /\ SectionIndex(r, id) \in 0 .. (HeightLimit(id) \div 16) - 1
  /\ DecodeSection(r.value, Int8(r.key.bytes[2]))

Finalized(records) ==
  \E r \in Tagged(records, FinalizedTag) : r.value.size = 4 /\ r.value.int = 2

(* The heights that are read, of a map that may be cut short.              *)
Heights(r) ==
  LET read == IF r.value.size < 2 * HeightEntries
                THEN r.value.size \div 2 ELSE HeightEntries
  IN  {r.value.heights[i] : i \in 1 .. read}

HeightValid(records, id) ==
  \E r \in Tagged(records, HeightsTag) :
    /\ r.value.size >= 2 * HeightEntries
    /\ \A h \in Heights(r) : h <= HeightLimit(id)

(* Slip: the section above a surface at a multiple of 16.                  *)
RequiredSectionsAbove(records, id) ==
  {h \div 16 : h \in {k \in UNION {Heights(r) : r \in Tagged(records, HeightsTag)} :
                        k \in 1 .. HeightLimit(id)}}

RequiredSections(records, id) ==
  {(h - 1) \div 16 :
     h \in {k \in UNION {Heights(r) : r \in Tagged(records, HeightsTag)} :
              k \in 1 .. HeightLimit(id)}}

DecodedSections(records, id) ==
  {SectionIndex(r, id) :
     r \in {s \in Sections(records) : ValidSection(s, id) /\ s.value.storages # 0}}

Serviceable(records, id) ==
  /\ Finalized(records)
  /\ HeightValid(records, id)
  /\ \A r \in Sections(records) : ValidSection(r, id)
  /\ RequiredSections(records, id) \subseteq DecodedSections(records, id)

(* What main answers for a rectangle: as many columns as it holds were     *)
(* seen, and each of them is serviceable.                                  *)
AllServiceable(database, name, b) ==
  LET id == DimensionId(name)
      seen == {p \in (b.minX .. b.maxX) \X (b.minZ .. b.maxZ) :
                 RecordsAt(database, id, p) # {}}
  IN  /\ Cardinality(seen) = (b.maxX - b.minX + 1) * (b.maxZ - b.minZ + 1)
      /\ \A p \in seen : Serviceable(RecordsAt(database, id, p), id)
=============================================================================
