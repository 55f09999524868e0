-------------------------- MODULE InspectorPromise --------------------------
(***************************************************************************)
(* What tools/database/README.md promises of a column that passes the      *)
(* inspector, block by block and height by height.  A column is            *)
(* [states, maps, sections]: what BDS has stored of it, where sections is  *)
(* a function of the stored sections' numbers.                             *)
(***************************************************************************)
EXTENDS ColumnInspector

LayerType ==
  [runtime : BOOLEAN, bits : 0..127, words : Nat, odd : Nat \X Nat,
   value : Nat, count : Nat, entries : Seq(BOOLEAN)]

SectionType ==
  [version : 0..255, index : -128..127, storages : 0..255,
   layers : Seq(LayerType), trailing : BOOLEAN]

(* At most one state and one height map, and sections with numbers of a    *)
(* signed byte: a database has one value for a key.                        *)
IsColumn(c) ==
  /\ \A v \in c.states : v \in [size : Nat, int : Int]
  /\ \A u, v \in c.states : u = v
  /\ \A m \in c.maps : m.size \in Nat /\ m.heights \in [1 .. m.size \div 2 -> Nat]
  /\ \A m, n \in c.maps : m = n
  /\ DOMAIN c.sections \subseteq -128..127
  /\ \A y \in DOMAIN c.sections : c.sections[y] \in SectionType

-----------------------------------------------------------------------------
(* Overworld [-64, 320), Nether [0, 128), End [0, 256).                    *)
MinimumY(d) == IF d.id = 0 THEN -64 ELSE 0
MaximumY(d) == CASE d.id = 0 -> 320 [] d.id = 1 -> 128 [] d.id = 2 -> 256

(* The palette index of a block.                                           *)
DocumentedIndex(layer, block) ==
  LET perWord == 32 \div layer.bits
  IN  IF <<block \div perWord, block % perWord>> = layer.odd THEN layer.value ELSE 0

DocumentedLayer(layer) ==
  IF layer.bits = 0
    THEN ~layer.runtime /\ layer.words = 0 /\ layer.entries = <<TRUE>>
    ELSE /\ ~layer.runtime
         /\ layer.bits \in {1, 2, 3, 4, 5, 6, 8, 16}
         /\ layer.words * (32 \div layer.bits) >= SectionBlocks
         /\ (layer.words - 1) * (32 \div layer.bits) < SectionBlocks
         /\ layer.count \in 1..SectionBlocks
         /\ layer.count <= 2^layer.bits
         /\ \A b \in 0 .. SectionBlocks - 1 : DocumentedIndex(layer, b) < layer.count
         /\ layer.entries = [i \in 1 .. layer.count |-> TRUE]

DocumentedSection(section, y) ==
  /\ section.version = 8 \/ (section.version = 9 /\ section.index = y)
  /\ Len(section.layers) = section.storages /\ section.storages <= 16
  /\ ~section.trailing
  /\ \A i \in DOMAIN section.layers : DocumentedLayer(section.layers[i])

Documented(d, c) ==
  /\ [size |-> 4, int |-> 2] \in c.states
  /\ \E map \in c.maps :
       /\ map.size >= 2 * HeightEntries
       /\ \A i \in 1..HeightEntries :
            LET top == MinimumY(d) + map.heights[i] IN
            /\ top <= MaximumY(d)
            /\ top > MinimumY(d) =>
                 \E y \in DOMAIN c.sections :
                   /\ top - 1 \in 16 * y .. 16 * y + 15
                   /\ c.sections[y].storages > 0
  /\ \A y \in DOMAIN c.sections :
       /\ 16 * y >= MinimumY(d) /\ 16 * y < MaximumY(d)
       /\ DocumentedSection(c.sections[y], y)
=============================================================================
