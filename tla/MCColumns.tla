----------------------------- MODULE MCColumns ------------------------------
(***************************************************************************)
(* The dimensions and the columns that the inspector is tried on.          *)
(***************************************************************************)
EXTENDS InspectorPromise, TLC

(* The last is a dimension of another plugin, which resolve refuses.       *)
Dimensions ==
  {[vtable |-> "overworld", name |-> "17OverworldDimension", id |-> 0],
   [vtable |-> "other", name |-> "15NetherDimension", id |-> 1],
   [vtable |-> "other", name |-> "15TheEndDimension", id |-> 2],
   [vtable |-> "other", name |-> "13MoonDimension", id |-> 3]}
Known == {d \in Dimensions : KnownDimension(d)}

-----------------------------------------------------------------------------
(* Layers of every width, their palettes full or of one block; an odd      *)
(* index within the palette, at its end, or beyond, at the first block,    *)
(* at the last, and in the padding after it.                               *)
Layer(bits, count, odd, value) ==
  [runtime |-> FALSE, bits |-> bits, words |-> PackedWords(bits), odd |-> odd,
   value |-> value, count |-> count,
   entries |-> [i \in 1 .. (IF bits = 0 THEN 1 ELSE count) |-> TRUE]]

Plain == Layer(0, 1, <<0, 0>>, 0)

Fields(bits) ==
  LET last == SectionBlocks - 1
      perWord == PerWord(bits)
  IN  {<<0, 0>>, <<last \div perWord, last % perWord>>,
       <<last \div perWord, perWord - 1>>}

Layers ==
  {Plain, [Plain EXCEPT !.runtime = TRUE], [Plain EXCEPT !.entries = <<FALSE>>],
   [Plain EXCEPT !.entries = <<>>]}
    \cup UNION {{Layer(bits, count, f, value) :
                   count \in {0, 1, 2, 3, SectionBlocks, SectionBlocks + 1},
                   f \in Fields(bits), value \in 0..2} :
                  bits \in {1, 3, 5, 7, 16}}
    \cup {[Layer(4, 2, <<0, 0>>, 1) EXCEPT !.words = @ - 1, !.entries = <<>>],
          [Layer(4, 2, <<0, 0>>, 1) EXCEPT !.entries = <<TRUE>>],
          [Layer(4, 2, <<0, 0>>, 1) EXCEPT !.entries = <<TRUE, FALSE>>]}

Section(layers) ==
  [version |-> 8, index |-> 0, storages |-> Len(layers), layers |-> layers,
   trailing |-> FALSE]

SectionValues(y) ==
  {Section(<<l>>) : l \in Layers}
    \cup {Section(<<Plain, l>>) : l \in {m \in Layers : m.bits = 3}}
    \cup {[Section(s) EXCEPT !.version = v, !.index = i] :
            s \in {<<>>, <<Plain>>}, v \in {7, 8, 9, 10}, i \in {y, y + 1}}
    \cup {[Section(<<Plain>>) EXCEPT !.storages = n] : n \in 0..2}
    \cup {[Section(s) EXCEPT !.trailing = TRUE] : s \in {<<>>, <<Plain>>}}
    \cup {Section([i \in 1..n |-> Plain]) : n \in {16, 17}}

-----------------------------------------------------------------------------
(* What generation leaves: a height map, followed by other data, and the   *)
(* sections it indicates.                                                  *)
Top(d) == (MaximumY(d) \div 16) - 1
Bottom(d) == MinimumY(d) \div 16
HeightsOf(d) == {0, 1, 16, 17, MaximumY(d) - MinimumY(d), MaximumY(d) - MinimumY(d) + 1}

Map(size, low, high) ==
  [size |-> size,
   heights |-> [i \in 1 .. size \div 2 |->
                  IF i = 1 THEN high ELSE IF i <= HeightEntries THEN low ELSE 500]]

FullMap(low, high) == Map(2 * HeightEntries, low, high)

GeneratedColumn(d) ==
  [states |-> {}, maps |-> {FullMap(1, MaximumY(d) - MinimumY(d))},
   sections |-> [y \in {Bottom(d), Top(d)} |-> Section(<<Plain>>)]]

(* A column that a crash, another program or a fault has left so: one of   *)
(* state and map, heights and sections, or a section's bytes is arbitrary. *)
OddColumns(d) ==
  {[GeneratedColumn(d) EXCEPT !.states = s, !.maps = m] :
     s \in {{}} \cup {{[size |-> n, int |-> v]} : n \in {3, 4, 5}, v \in {1, 2, 3}},
     m \in {{}} \cup {{Map(n, low, 1)} : n \in 2 * HeightEntries - 2 .. 2 * HeightEntries + 2,
                                        low \in {0, MaximumY(d) - MinimumY(d) + 1}}}
  \cup
  {[states |-> {[size |-> 4, int |-> 2]}, maps |-> {FullMap(low, high)},
    sections |-> [y \in ys |-> Section(<<Plain>>)]] :
     low \in HeightsOf(d), high \in HeightsOf(d),
     ys \in SUBSET {Bottom(d) - 1, Bottom(d), Bottom(d) + 1, Top(d), Top(d) + 1}}
  \cup
  UNION {{[GeneratedColumn(d) EXCEPT !.states = {[size |-> 4, int |-> 2]},
                               !.sections = (y :> v) @@ @] : v \in SectionValues(y)} :
           y \in {Bottom(d), Bottom(d) + 1}}
=============================================================================
