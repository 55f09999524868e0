---------------------------- MODULE MCRenderPlan ----------------------------
(***************************************************************************)
(* Every square around every center near the origin, so that bounds fall   *)
(* on both sides of zero and on both sides of a column's edge, planned     *)
(* with columns of 3 blocks and a halo of 2; an odd column in the smallest *)
(* square.                                                                 *)
(***************************************************************************)
EXTENDS PlannedRender, MCColumns

MCCenters == {-4, -3, -1, 0, 1, 2, 5}
MCRadii == {1, 2, 3, 5, 6}
MCOddSquares == {<<0, 0, 1>>}
MCGenerated == [d \in Known |-> GeneratedColumn(d)]
MCOdd == [d \in Known |-> OddColumns(d)]
=============================================================================
