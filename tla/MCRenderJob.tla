---------------------------- MODULE MCRenderJob ----------------------------
(***************************************************************************)
(* A strip of the Overworld, and a Nether column at one of its positions.  *)
(* The render of 3 targets crosses a commit of a full batch of 2 and ends  *)
(* with a partial one; the render of 2 ends exactly at a full batch, so    *)
(* its final commit is skipped.                                            *)
(***************************************************************************)
EXTENDS RenderJob

Strip == 1..4
MCColumns == {<<"overworld", p>> : p \in Strip} \cup {<<"nether", 2>>}

(* Others load a halo column, a target and the column in the Nether.       *)
MCVisited == {<<"overworld", 1>>, <<"overworld", 3>>, <<"nether", 2>>}

MCFrontier ==
  [c \in MCColumns |->
     {d \in MCColumns : d[1] = c[1] /\ (d[2] = c[2] - 1 \/ d[2] = c[2] + 1)}]

Render(order, target, window) ==
  [dim |-> "overworld", order |-> order, target |-> target, window |-> window]

MCPlans == {Render(<<1, 2, 3, 4>>, {1, 2, 3}, 2),
            Render(<<3, 2, 4>>, {2, 3}, 3)}
=============================================================================
