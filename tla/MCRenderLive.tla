---------------------------- MODULE MCRenderLive ----------------------------
(***************************************************************************)
(* Two targets between two halo columns.  The land beyond the halo, column *)
(* 0, is the frontier the halo itself waits for: only a visitor brings it  *)
(* in, so nothing guarantees that a halo column ever loads.  The window of *)
(* 3 outgrows the halo of 2.                                               *)
(***************************************************************************)
EXTENDS RenderJob

MCColumns == {<<"overworld", p>> : p \in 0..4} \cup {<<"nether", 2>>}
MCVisited == {<<"overworld", 0>>, <<"overworld", 2>>, <<"nether", 2>>}

MCFrontier ==
  [c \in MCColumns |->
     {d \in MCColumns :
        /\ c[1] = "overworld" /\ c[2] # 0 /\ d[1] = "overworld"
        /\ \/ d[2] \in {c[2] - 1, c[2] + 1}
           \/ c[2] = 4 /\ d[2] = 0}]

MCPlans == {[dim |-> "overworld", order |-> <<1, 2, 3, 4>>,
             target |-> {2, 3}, window |-> 3]}
=============================================================================
