---------------------------- MODULE MCRefillHang ----------------------------
(***************************************************************************)
(* A plan of RenderPlan with a window smaller than its halo: one target    *)
(* with a halo of one column on each side and a window of 3.  (With the    *)
(* real halo of 6 and window of 1536, so are squares of 61 to 64 columns:  *)
(* at least 1535 halo columns come before the last target.)                *)
(* The server is as helpful as it can be: no column waits for a frontier.  *)
(***************************************************************************)
EXTENDS RenderJob

Planner == INSTANCE RenderPlan WITH
  ChunkSize <- 16, Halo <- 1, MaxActive <- 3, TargetLimit <- 1,
  CoordinateSpan <- 65536

MCPlans == {Planner!PlanFor("overworld", 8, 8, 8)}
MCColumns == {<<"overworld", p>> : p \in (-1..1) \X (-1..1)}
MCVisited == {<<"overworld", <<0, 0>>>>}
MCFrontier == [c \in MCColumns |-> {}]
=============================================================================
