---------------------------- MODULE PlanPromise -----------------------------
(***************************************************************************)
(* What a plan promises the job that carries it out, whoever computes it:  *)
(* [dim, order, target, window], the dimension, the positions in request   *)
(* order, the target positions, and how many may be awaited at once.       *)
(***************************************************************************)
EXTENDS Integers, Sequences, FiniteSets

(* Each position is requested once, the targets among them, and at least   *)
(* one column may be awaited.                                              *)
WellPlanned(p) ==
  /\ DOMAIN p = {"dim", "order", "target", "window"}
  /\ p.window \in Nat \ {0}
  /\ DOMAIN p.order = 1..Len(p.order)
  /\ Len(p.order) \in Nat
  /\ \A i, j \in 1..Len(p.order) : p.order[i] = p.order[j] => i = j
  /\ p.target # {}
  /\ IsFiniteSet(p.target)
  /\ p.target \subseteq {p.order[i] : i \in 1..Len(p.order)}

(* The halo columns that are requested before the last target.             *)
HaloAhead(plan) ==
  {p \in {plan.order[i] : i \in 1..Len(plan.order)} :
     /\ p \notin plan.target
     /\ \E i, j \in 1..Len(plan.order) :
          i < j /\ plan.order[i] = p /\ plan.order[j] \in plan.target}

(* The window takes the whole plan, or more than its halo.                 *)
WindowOutgrows(plan) ==
  \/ plan.window = Len(plan.order)
  \/ Cardinality(HaloAhead(plan)) + 1 < plan.window
=============================================================================
