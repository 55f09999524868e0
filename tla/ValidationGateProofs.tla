------------------------ MODULE ValidationGateProofs ------------------------
(***************************************************************************)
(* The gates of ValidationGate, for every set of threads, every number of  *)
(* required comparisons and every error allowed.                           *)
(***************************************************************************)
EXTENDS ValidationGate, FiniteSetTheorems, TLAPS

USE DEF private

(* Calls ask a gate of their hook, only shuffle publishes verdicts, only   *)
(* the clock keeps a maximum, only sample and octaves claim comparisons,   *)
(* and only interpolation has a second stage.                              *)
WellPlaced ==
  /\ active => hook \in ClaimHooks
  /\ \A t \in Threads : pc[t] \in {"claim", "activate"} => hook \in ClaimHooks
  /\ \A t \in Threads : stage[t] = 1 => hook = "interpolation"
  /\ \A t \in Threads : gate[t] \in GatesOf(hook)
  /\ \A t \in Threads : pc[t] \in {"publish", "reload"} => hook = "shuffle"
  /\ \A t \in Threads : pc[t] \in {"load maximum", "raise maximum"} => hook = "clock"

(* What lets a gate open, or a call use the fast code, has been counted.   *)
Counted ==
  hook # "shuffle" =>
    /\ \A g \in Gates : state[g] > 0 => validated[g] >= state[g] * Required
    /\ active => validated[hook] >= Required
    /\ \A t \in Threads :
         /\ pc[t] = "fast" => validated[gate[t]] >= Stages(hook) * Required
         /\ pc[t] = "open" => validated[gate[t]] >= (stage[t] + 1) * Required
         /\ pc[t] = "activate" => validated[gate[t]] >= Required

(* Whoever has compared containment has prepared its tables.               *)
Prepared ==
  hook = "containment" =>
    /\ \A g \in Gates : state[g] > 0 => tables
    /\ \A t \in Threads :
         pc[t] \in {"fast", "count", "open", "mismatch", "close"} => tables

(* What a thread has observed of the maximum is still covered by it.       *)
ObservedLow == \A t \in Threads : pc[t] = "raise maximum" => observed[t] <= maximum

Closers == {t \in Threads : pc[t] = "close"}

(* Every comparison that was claimed is under way, or was counted as equal *)
(* or unequal; so a count of Required leaves no claim to anything else,    *)
(* and no decision open.                                                   *)
Comparing == {t \in Threads : pc[t] \in {"compare", "count", "mismatch"}}

Claimed ==
  hook \in ClaimHooks =>
    /\ validated[hook] + mismatches + Cardinality(Comparing) = claims
    /\ (active \/ state[hook] > 0) => validated[hook] = Required
    /\ \A t \in Threads :
         /\ pc[t] \in {"open", "activate", "fast"} => validated[hook] = Required
         /\ pc[t] = "close" => mismatches > 0
    /\ validated[hook] = Required =>
         state[hook] # 0 \/ \E t \in Threads : pc[t] = "open"
    /\ mismatches > 0 =>
         state[hook] = -1 \/ \E t \in Threads : pc[t] = "close"

(* A thread that will count its call at gate g if its outputs are equal:    *)
(* checked_area's second read takes -1 for 0, direct_constructor's 1.      *)
Underway == {"claim", "compare", "load maximum", "raise maximum", "count"}

ComesTo(t, g) ==
  /\ gate[t] = g
  /\ \/ pc[t] \in Underway
     \/ pc[t] = "read again" /\ hook = "construction" /\ state[g] # -1
     \/ pc[t] = "read again" /\ hook = "area" /\ state[g] = -1

Coming(g) == {t \in Threads : ComesTo(t, g)}
Early(g) == {t \in Threads : ComesTo(t, g) /\ stage[t] = 0}
Opening(g, s) == {t \in Threads : gate[t] = g /\ pc[t] = "open" /\ stage[t] = s}

(* A gate that still compares has counted fewer calls than it requires,    *)
(* but for those that are about to open it; once it is decided, whoever is *)
(* under way may still count.  A closed gate of checked_area has let every *)
(* thread count twice, and so has an interpolation cache.                  *)
BoundedAt(g) ==
  /\ state[g] = 0 => validated[g] < Required + Cardinality(Opening(g, 0))
  /\ state[g] = 1 /\ g = "interpolation" =>
       validated[g] + Cardinality(Early(g))
         < 2 * Required + Cardinality(Threads) + Cardinality(Opening(g, 1))
  /\ state[g] > 0 /\ g # "interpolation" =>
       validated[g] + Cardinality(Coming(g)) < Required + Cardinality(Threads)
  /\ state[g] = -1 \/ (state[g] = 2 /\ g = "interpolation") =>
       validated[g] + Cardinality(Coming(g))
         < Stages(g) * Required + 2 * Cardinality(Threads)

Bounded ==
  /\ \A t \in Threads : stage[t] = 1 => state[gate[t]] # 0
  /\ \A g \in Gates : state[g] <= Stages(g)
  /\ \A g \in Gates : BoundedAt(g)

GateInv ==
  /\ Types
  /\ WellPlaced
  /\ Counted
  /\ Prepared
  /\ ObservedLow
  /\ MaximumCovers
  /\ MismatchCloses
  /\ Claimed
  /\ Bounded

LEMMA GatesOfHook ==
  ASSUME NEW h \in Hooks
  PROVE  GatesOf(h) # {} /\ GatesOf(h) \subseteq Gates
<1>. QED
  BY DEF Hooks, GatesOf, Gates

Step(t) == Call(t) \/ ReadStep(t) \/ CompareStep(t) \/ DecideStep(t)

LEMMA GateInit == Init => GateInv
<1>. SUFFICES ASSUME Init PROVE GateInv
  OBVIOUS
<1>1. hook \in Hooks /\ GatesOf(hook) \subseteq Gates
  BY GatesOfHook DEF Init
<1>2. Types
  <2>1. gate \in [Threads -> Gates]
    BY <1>1 DEF Init
  <2>2. 0 \in Errors
    BY GateAssumption DEF Errors
  <2>3. 0 \in 0 .. Required
    BY GateAssumption
  <2>4. /\ state \in [Gates -> {-1, 0, 1, 2}] /\ validated \in [Gates -> Nat]
        /\ observed \in [Threads -> Errors] /\ error \in [Threads -> Errors]
        /\ stage \in [Threads -> {0, 1}] /\ verdict \in [Threads -> {-1, 1}]
    BY <2>2 DEF Init
  <2>5. pc \in [Threads -> Places]
    BY DEF Init, Places
  <2>. QED
    BY <1>1, <2>1, <2>2, <2>3, <2>4, <2>5 DEF Init, Types
<1>3. WellPlaced /\ Counted /\ Prepared
  BY <1>1 DEF Init, WellPlaced, Counted, Prepared
<1>4. MaximumCovers /\ ObservedLow
  BY DEF Init, MaximumCovers, ObservedLow
<1>5. MismatchCloses
  <2>1. Closers = {}
    BY DEF Init, Closers
  <2>2. Cardinality(Closers) = 0
    BY <2>1, FS_EmptySet
  <2>. QED
    BY <2>2 DEF Init, MismatchCloses, Closers
<1>6. Claimed
  <2>1. hook \in ClaimHooks => hook \in Gates
    BY <1>1 DEF GatesOf, ClaimHooks
  <2>2. Comparing = {}
    BY DEF Init, Comparing
  <2>3. Cardinality(Comparing) = 0
    BY <2>2, FS_EmptySet
  <2>4. Required # 0
    BY GateAssumption
  <2>. QED
    BY <2>1, <2>3, <2>4 DEF Init, Claimed
<1>7. Bounded
  <2>1. ASSUME NEW g \in Gates
        PROVE  validated[g] < Required + Cardinality(Opening(g, 0))
    <3>1. Opening(g, 0) = {} /\ validated[g] = 0
      BY DEF Init, Opening
    <3>2. Cardinality(Opening(g, 0)) = 0
      BY <3>1, FS_EmptySet
    <3>. QED
      BY <3>1, <3>2, GateAssumption
  <2>2. \A g \in Gates : state[g] = 0 /\ Stages(g) \in {1, 2}
    BY DEF Init, Stages
  <2>3. \A t \in Threads : stage[t] = 0
    BY DEF Init
  <2>. QED
    BY <2>1, <2>2, <2>3 DEF Bounded, BoundedAt
<1>. QED
  BY <1>2, <1>3, <1>4, <1>5, <1>6, <1>7 DEF GateInv

-----------------------------------------------------------------------------
(* Where a thread is after a step that only reads.                         *)
ReadsSomewhere(t) == \E here, there \in Places : Reads(t, here, there)

LEMMA ReadStepsRead ==
  ASSUME Types, NEW t \in Threads
  PROVE  /\ ReadStep(t) => \/ CandidateFails(t)
                           \/ Claim(t)
                           \/ ReadInterpolation(t)
                           \/ ReadsSomewhere(t)
         /\ PrepareThrows(t) => ReadsSomewhere(t)
         /\ Compare(t) => ReadsSomewhere(t)
         /\ MaximumHigher(t) => ReadsSomewhere(t)
         /\ Reload(t) => ReadsSomewhere(t)
<1>. USE DEF ReadsSomewhere, Places
<1>1. Asked(t) \in {"fast", "idle", "compare"}
  BY DEF Asked
<1>2. ReadOnce(t) => ReadsSomewhere(t)
  BY <1>1 DEF ReadOnce
<1>3. /\ ReadShuffle(t) => ReadsSomewhere(t)
      /\ ReadClaimed(t) => ReadsSomewhere(t)
  BY <1>1 DEF ReadShuffle, ReadClaimed
<1>4. /\ ReadArea(t) => ReadsSomewhere(t)
      /\ ReadAreaAgain(t) => ReadsSomewhere(t)
      /\ ReadConstruction(t) => ReadsSomewhere(t)
      /\ ReadConstructionAgain(t) => ReadsSomewhere(t)
      /\ Fast(t) => ReadsSomewhere(t)
  BY DEF ReadArea, ReadAreaAgain, ReadConstruction, ReadConstructionAgain, Fast
<1>5. ReadStep(t) => \/ CandidateFails(t) \/ Claim(t) \/ ReadInterpolation(t)
                     \/ ReadsSomewhere(t)
  BY <1>2, <1>3, <1>4 DEF ReadStep
<1>6. /\ PrepareThrows(t) => ReadsSomewhere(t)
      /\ Compare(t) => ReadsSomewhere(t)
  BY DEF PrepareThrows, Compare
<1>7. MaximumHigher(t) => ReadsSomewhere(t)
  BY DEF MaximumHigher, Judged
<1>8. Reload(t) => ReadsSomewhere(t)
  BY DEF Reload
<1>. QED
  BY <1>5, <1>6, <1>7, <1>8

LEMMA TypesStep ==
  ASSUME Types, NEW t \in Threads, Step(t)
  PROVE  Types'
<1>. USE DEF Types, Goto, shared, local
<1>1. CASE ReadsSomewhere(t)
  BY <1>1 DEF ReadsSomewhere, Reads
<1>2. CASE Call(t)
  <2>1. GatesOf(hook) \subseteq Gates
    BY GatesOfHook
  <2>2. gate' \in [Threads -> Gates] /\ stage' \in [Threads -> {0, 1}]
    BY <1>2, <2>1 DEF Call
  <2>3. pc' \in [Threads -> Places]
    BY <1>2 DEF Call, Places
  <2>4. UNCHANGED <<hook, state, validated, mismatches, maximum, tables, claims,
                    active, error, observed, verdict>>
    BY <1>2 DEF Call
  <2>. QED
    BY <2>2, <2>3, <2>4
<1>3. CASE CandidateFails(t)
  BY <1>3 DEF CandidateFails, Places
<1>4. CASE PrepareTables(t)
  BY <1>4 DEF PrepareTables
<1>5. CASE CompareClocks(t)
  BY <1>5 DEF CompareClocks, Places
<1>6. CASE LoadMaximum(t)
  BY <1>6 DEF LoadMaximum, Places
<1>7. CASE RaiseMaximum(t)
  BY <1>7 DEF RaiseMaximum, Judged, Places
<1>8. CASE RaiseAgain(t)
  BY <1>8 DEF RaiseAgain
<1>9. CASE CompareShuffles(t)
  BY <1>9 DEF CompareShuffles, Places
<1>10. CASE Count(t)
  <2>1. validated[gate[t]] + 1 \in Nat
    OBVIOUS
  <2>2. validated' \in [Gates -> Nat] /\ pc' \in [Threads -> Places]
    BY <1>10, <2>1 DEF Count, Places
  <2>. QED
    BY <1>10, <2>2 DEF Count
<1>11. CASE Open(t)
  <2>1. stage[t] + 1 \in {-1, 0, 1, 2}
    OBVIOUS
  <2>2. state' \in [Gates -> {-1, 0, 1, 2}]
    BY <1>11, <2>1 DEF Open
  <2>3. pc' \in [Threads -> Places]
    BY <1>11 DEF Open, Places
  <2>4. UNCHANGED <<hook, validated, mismatches, maximum, tables, claims, active,
                    gate, error, observed, verdict, stage>>
    BY <1>11 DEF Open
  <2>. QED
    BY <2>2, <2>3, <2>4
<1>14. CASE Close(t)
  BY <1>14 DEF Close, Places
<1>15. CASE Activate(t)
  BY <1>15 DEF Activate, Places
<1>16. CASE Claim(t)
  <2>1. (IF claims < Required THEN claims + 1 ELSE claims) \in 0 .. Required
    BY GateAssumption
  <2>2. claims' \in 0 .. Required /\ pc' \in [Threads -> Places]
    BY <1>16, <2>1 DEF Claim, Places
  <2>. QED
    BY <1>16, <2>2 DEF Claim
<1>17. CASE ReadInterpolation(t)
  <2>1. Asked(t) \in Places /\ "compare" \in Places
    BY DEF Asked, Places
  <2>2. stage' \in [Threads -> {0, 1}]
    BY <1>17 DEF ReadInterpolation
  <2>3. pc' \in [Threads -> Places]
    BY <1>17, <2>1 DEF ReadInterpolation
  <2>4. UNCHANGED <<hook, state, validated, mismatches, maximum, tables, claims,
                    active, gate, error, observed, verdict>>
    BY <1>17 DEF ReadInterpolation
  <2>. QED
    BY <2>2, <2>3, <2>4
<1>12. CASE Publish(t)
  BY <1>12 DEF Publish, Places
<1>13. CASE CountMismatch(t)
  <2>1. mismatches + 1 \in Nat
    OBVIOUS
  <2>. QED
    BY <1>13, <2>1 DEF CountMismatch, Places
<1>. QED
  BY <1>1, <1>2, <1>3, <1>4, <1>5, <1>6, <1>7, <1>8, <1>9, <1>10, <1>11, <1>12, <1>13,
     <1>14, <1>15, <1>16, <1>17, ReadStepsRead DEF Step, CompareStep, DecideStep

(* What a step does to the gates, to the counts and to the other threads.  *)
Effect(t) ==
  /\ hook' = hook
  /\ \A g \in Gates : validated'[g] >= validated[g]
  /\ \A u \in Threads :
       u # t => pc'[u] = pc[u] /\ gate'[u] = gate[u] /\ stage'[u] = stage[u]
  /\ \A g \in Gates : state'[g] # state[g] =>
       \/ state'[g] = -1 /\ pc[t] # "publish"
       \/ pc[t] = "open" /\ g = gate[t] /\ state[g] = stage[t] /\ state'[g] = stage[t] + 1
       \/ pc[t] = "publish" /\ g = gate[t] /\ state[g] = 0 /\ state'[g] \in {-1, 1}

LEMMA QuietEffect ==
  ASSUME Types, NEW t \in Threads, UNCHANGED <<hook, state, validated>>,
         \A u \in Threads :
           u # t => pc'[u] = pc[u] /\ gate'[u] = gate[u] /\ stage'[u] = stage[u]
  PROVE  Effect(t)
<1>1. \A g \in Gates : validated'[g] >= validated[g]
  BY DEF Types
<1>. QED
  BY <1>1 DEF Effect

LEMMA StepEffect ==
  ASSUME Types, NEW t \in Threads, Step(t)
  PROVE  Effect(t)
<1>1. CASE ReadsSomewhere(t)
  BY <1>1, QuietEffect DEF ReadsSomewhere, Reads, Types, Goto, shared
<1>2. CASE Call(t)
  BY <1>2, QuietEffect DEF Call, Types, Goto, shared
<1>3. CASE CandidateFails(t)
  BY <1>3 DEF CandidateFails, Effect, Types, Goto
<1>4. CASE PrepareTables(t)
  BY <1>4, QuietEffect DEF PrepareTables, local
<1>5. CASE CompareClocks(t)
  BY <1>5, QuietEffect DEF CompareClocks, Types, Goto, shared
<1>6. CASE LoadMaximum(t)
  BY <1>6, QuietEffect DEF LoadMaximum, Types, Goto, shared
<1>7. CASE RaiseMaximum(t)
  BY <1>7, QuietEffect DEF RaiseMaximum, Types, Goto
<1>8. CASE RaiseAgain(t)
  BY <1>8, QuietEffect DEF RaiseAgain, shared
<1>9. CASE CompareShuffles(t)
  BY <1>9, QuietEffect DEF CompareShuffles, Types, Goto, shared
<1>10. CASE Count(t)
  <2>1. \A g \in Gates : validated'[g] >= validated[g]
    BY <1>10 DEF Count, Types
  <2>. QED
    BY <1>10, <2>1 DEF Count, Effect, Types, Goto
<1>11. CASE Open(t)
  BY <1>11 DEF Open, Effect, Types, Goto
<1>12. CASE Close(t)
  BY <1>12 DEF Close, Effect, Types, Goto
<1>13. CASE Publish(t)
  BY <1>13 DEF Publish, Effect, Types, Goto
<1>14. CASE CountMismatch(t)
  BY <1>14, QuietEffect DEF CountMismatch, Types, Goto
<1>15. CASE Activate(t)
  BY <1>15, QuietEffect DEF Activate, Types, Goto
<1>16. CASE Claim(t)
  BY <1>16, QuietEffect DEF Claim, Types, Goto
<1>17. CASE ReadInterpolation(t)
  BY <1>17, QuietEffect DEF ReadInterpolation, Types, Goto, shared
<1>. QED
  BY <1>1, <1>2, <1>3, <1>4, <1>5, <1>6, <1>7, <1>8, <1>9, <1>10, <1>11, <1>12, <1>13, <1>14,
     <1>15, <1>16, <1>17, ReadStepsRead DEF Step, CompareStep, DecideStep

-----------------------------------------------------------------------------
(* Where a step may take its thread.                                       *)
LEMMA WellPlacedStep ==
  ASSUME Types, WellPlaced, NEW t \in Threads, Step(t)
  PROVE  WellPlaced'
<1>1. /\ hook' = hook
      /\ \A u \in Threads :
           u # t => pc'[u] = pc[u] /\ gate'[u] = gate[u] /\ stage'[u] = stage[u]
  BY StepEffect DEF Effect
<1>2. gate'[t] \in GatesOf(hook)
  <2>1. CASE Call(t)
    BY <2>1 DEF Call, Types
  <2>2. CASE ~Call(t)
    <3>1. gate' = gate
      BY <2>2, ReadStepsRead DEF Step, CompareStep, DecideStep, ReadsSomewhere, Reads,
         CandidateFails, PrepareTables, CompareClocks, LoadMaximum, RaiseMaximum,
         RaiseAgain, CompareShuffles, Count, Open, Close, CountMismatch, Publish, local,
         Claim, ReadInterpolation, Activate
    <3>. QED
      BY <3>1 DEF WellPlaced
  <2>. QED
    BY <2>1, <2>2
<1>4. stage'[t] = 1 => hook = "interpolation"
  <2>1. CASE Call(t)
    BY <2>1 DEF Call, Types
  <2>2. CASE ReadInterpolation(t)
    BY <2>2 DEF ReadInterpolation
  <2>3. CASE ~Call(t) /\ ~ReadInterpolation(t)
    <3>1. stage' = stage
      BY <2>3, ReadStepsRead DEF Step, CompareStep, DecideStep, ReadsSomewhere, Reads,
         CandidateFails, PrepareTables, CompareClocks, LoadMaximum, RaiseMaximum,
         RaiseAgain, CompareShuffles, Count, Open, Close, CountMismatch, Publish, local,
         Claim, Activate
    <3>. QED
      BY <3>1 DEF WellPlaced
  <2>. QED
    BY <2>1, <2>2, <2>3
<1>5. active' => hook \in ClaimHooks
  <2>1. CASE Activate(t)
    BY <2>1 DEF Activate, WellPlaced
  <2>2. CASE ~Activate(t)
    <3>1. active' = active
      BY <2>2, ReadStepsRead DEF Step, CompareStep, DecideStep, ReadsSomewhere, Reads,
         CandidateFails, PrepareTables, CompareClocks, LoadMaximum, RaiseMaximum,
         RaiseAgain, CompareShuffles, Count, Open, Close, CountMismatch, Publish, local,
         Claim, Call, ReadInterpolation, shared
    <3>. QED
      BY <3>1 DEF WellPlaced
  <2>. QED
    BY <2>1, <2>2
<1>3. /\ pc'[t] \in {"publish", "reload"} => hook = "shuffle"
      /\ pc'[t] \in {"load maximum", "raise maximum"} => hook = "clock"
      /\ pc'[t] \in {"claim", "activate"} => hook \in ClaimHooks
  <2>. USE DEF Types, Goto, Reads
  <2>1. CASE ReadStep(t)
    BY <2>1 DEF ReadStep, ReadOnce, ReadArea, ReadAreaAgain, ReadConstruction,
                ReadConstructionAgain, ReadShuffle, Fast, CandidateFails, Asked,
                ReadClaimed, Claim, ReadInterpolation
  <2>2. CASE CompareStep(t)
    BY <2>2 DEF CompareStep, PrepareTables, PrepareThrows, Compare, CompareClocks,
                LoadMaximum, RaiseMaximum, RaiseAgain, MaximumHigher, Judged,
                CompareShuffles, local, WellPlaced
  <2>3. CASE DecideStep(t)
    BY <2>3 DEF DecideStep, Count, Open, CountMismatch, Close, Publish, Reload,
                Activate, WellPlaced
  <2>4. CASE Call(t)
    BY <2>4 DEF Call
  <2>. QED
    BY <2>1, <2>2, <2>3, <2>4 DEF Step
<1>. QED
  BY <1>1, <1>2, <1>3, <1>4, <1>5 DEF WellPlaced

(* A thread gets to the fast code through an open gate or an activated     *)
(* patch, to opening a gate through its count, and to activating a patch   *)
(* through opening its gate.                                               *)
LEMMA Entrance ==
  ASSUME Types, WellPlaced, NEW t \in Threads, Step(t)
  PROVE  /\ pc'[t] = "fast" => \/ state[gate[t]] >= Stages(hook) /\ gate' = gate
                               \/ active
         /\ pc'[t] = "open" => /\ pc[t] = "count" /\ Count(t)
                               /\ validated'[gate'[t]] >= (stage'[t] + 1) * Required
         /\ pc'[t] = "activate" => pc[t] = "open" /\ gate' = gate
<1>. USE DEF Types, Goto, Reads, State
<1>1. CASE Call(t)
  BY <1>1 DEF Call
<1>2. CASE ReadStep(t)
  <2>1. CASE ReadInterpolation(t)
    BY <2>1 DEF ReadInterpolation, Asked, Stages
  <2>2. CASE ReadOnce(t) \/ ReadClaimed(t) \/ ReadShuffle(t)
    <3>1. pc'[t] = "fast" => state[gate[t]] > 0
      BY <2>2 DEF ReadOnce, ReadClaimed, ReadShuffle, Asked
    <3>2. pc'[t] \notin {"open", "activate"} /\ gate' = gate
      BY <2>2 DEF ReadOnce, ReadClaimed, ReadShuffle, Asked
    <3>3. Stages(hook) = 1
      BY <2>2 DEF ReadOnce, ReadClaimed, ReadShuffle, Stages, ReadOnceHooks, ClaimHooks
    <3>4. state[gate[t]] \in {-1, 0, 1, 2}
      OBVIOUS
    <3>. QED
      BY <3>1, <3>2, <3>3, <3>4
  <2>3. CASE ReadArea(t) \/ ReadAreaAgain(t) \/ ReadConstruction(t)
             \/ ReadConstructionAgain(t) \/ Fast(t) \/ CandidateFails(t) \/ Claim(t)
    <3>1. pc'[t] = "fast" => state[gate[t]] = 1 /\ Stages(hook) = 1
      BY <2>3 DEF ReadArea, ReadAreaAgain, ReadConstruction, ReadConstructionAgain,
                  Fast, CandidateFails, Claim, Stages
    <3>2. pc'[t] \notin {"open", "activate"} /\ gate' = gate
      BY <2>3 DEF ReadArea, ReadAreaAgain, ReadConstruction, ReadConstructionAgain,
                  Fast, CandidateFails, Claim
    <3>. QED
      BY <3>1, <3>2
  <2>. QED
    BY <1>2, <2>1, <2>2, <2>3 DEF ReadStep
<1>3. CASE CompareStep(t)
  BY <1>3 DEF CompareStep, PrepareTables, PrepareThrows, Compare, CompareClocks,
              LoadMaximum, RaiseMaximum, RaiseAgain, MaximumHigher, Judged,
              CompareShuffles, local
<1>4. CASE Count(t)
  <2>1. pc[t] = "count" /\ pc'[t] \in {"open", "idle"} /\ stage' = stage /\ gate' = gate
    BY <1>4 DEF Count
  <2>2. pc'[t] = "open" => Enough(t, validated'[gate[t]])
    BY <1>4 DEF Count
  <2>3. hook \in ClaimHooks => stage[t] = 0 /\ (0 + 1) * Required = Required
    <3>1. hook \in ClaimHooks => stage[t] # 1
      BY DEF WellPlaced, ClaimHooks
    <3>2. stage[t] \in {0, 1}
      OBVIOUS
    <3>. QED
      BY <3>1, <3>2, GateAssumption
  <2>4. validated'[gate[t]] \in Nat /\ Required \in Nat
    <3>1. Types'
      BY TypesStep
    <3>. QED
      BY <3>1, GateAssumption
  <2>5. pc'[t] = "open" => validated'[gate[t]] >= (stage[t] + 1) * Required
    BY <2>2, <2>3, <2>4 DEF Enough
  <2>. QED
    BY <1>4, <2>1, <2>5
<1>5. CASE DecideStep(t) /\ ~Count(t)
  <2>1. CASE Reload(t)
    <3>1. hook = "shuffle" /\ Stages(hook) = 1
      BY <2>1 DEF Reload, WellPlaced, Stages
    <3>. QED
      BY <2>1, <3>1 DEF Reload
  <2>2. CASE ~Reload(t)
    BY <1>5, <2>2 DEF DecideStep, Open, CountMismatch, Close, Publish, Activate
  <2>. QED
    BY <2>1, <2>2
<1>. QED
  BY <1>1, <1>2, <1>3, <1>4, <1>5 DEF Step

(* What each stage of trust asks for, without products.                    *)
LEMMA Quotas ==
  /\ Required \in Nat
  /\ 1 * Required = Required
  /\ 2 * Required >= Required
  /\ \A h : Stages(h) \in {1, 2}
BY GateAssumption DEF Stages

LEMMA CountedStep ==
  ASSUME Types, WellPlaced, Counted, NEW t \in Threads, Step(t)
  PROVE  Counted'
<1>1. SUFFICES ASSUME hook # "shuffle"
               PROVE  /\ \A g \in Gates :
                           state'[g] > 0 => validated'[g] >= state'[g] * Required
                      /\ active' => validated'[hook] >= Required
                      /\ \A u \in Threads :
                           /\ pc'[u] = "fast" =>
                                validated'[gate'[u]] >= Stages(hook) * Required
                           /\ pc'[u] = "open" =>
                                validated'[gate'[u]] >= (stage'[u] + 1) * Required
                           /\ pc'[u] = "activate" => validated'[gate'[u]] >= Required
  BY StepEffect DEF Effect, Counted
<1>2. Types' /\ Effect(t) /\ WellPlaced'
  BY TypesStep, StepEffect, WellPlacedStep
<1>3. ASSUME NEW g \in Gates, NEW n \in Int, validated[g] >= n PROVE validated'[g] >= n
  <2>1. validated'[g] >= validated[g] /\ validated[g] \in Nat /\ validated'[g] \in Nat
    BY <1>2 DEF Effect, Types
  <2>. QED
    BY <1>3, <2>1
<1>a. /\ Required \in Int /\ 1 * Required = Required /\ 2 * Required \in Int
      /\ 2 * Required >= Required
      /\ \A g \in Gates : state[g] > 0 => state[g] \in {1, 2}
      /\ \A u \in Threads : stage[u] + 1 \in {1, 2} /\ gate[u] \in Gates
  BY Quotas DEF Types
<1>4. ASSUME NEW g \in Gates, state'[g] > 0
      PROVE  validated'[g] >= state'[g] * Required
  <2>0. pc[t] # "publish"
    BY <1>1 DEF WellPlaced
  <2>1. CASE state'[g] = state[g]
    <3>1. state[g] \in {1, 2} /\ validated[g] >= state[g] * Required
      BY <1>1, <1>4, <1>a, <2>1 DEF Counted
    <3>2. state[g] * Required \in Int
      BY <1>a, <3>1
    <3>. QED
      BY <1>3, <2>1, <3>1, <3>2
  <2>2. CASE state'[g] # state[g]
    <3>1. pc[t] = "open" /\ g = gate[t] /\ state'[g] = stage[t] + 1
      BY <1>2, <1>4, <2>0, <2>2 DEF Effect
    <3>2. (stage[t] + 1) * Required \in Int
      BY <1>a
    <3>3. validated[g] >= (stage[t] + 1) * Required
      BY <1>1, <3>1 DEF Counted
    <3>. QED
      BY <1>3, <3>1, <3>2, <3>3
  <2>. QED
    BY <2>1, <2>2
<1>b. ASSUME NEW u \in Threads, pc[u] = "open" PROVE validated[gate[u]] >= Required
  <2>1. validated[gate[u]] >= (stage[u] + 1) * Required /\ stage[u] + 1 \in {1, 2}
    BY <1>1, <1>a, <1>b DEF Counted
  <2>2. validated[gate[u]] \in Nat
    BY <1>a DEF Types
  <2>. QED
    BY <1>a, <2>1, <2>2
<1>c. hook \in ClaimHooks =>
        /\ \A u \in Threads : gate[u] = hook /\ gate'[u] = hook
        /\ hook \in Gates
        /\ Stages(hook) = 1
  <2>1. hook' = hook
    BY <1>2 DEF Effect
  <2>2. hook \in ClaimHooks => GatesOf(hook) = {hook}
    BY DEF ClaimHooks, GatesOf
  <2>3. hook \in ClaimHooks => hook \in Gates /\ Stages(hook) = 1
    BY <2>2, GatesOfHook DEF Types, Stages, ClaimHooks
  <2>. QED
    BY <1>2, <2>1, <2>2, <2>3 DEF WellPlaced
<1>5. active' => validated'[hook] >= Required
  <2>1. CASE active
    BY <1>1, <1>3, <1>a, <1>c, <2>1 DEF Counted, WellPlaced
  <2>2. CASE ~active /\ active'
    <3>1. pc[t] = "activate"
      BY <2>2, ReadStepsRead DEF Step, CompareStep, DecideStep, ReadsSomewhere, Reads,
         CandidateFails, PrepareTables, CompareClocks, LoadMaximum, RaiseMaximum,
         RaiseAgain, CompareShuffles, Count, Open, Close, CountMismatch, Publish, local,
         Claim, Call, ReadInterpolation, shared, Activate
    <3>2. hook \in ClaimHooks /\ validated[gate[t]] >= Required
      BY <1>1, <3>1 DEF Counted, WellPlaced
    <3>. QED
      BY <1>3, <1>a, <1>c, <3>2
  <2>. QED
    BY <2>1, <2>2
<1>6. ASSUME NEW u \in Threads, u # t
      PROVE  /\ pc'[u] = "fast" => validated'[gate'[u]] >= Stages(hook) * Required
             /\ pc'[u] = "open" => validated'[gate'[u]] >= (stage'[u] + 1) * Required
             /\ pc'[u] = "activate" => validated'[gate'[u]] >= Required
  <2>1. pc'[u] = pc[u] /\ gate'[u] = gate[u] /\ stage'[u] = stage[u] /\ gate[u] \in Gates
    BY <1>2, <1>6, <1>a DEF Effect
  <2>2. Stages(hook) * Required \in Int /\ (stage[u] + 1) * Required \in Int
    BY <1>a, Quotas
  <2>. QED
    BY <1>1, <1>3, <1>a, <2>1, <2>2 DEF Counted
<1>7. pc'[t] = "fast" => validated'[gate'[t]] >= Stages(hook) * Required
  <2>1. SUFFICES ASSUME pc'[t] = "fast"
                 PROVE  validated'[gate'[t]] >= Stages(hook) * Required
    OBVIOUS
  <2>2. CASE active
    <3>1. hook \in ClaimHooks /\ validated[hook] >= Required
      BY <1>1, <2>2 DEF Counted, WellPlaced
    <3>2. validated'[hook] >= Required
      BY <1>3, <1>a, <1>c, <3>1
    <3>. QED
      BY <1>a, <1>c, <3>1, <3>2
  <2>3. CASE ~active
    <3>1. state[gate[t]] >= Stages(hook) /\ gate' = gate
      BY <2>1, <2>3, Entrance
    <3>2. state[gate[t]] \in {1, 2} /\ Stages(hook) \in {1, 2}
      BY <1>a, <3>1, Quotas DEF Types
    <3>3. validated[gate[t]] >= state[gate[t]] * Required
      BY <1>1, <1>a, <3>2 DEF Counted
    <3>4. validated[gate[t]] \in Nat
      BY <1>a DEF Types
    <3>5. validated[gate[t]] >= Stages(hook) * Required /\ Stages(hook) * Required \in Int
      BY <1>a, <3>1, <3>2, <3>3, <3>4
    <3>. QED
      BY <1>3, <1>a, <3>1, <3>5
  <2>. QED
    BY <2>2, <2>3
<1>8. pc'[t] = "open" => validated'[gate'[t]] >= (stage'[t] + 1) * Required
  BY Entrance
<1>9. pc'[t] = "activate" => validated'[gate'[t]] >= Required
  <2>1. SUFFICES ASSUME pc'[t] = "activate" PROVE validated'[gate'[t]] >= Required
    OBVIOUS
  <2>2. pc[t] = "open" /\ gate'[t] = gate[t]
    BY <2>1, Entrance
  <2>. QED
    BY <1>3, <1>a, <1>b, <2>2
<1>. QED
  BY <1>4, <1>5, <1>6, <1>7, <1>8, <1>9

LEMMA PreparedStep ==
  ASSUME Types, WellPlaced, Prepared, NEW t \in Threads, Step(t)
  PROVE  Prepared'
<1>. DEFINE Past == {"fast", "count", "open", "mismatch", "close"}
<1>1. SUFFICES ASSUME hook = "containment"
               PROVE  /\ \A g \in Gates : state'[g] > 0 => tables'
                      /\ \A u \in Threads : pc'[u] \in Past => tables'
  BY StepEffect DEF Effect, Prepared
<1>2. Effect(t) /\ gate[t] \in Gates
  BY StepEffect DEF Types
<1>3. tables => tables'
  BY ReadStepsRead DEF Step, CompareStep, DecideStep, ReadsSomewhere, Reads, Call,
     CandidateFails, PrepareTables, CompareClocks, LoadMaximum, RaiseMaximum,
     RaiseAgain, CompareShuffles, Count, Open, Close, CountMismatch, Publish, shared,
     Claim, ReadInterpolation, Activate
<1>4. ASSUME NEW g \in Gates, state'[g] > 0 PROVE tables'
  <2>0. pc[t] # "publish"
    BY <1>1 DEF WellPlaced
  <2>1. state'[g] = state[g] \/ pc[t] = "open"
    BY <1>2, <1>4, <2>0 DEF Effect
  <2>. QED
    BY <1>1, <1>3, <1>4, <2>1 DEF Prepared
<1>5. ASSUME pc'[t] \in Past, pc[t] \notin Past, pc'[t] # "fast" PROVE tables
  <2>. USE DEF Types, Goto, Reads, State
  <2>1. CASE Call(t)
    BY <1>5, <2>1 DEF Call
  <2>2. CASE ReadStep(t)
    BY <1>5, <2>2 DEF ReadStep, ReadOnce, ReadArea, ReadAreaAgain, ReadConstruction,
                ReadConstructionAgain, ReadShuffle, Fast, CandidateFails, Asked,
                ReadClaimed, Claim, ReadInterpolation
  <2>3. CASE CompareStep(t)
    BY <1>1, <1>5, <2>3 DEF CompareStep, PrepareTables, PrepareThrows, Compare,
                CompareClocks, LoadMaximum, RaiseMaximum, RaiseAgain, MaximumHigher,
                Judged, CompareShuffles, local, WellPlaced
  <2>4. CASE DecideStep(t)
    BY <1>5, <2>4 DEF DecideStep, Count, Open, CountMismatch, Close, Publish, Reload,
                Activate
  <2>. QED
    BY <2>1, <2>2, <2>3, <2>4 DEF Step
<1>6. ASSUME NEW u \in Threads, pc'[u] \in Past PROVE tables'
  <2>1. CASE pc[u] \in Past
    BY <1>1, <1>3, <2>1 DEF Prepared
  <2>2. CASE pc[u] \notin Past /\ pc'[u] # "fast"
    <3>1. u = t
      BY <1>2, <1>6, <2>2 DEF Effect
    <3>. QED
      BY <1>3, <1>5, <1>6, <2>2, <3>1
  <2>3. CASE pc[u] \notin Past /\ pc'[u] = "fast"
    <3>1. u = t
      BY <1>2, <1>6, <2>3 DEF Effect
    <3>2. ~active
      BY <1>1 DEF WellPlaced, ClaimHooks
    <3>3. state[gate[t]] >= Stages(hook)
      BY <2>3, <3>1, <3>2, Entrance
    <3>4. state[gate[t]] > 0
      BY <1>2, <3>3, Quotas DEF Types
    <3>. QED
      BY <1>1, <1>2, <1>3, <3>4 DEF Prepared
  <2>. QED
    BY <2>1, <2>2, <2>3
<1>. QED
  BY <1>4, <1>6

-----------------------------------------------------------------------------
LEMMA MaximumStep ==
  ASSUME Types, WellPlaced, ObservedLow, MaximumCovers, NEW t \in Threads, Step(t)
  PROVE  ObservedLow' /\ MaximumCovers'
<1>. DEFINE Raising == {"load maximum", "raise maximum"}
<1>. USE DEF Types, Goto
<1>0. /\ maximum \in Int /\ maximum' \in Int
      /\ \A u \in Threads : error[u] \in Int /\ observed[u] \in Int
  <2>1. Errors \subseteq Int
    BY GateAssumption DEF Errors
  <2>2. Types'
    BY TypesStep
  <2>3. maximum \in Int /\ maximum' \in Int
    BY <2>1, <2>2
  <2>. QED
    BY <2>1, <2>3
<1>a. maximum <= maximum /\ error[t] \in Int /\ observed[t] \in Int
  BY <1>0
<1>1. CASE UNCHANGED <<maximum, error, observed>> /\ pc[t] \notin Raising
                                                /\ pc'[t] \notin Raising
  BY <1>1, StepEffect DEF ObservedLow, MaximumCovers, Effect
<1>2. CASE CompareClocks(t)
  BY <1>2 DEF CompareClocks, ObservedLow, MaximumCovers, shared
<1>3. CASE LoadMaximum(t)
  <2>1. /\ UNCHANGED <<maximum, error>>
        /\ pc[t] = "load maximum" /\ pc'[t] = "raise maximum"
        /\ observed'[t] = maximum
        /\ \A u \in Threads : u # t => pc'[u] = pc[u] /\ observed'[u] = observed[u]
    BY <1>3 DEF LoadMaximum, shared
  <2>. QED
    BY <1>a, <2>1 DEF ObservedLow, MaximumCovers
<1>4. CASE RaiseMaximum(t)
  <2>1. maximum < maximum' /\ maximum' = error[t] /\ UNCHANGED <<error, observed>>
    BY <1>4 DEF RaiseMaximum
  <2>2. pc'[t] \notin Raising /\ \A u \in Threads : u # t => pc'[u] = pc[u]
    BY <1>4 DEF RaiseMaximum, Judged
  <2>3. ASSUME NEW u \in Threads, pc'[u] = "raise maximum" PROVE observed'[u] <= maximum'
    <3>1. u # t /\ pc[u] = "raise maximum"
      BY <2>2, <2>3
    <3>2. observed[u] <= maximum
      BY <3>1 DEF ObservedLow
    <3>. QED
      BY <1>0, <2>1, <3>2
  <2>4. ASSUME NEW u \in Threads, pc'[u] \notin Raising PROVE error'[u] <= maximum'
    <3>1. CASE u = t
      BY <1>0, <2>1, <3>1
    <3>2. CASE u # t
      <4>1. error[u] <= maximum
        BY <2>2, <2>4, <3>2 DEF MaximumCovers
      <4>. QED
        BY <1>0, <2>1, <4>1
    <3>. QED
      BY <3>1, <3>2
  <2>. QED
    BY <2>3, <2>4 DEF ObservedLow, MaximumCovers
<1>5. CASE RaiseAgain(t)
  <2>1. /\ UNCHANGED <<maximum, error, pc>>
        /\ observed'[t] = maximum
        /\ \A u \in Threads : u # t => observed'[u] = observed[u]
    BY <1>5 DEF RaiseAgain, shared
  <2>. QED
    BY <1>a, <2>1 DEF ObservedLow, MaximumCovers
<1>6. CASE MaximumHigher(t)
  <2>1. observed[t] >= error[t] /\ pc[t] = "raise maximum" /\ UNCHANGED <<maximum, error, observed>>
    BY <1>6 DEF MaximumHigher, Reads, shared
  <2>2. error[t] <= maximum
    <3>1. observed[t] <= maximum
      BY <2>1 DEF ObservedLow
    <3>2. maximum \in Int /\ observed[t] >= error[t]
      BY <1>0, <2>1
    <3>. HIDE DEF Types
    <3>. QED
      BY <1>a, <3>1, <3>2
  <2>3. pc'[t] \notin Raising /\ \A u \in Threads : u # t => pc'[u] = pc[u]
    BY <1>6 DEF MaximumHigher, Reads, Judged
  <2>. QED
    BY <2>1, <2>2, <2>3 DEF ObservedLow, MaximumCovers
<1>7. CASE Call(t) \/ ReadStep(t) \/ DecideStep(t)
  <2>1. CASE Call(t)
    BY <1>1, <2>1 DEF Call, shared
  <2>2. CASE ReadStep(t)
    BY <1>1, <2>2 DEF ReadStep, ReadOnce, ReadArea, ReadAreaAgain, ReadConstruction,
                ReadConstructionAgain, ReadShuffle, Fast, CandidateFails, Reads, shared,
                Asked, ReadClaimed, Claim, ReadInterpolation
  <2>3. CASE DecideStep(t)
    BY <1>1, <2>3 DEF DecideStep, Count, Open, CountMismatch, Close, Publish, Reload,
                Activate, Reads, shared
  <2>. QED
    BY <1>7, <2>1, <2>2, <2>3
<1>8. CASE PrepareTables(t) \/ PrepareThrows(t) \/ Compare(t) \/ CompareShuffles(t)
  BY <1>1, <1>8 DEF PrepareTables, PrepareThrows, Compare, CompareShuffles, Reads,
              shared, local
<1>. QED
  BY <1>2, <1>3, <1>4, <1>5, <1>6, <1>7, <1>8 DEF Step, CompareStep

LEMMA MismatchStep ==
  ASSUME Types, MismatchCloses, NEW t \in Threads, Step(t)
  PROVE  MismatchCloses'
<1>. USE DEF Types, Goto
<1>0. /\ IsFiniteSet(Closers) /\ Cardinality(Closers) \in Nat
      /\ IsFiniteSet(Closers') /\ Cardinality(Closers') \in Nat
  <2>1. Closers \subseteq Threads /\ Closers' \subseteq Threads
    BY DEF Closers
  <2>. QED
    BY <2>1, GateAssumption, FS_Subset, FS_CardinalityType
<1>1. CASE \E g \in Gates : state[g] = -1
  <2>1. PICK g \in Gates : state[g] = -1
    BY <1>1
  <2>2. state'[g] = -1
    BY <2>1, StepEffect DEF Effect
  <2>. QED
    BY <2>2 DEF MismatchCloses
<1>2. CASE Close(t)
  BY <1>2 DEF Close, MismatchCloses
<1>3. CASE CountMismatch(t)
  <2>1. Closers' = Closers \cup {t} /\ t \notin Closers
    BY <1>3 DEF CountMismatch, Closers
  <2>2. Cardinality(Closers') = Cardinality(Closers) + 1
    BY <1>0, <2>1, FS_AddElement
  <2>3. mismatches' = mismatches + 1 /\ state' = state
    BY <1>3 DEF CountMismatch
  <2>. QED
    BY <1>0, <2>2, <2>3 DEF MismatchCloses, Closers
<1>4. CASE ~Close(t) /\ ~CountMismatch(t) /\ ~\E g \in Gates : state[g] = -1
  <2>1. pc[t] # "close" /\ pc'[t] # "close" /\ mismatches' = mismatches
    <3>1. CASE Call(t)
      BY <3>1 DEF Call, shared
    <3>2. CASE ReadStep(t)
      BY <3>2 DEF ReadStep, ReadOnce, ReadArea, ReadAreaAgain, ReadConstruction,
                ReadConstructionAgain, ReadShuffle, Fast, CandidateFails, Reads, shared,
                Asked, ReadClaimed, Claim, ReadInterpolation
    <3>3. CASE CompareStep(t)
      BY <3>3 DEF CompareStep, PrepareTables, PrepareThrows, Compare, CompareClocks,
                LoadMaximum, RaiseMaximum, RaiseAgain, MaximumHigher, Judged,
                CompareShuffles, Reads, shared, local
    <3>4. CASE DecideStep(t)
      BY <1>4, <3>4 DEF DecideStep, Count, Open, Publish, Reload, Activate, Reads, shared
    <3>. QED
      BY <3>1, <3>2, <3>3, <3>4 DEF Step
  <2>2. Closers' = Closers
    BY <2>1, StepEffect DEF Effect, Closers
  <2>. QED
    BY <1>4, <2>1, <2>2 DEF MismatchCloses, Closers
<1>. QED
  BY <1>1, <1>2, <1>3, <1>4

-----------------------------------------------------------------------------
(* Claimed comparisons.                                                    *)

LEMMA ComparingFinite ==
  ASSUME NEW S, S \subseteq Threads
  PROVE  IsFiniteSet(S) /\ Cardinality(S) \in Nat
BY GateAssumption, FS_Subset, FS_CardinalityType

(* The only gate of a hook that claims, and the bound on what it counts.   *)
LEMMA ClaimFacts ==
  ASSUME Types, WellPlaced, Claimed, hook \in ClaimHooks
  PROVE  /\ hook \in Gates /\ \A t \in Threads : gate[t] = hook
         /\ validated[hook] \in Nat /\ claims \in Nat /\ Required \in Nat
         /\ claims <= Required /\ mismatches \in Nat
         /\ IsFiniteSet(Comparing) /\ Cardinality(Comparing) \in Nat
         /\ validated[hook] + mismatches + Cardinality(Comparing) = claims
         /\ hook \notin {"area", "containment", "clock", "construction", "shuffle",
                         "interpolation"}
<1>1. GatesOf(hook) = {hook}
  BY DEF ClaimHooks, GatesOf
<1>2. hook \in Gates /\ \A t \in Threads : gate[t] = hook
  BY <1>1, GatesOfHook DEF Types, WellPlaced
<1>3. Comparing \subseteq Threads
  BY DEF Comparing
<1>4. Required \in Nat
  BY GateAssumption
<1>5. hook \notin {"area", "containment", "clock", "construction", "shuffle",
                  "interpolation"}
  BY DEF ClaimHooks
<1>. QED
  BY <1>2, <1>3, <1>4, <1>5, ComparingFinite DEF Types, Claimed

(* While a comparison is under way, not all of Required are counted.       *)
LEMMA StillComparing ==
  ASSUME Types, WellPlaced, Claimed, hook \in ClaimHooks,
         NEW t \in Threads, pc[t] \in {"compare", "count", "mismatch"}
  PROVE  validated[hook] + mismatches < Required
<1>1. t \in Comparing
  BY DEF Comparing
<1>2. IsFiniteSet(Comparing) /\ Cardinality(Comparing) \in Nat
  BY ClaimFacts
<1>3. Cardinality(Comparing) # 0
  BY <1>1, <1>2, FS_EmptySet
<1>. QED
  BY <1>2, <1>3, ClaimFacts

(* A step that neither claims, counts nor decides.                         *)
LEMMA QuietClaims ==
  ASSUME Types, WellPlaced, Claimed, hook \in ClaimHooks, NEW t \in Threads,
         UNCHANGED <<hook, state, validated, mismatches, claims, active>>,
         \A u \in Threads : u # t => pc'[u] = pc[u],
         pc[t] \notin {"open", "close"}, pc'[t] \notin {"open", "activate", "close"},
         pc'[t] = "fast" => active \/ state[hook] > 0,
         pc'[t] \in {"compare", "count", "mismatch"}
           <=> pc[t] \in {"compare", "count", "mismatch"}
  PROVE  Claimed'
<1>1. Comparing' = Comparing
  BY DEF Comparing
<1>2. \A u \in Threads :
        /\ pc'[u] \in {"open", "activate", "fast"} => validated[hook] = Required
        /\ pc'[u] = "close" => mismatches > 0
  BY DEF Claimed
<1>3. /\ validated[hook] = Required =>
           state[hook] # 0 \/ \E u \in Threads : pc'[u] = "open"
      /\ mismatches > 0 =>
           state[hook] = -1 \/ \E u \in Threads : pc'[u] = "close"
  BY DEF Claimed
<1>. QED
  BY <1>1, <1>2, <1>3 DEF Claimed

LEMMA ClaimStep ==
  ASSUME Types, WellPlaced, Claimed, hook \in ClaimHooks, NEW t \in Threads, Claim(t)
  PROVE  Claimed'
<1>1. /\ UNCHANGED <<hook, state, validated, mismatches, active>>
      /\ pc[t] = "claim"
      /\ \A u \in Threads : u # t => pc'[u] = pc[u]
  BY DEF Claim, Types, Goto
<1>2. CASE claims < Required
  <2>1. claims' = claims + 1 /\ pc'[t] = "compare"
    BY <1>2 DEF Claim, Types, Goto
  <2>2. Comparing' = Comparing \cup {t} /\ t \notin Comparing
    BY <1>1, <2>1 DEF Comparing
  <2>3. Cardinality(Comparing') = Cardinality(Comparing) + 1
    BY <2>2, ClaimFacts, FS_AddElement
  <2>4. validated'[hook] + mismatches' + Cardinality(Comparing') = claims'
    BY <1>1, <2>1, <2>3, ClaimFacts
  <2>5. \A u \in Threads :
          /\ pc'[u] \in {"open", "activate", "fast"} => validated[hook] = Required
          /\ pc'[u] = "close" => mismatches > 0
    BY <1>1, <2>1 DEF Claimed
  <2>6. /\ validated[hook] = Required =>
             state[hook] # 0 \/ \E u \in Threads : pc'[u] = "open"
        /\ mismatches > 0 =>
             state[hook] = -1 \/ \E u \in Threads : pc'[u] = "close"
    BY <1>1 DEF Claimed
  <2>. QED
    BY <1>1, <2>4, <2>5, <2>6 DEF Claimed
<1>3. CASE ~(claims < Required)
  <2>1. claims' = claims /\ pc'[t] = "idle"
    BY <1>3 DEF Claim, Types, Goto
  <2>. QED
    BY <1>1, <2>1, QuietClaims
<1>. QED
  BY <1>2, <1>3

LEMMA CountClaimed ==
  ASSUME Types, WellPlaced, Claimed, hook \in ClaimHooks, NEW t \in Threads, Count(t)
  PROVE  Claimed'
<1>a. /\ validated[hook] \in Nat /\ mismatches \in Nat /\ Required \in Nat
      /\ Cardinality(Comparing) \in Nat /\ hook \in Gates /\ gate[t] = hook
  BY ClaimFacts
<1>1. /\ UNCHANGED <<hook, state, mismatches, claims, active>>
      /\ pc[t] = "count" /\ validated'[hook] = validated[hook] + 1
      /\ pc'[t] = (IF validated'[hook] = Required THEN "open" ELSE "idle")
      /\ \A u \in Threads : u # t => pc'[u] = pc[u]
  BY <1>a DEF Count, Enough, Types, Goto
<1>2. validated[hook] + mismatches < Required
  BY <1>1, StillComparing
<1>3. Comparing' = Comparing \ {t} /\ t \in Comparing
  BY <1>1 DEF Comparing
<1>4. Cardinality(Comparing') = Cardinality(Comparing) - 1
  BY <1>3, ClaimFacts, FS_RemoveElement
<1>5. validated'[hook] + mismatches' + Cardinality(Comparing') = claims'
  BY <1>a, <1>1, <1>4, ClaimFacts
<1>6. ~active /\ ~(state[hook] > 0) /\ validated[hook] # Required
  BY <1>a, <1>2 DEF Claimed
<1>7. \A u \in Threads :
        /\ pc'[u] \in {"open", "activate", "fast"} => validated'[hook] = Required
        /\ pc'[u] = "close" => mismatches > 0
  BY <1>1, <1>6 DEF Claimed
<1>8. /\ validated'[hook] = Required => \E u \in Threads : pc'[u] = "open"
      /\ mismatches > 0 =>
           state[hook] = -1 \/ \E u \in Threads : pc'[u] = "close"
  BY <1>1 DEF Claimed
<1>. QED
  BY <1>1, <1>5, <1>6, <1>7, <1>8 DEF Claimed

LEMMA OpenClaimed ==
  ASSUME Types, WellPlaced, Claimed, hook \in ClaimHooks, NEW t \in Threads, Open(t)
  PROVE  Claimed'
<1>a. hook \in Gates /\ gate[t] = hook /\ stage[t] = 0
  BY ClaimFacts DEF WellPlaced, Types
<1>1. /\ UNCHANGED <<hook, validated, mismatches, claims, active>>
      /\ pc[t] = "open" /\ pc'[t] \in {"activate", "idle"}
      /\ state'[hook] = (IF state[hook] = 0 THEN 1 ELSE state[hook])
      /\ \A u \in Threads : u # t => pc'[u] = pc[u]
  BY <1>a DEF Open, Types, Goto
<1>2. validated[hook] = Required
  BY <1>1 DEF Claimed
<1>3. Comparing' = Comparing
  BY <1>1 DEF Comparing
<1>4. \A u \in Threads : pc'[u] = "close" => mismatches > 0
  BY <1>1 DEF Claimed
<1>5. state'[hook] # 0
  BY <1>1
<1>6. mismatches > 0 => state'[hook] = -1 \/ \E u \in Threads : pc'[u] = "close"
  BY <1>1 DEF Claimed
<1>. QED
  BY <1>1, <1>2, <1>3, <1>4, <1>5, <1>6 DEF Claimed

LEMMA MismatchClaimed ==
  ASSUME Types, WellPlaced, Claimed, hook \in ClaimHooks, NEW t \in Threads,
         CountMismatch(t)
  PROVE  Claimed'
<1>a. /\ validated[hook] \in Nat /\ mismatches \in Nat /\ Required \in Nat
      /\ Cardinality(Comparing) \in Nat
  BY ClaimFacts
<1>1. /\ UNCHANGED <<hook, state, validated, claims, active>>
      /\ pc[t] = "mismatch" /\ pc'[t] = "close" /\ mismatches' = mismatches + 1
      /\ \A u \in Threads : u # t => pc'[u] = pc[u]
  BY DEF CountMismatch, Types, Goto
<1>2. validated[hook] # Required
  BY <1>a, <1>1, StillComparing
<1>3. Comparing' = Comparing \ {t} /\ t \in Comparing
  BY <1>1 DEF Comparing
<1>4. Cardinality(Comparing') = Cardinality(Comparing) - 1
  BY <1>3, ClaimFacts, FS_RemoveElement
<1>5. validated'[hook] + mismatches' + Cardinality(Comparing') = claims'
  BY <1>a, <1>1, <1>4, ClaimFacts
<1>6. mismatches' > 0
  BY <1>a, <1>1
<1>7. \A u \in Threads :
        pc'[u] \in {"open", "activate", "fast"} => validated[hook] = Required
  BY <1>1 DEF Claimed
<1>8. ~active /\ ~(state[hook] > 0)
  BY <1>2 DEF Claimed
<1>. QED
  BY <1>1, <1>2, <1>5, <1>6, <1>7, <1>8 DEF Claimed

LEMMA CloseClaimed ==
  ASSUME Types, WellPlaced, Claimed, hook \in ClaimHooks, NEW t \in Threads, Close(t)
  PROVE  Claimed'
<1>a. hook \in Gates /\ gate[t] = hook
  BY ClaimFacts
<1>1. /\ UNCHANGED <<hook, validated, mismatches, claims, active>>
      /\ pc[t] = "close" /\ pc'[t] = "idle" /\ state'[hook] = -1
      /\ \A u \in Threads : u # t => pc'[u] = pc[u]
  BY <1>a DEF Close, Types, Goto
<1>2. Comparing' = Comparing
  BY <1>1 DEF Comparing
<1>3. \A u \in Threads :
        /\ pc'[u] \in {"open", "activate", "fast"} => validated[hook] = Required
        /\ pc'[u] = "close" => mismatches > 0
  BY <1>1 DEF Claimed
<1>4. active => validated[hook] = Required
  BY DEF Claimed
<1>. QED
  BY <1>1, <1>2, <1>3, <1>4, ClaimFacts DEF Claimed

LEMMA ActivateClaimed ==
  ASSUME Types, WellPlaced, Claimed, hook \in ClaimHooks, NEW t \in Threads, Activate(t)
  PROVE  Claimed'
<1>1. /\ UNCHANGED <<hook, state, validated, mismatches, claims>>
      /\ pc[t] = "activate" /\ pc'[t] = "idle"
      /\ \A u \in Threads : u # t => pc'[u] = pc[u]
  BY DEF Activate, Types, Goto
<1>2. validated[hook] = Required
  BY <1>1 DEF Claimed
<1>3. Comparing' = Comparing
  BY <1>1 DEF Comparing
<1>4. /\ \A u \in Threads : pc'[u] = "close" => mismatches > 0
      /\ validated[hook] = Required =>
           state[hook] # 0 \/ \E u \in Threads : pc'[u] = "open"
      /\ mismatches > 0 =>
           state[hook] = -1 \/ \E u \in Threads : pc'[u] = "close"
  BY <1>1 DEF Claimed
<1>. QED
  BY <1>1, <1>2, <1>3, <1>4 DEF Claimed

(* The calls of sample and octaves that only read, and those that answer.  *)
LEMMA ReadClaimedStep ==
  ASSUME Types, WellPlaced, Claimed, hook \in ClaimHooks, NEW t \in Threads,
         Call(t) \/ ReadClaimed(t) \/ Fast(t) \/ Compare(t)
  PROVE  Claimed'
<1>a. hook \in Gates /\ gate[t] = hook
  BY ClaimFacts
<1>1. /\ UNCHANGED <<hook, state, validated, mismatches, claims, active>>
      /\ \A u \in Threads : u # t => pc'[u] = pc[u]
  BY DEF Call, ReadClaimed, Fast, Compare, Reads, Goto, Types, shared
<1>2. /\ pc[t] \notin {"open", "close"} /\ pc'[t] \notin {"open", "activate", "close"}
      /\ pc'[t] = "fast" => active \/ state[hook] > 0
      /\ pc'[t] \in {"compare", "count", "mismatch"}
           <=> pc[t] \in {"compare", "count", "mismatch"}
  <2>1. CASE Call(t)
    BY <2>1 DEF Call, Goto, Types
  <2>2. CASE ReadClaimed(t)
    BY <1>a, <2>2 DEF ReadClaimed, Reads, Goto, Types, Asked, State
  <2>3. CASE Fast(t) \/ Compare(t)
    BY <2>3 DEF Fast, Compare, Reads, Goto, Types
  <2>. QED
    BY <2>1, <2>2, <2>3
<1>. QED
  BY <1>1, <1>2, QuietClaims

LEMMA ClaimedStep ==
  ASSUME Types, WellPlaced, Claimed, NEW t \in Threads, Step(t)
  PROVE  Claimed'
<1>1. hook' = hook
  BY StepEffect DEF Effect
<1>2. SUFFICES ASSUME hook \in ClaimHooks PROVE Claimed'
  BY <1>1 DEF Claimed
<1>3. /\ hook \notin {"area", "containment", "clock", "construction", "shuffle",
                      "interpolation"}
      /\ hook \notin ReadOnceHooks
      /\ pc[t] \notin {"load maximum", "raise maximum", "publish", "reload"}
  BY <1>2, ClaimFacts DEF WellPlaced, ReadOnceHooks
<1>4. ReadStep(t) => ReadClaimed(t) \/ Claim(t) \/ Fast(t)
  BY <1>3 DEF ReadStep, ReadOnce, ReadArea, ReadAreaAgain, ReadConstruction,
              ReadConstructionAgain, ReadShuffle, ReadInterpolation, CandidateFails
<1>5. CompareStep(t) => Compare(t)
  BY <1>3 DEF CompareStep, PrepareTables, PrepareThrows, CompareClocks, LoadMaximum,
              RaiseMaximum, RaiseAgain, MaximumHigher, CompareShuffles, Reads
<1>6. DecideStep(t) => Count(t) \/ Open(t) \/ Activate(t) \/ CountMismatch(t) \/ Close(t)
  BY <1>3 DEF DecideStep, Publish, Reload, Reads
<1>. QED
  BY <1>2, <1>4, <1>5, <1>6, ReadClaimedStep, ClaimStep, CountClaimed, OpenClaimed,
     ActivateClaimed, MismatchClaimed, CloseClaimed DEF Step

-----------------------------------------------------------------------------
-----------------------------------------------------------------------------
(* How far a gate counts.                                                  *)

(* A part of the threads, and two that share none.                         *)
LEMMA PartOfThreads ==
  ASSUME NEW S, S \subseteq Threads
  PROVE  /\ IsFiniteSet(S) /\ Cardinality(S) \in Nat
         /\ Cardinality(S) <= Cardinality(Threads)
         /\ Cardinality(Threads) \in Nat
BY GateAssumption, FS_Subset, FS_CardinalityType

LEMMA PartsOfThreads ==
  ASSUME NEW S, S \subseteq Threads, NEW R, R \subseteq Threads, S \cap R = {}
  PROVE  Cardinality(S) + Cardinality(R) <= Cardinality(Threads)
<1>1. Cardinality(S \cup R) = Cardinality(S) + Cardinality(R) - Cardinality(S \cap R)
  BY PartOfThreads, FS_Union
<1>2. Cardinality(S \cap R) = 0
  BY FS_EmptySet
<1>3. Cardinality(S \cup R) <= Cardinality(Threads)
  BY PartOfThreads
<1>. QED
  BY <1>1, <1>2, <1>3, PartOfThreads

LEMMA SmallerPart ==
  ASSUME NEW S, S \subseteq Threads, NEW R, R \subseteq S
  PROVE  Cardinality(R) <= Cardinality(S)
BY PartOfThreads, FS_Subset

(* One thread more, or one less.                                           *)
LEMMA PartWith ==
  ASSUME NEW S, S \subseteq Threads, NEW R, R \subseteq Threads,
         NEW t \in Threads, t \notin S, t \in R, S \ {t} = R \ {t}
  PROVE  Cardinality(R) = Cardinality(S) + 1
<1>1. R = S \cup {t}
  OBVIOUS
<1>. QED
  BY <1>1, PartOfThreads, FS_AddElement

LEMMA PartsTyped ==
  ASSUME NEW g
  PROVE  /\ Opening(g, 0) \subseteq Threads /\ Opening(g, 0)' \subseteq Threads
         /\ Opening(g, 1) \subseteq Threads /\ Opening(g, 1)' \subseteq Threads
         /\ Early(g) \subseteq Threads /\ Early(g)' \subseteq Threads
         /\ Coming(g) \subseteq Threads /\ Coming(g)' \subseteq Threads
         /\ Cardinality(Opening(g, 0)) \in Nat /\ Cardinality(Opening(g, 0)') \in Nat
         /\ Cardinality(Opening(g, 1)) \in Nat /\ Cardinality(Opening(g, 1)') \in Nat
         /\ Cardinality(Early(g)) \in Nat /\ Cardinality(Early(g)') \in Nat
         /\ Cardinality(Coming(g)) \in Nat /\ Cardinality(Coming(g)') \in Nat
         /\ Stages(g) * Required \in Nat
<1>1. /\ Opening(g, 0) \subseteq Threads /\ Opening(g, 0)' \subseteq Threads
      /\ Opening(g, 1) \subseteq Threads /\ Opening(g, 1)' \subseteq Threads
      /\ Early(g) \subseteq Threads /\ Early(g)' \subseteq Threads
      /\ Coming(g) \subseteq Threads /\ Coming(g)' \subseteq Threads
  BY DEF Opening, Early, Coming
<1>2. Stages(g) * Required \in Nat
  BY GateAssumption DEF Stages
<1>. QED
  BY <1>1, <1>2, PartOfThreads

(* Where a thread that is on its way to a count comes from: it was on its  *)
(* way already, or the gate still compares, in the thread's own stage.     *)
LEMMA ComingStep ==
  ASSUME Types, WellPlaced, NEW t \in Threads, Step(t), NEW g \in Gates,
         state[g] <= Stages(g), ComesTo(t, g)', ~ComesTo(t, g)
  PROVE  \/ state[g] = 0 \/ state'[g] # state[g]
         \/ state[g] = 1 /\ g = "interpolation" /\ stage'[t] = 1
<1>. SUFFICES ASSUME state[g] # 0, state'[g] = state[g]
              PROVE  state[g] = 1 /\ g = "interpolation" /\ stage'[t] = 1
  OBVIOUS
<1>a. gate[t] = g /\ g # "interpolation" => state[g] \in {-1, 0, 1}
  BY DEF Types, Stages
<1>b. gate[t] = g /\ hook # "interpolation" => g # "interpolation"
  BY DEF WellPlaced, GatesOf, Types
<1>. USE DEF Types, Goto, Reads, State, ComesTo, Underway
<1>1. CASE Call(t)
  BY <1>1 DEF Call
<1>2. CASE ReadStep(t)
  <2>1. CASE ReadInterpolation(t)
    <3>1. gate' = gate /\ gate[t] = g /\ hook = "interpolation" /\ g = "interpolation"
      BY <2>1 DEF ReadInterpolation, WellPlaced, GatesOf
    <3>. QED
      BY <2>1, <3>1 DEF ReadInterpolation, Asked
  <2>2. CASE ReadOnce(t) \/ ReadShuffle(t) \/ ReadClaimed(t)
    <3>1. gate' = gate /\ gate[t] = g /\ state[g] \in {-1, 1, 2} /\ hook' = hook
      BY <2>2 DEF ReadOnce, ReadShuffle, ReadClaimed, shared
    <3>2. Asked(t) \in {"fast", "idle"} /\ State(t) # 0
      <4>1. State(t) \in {-1, 1, 2}
        BY <3>1
      <4>. HIDE DEF Types, State, ComesTo
      <4>. QED
        BY <4>1 DEF Asked
    <3>3. pc'[t] = Asked(t)
      BY <2>2, <3>2 DEF ReadOnce, ReadShuffle, ReadClaimed
    <3>. QED
      BY <3>1, <3>2, <3>3
  <2>3. CASE ReadArea(t) \/ ReadAreaAgain(t)
    BY <2>3, <1>a, <1>b DEF ReadArea, ReadAreaAgain, shared
  <2>4. CASE ReadConstruction(t) \/ ReadConstructionAgain(t)
    BY <2>4, <1>a, <1>b DEF ReadConstruction, ReadConstructionAgain, shared
  <2>5. CASE Fast(t) \/ CandidateFails(t) \/ Claim(t)
    BY <2>5 DEF Fast, CandidateFails, Claim
  <2>. QED
    BY <1>2, <2>1, <2>2, <2>3, <2>4, <2>5 DEF ReadStep
<1>3. CASE CompareStep(t)
  BY <1>3 DEF CompareStep, PrepareTables, PrepareThrows, Compare, CompareClocks,
              LoadMaximum, RaiseMaximum, RaiseAgain, MaximumHigher, Judged,
              CompareShuffles, local, shared
<1>4. CASE DecideStep(t)
  BY <1>4 DEF DecideStep, Count, Open, CountMismatch, Close, Publish, Reload, Activate
<1>. QED
  BY <1>1, <1>2, <1>3, <1>4 DEF Step

(* Only Count counts, only Open leaves the place before the exchange, and  *)
(* a decided gate is never undecided again.                                *)
LEMMA CountingStep ==
  ASSUME Types, WellPlaced, Bounded, NEW t \in Threads, Step(t)
  PROVE  /\ \A g \in Gates : validated'[g] # validated[g] => Count(t) /\ g = gate[t]
         /\ pc[t] = "open" => Open(t)
         /\ \A g \in Gates : state[g] # 0 => state'[g] # 0
         /\ \A g \in Gates : state'[g] <= Stages(g)
         /\ stage'[t] = 1 => state'[gate'[t]] # 0
         /\ \A g \in Gates : state'[g] # state[g] =>
              pc'[t] \in {"idle", "activate", "reload"}
<1>. USE DEF Types, Goto, Reads, shared, local
<1>1. \A g \in Gates : validated'[g] # validated[g] => Count(t) /\ g = gate[t]
  <2>1. CASE Count(t)
    BY <2>1 DEF Count
  <2>2. CASE ~Count(t)
    BY <2>2, ReadStepsRead DEF Step, CompareStep, DecideStep, ReadsSomewhere, Call,
       CandidateFails, PrepareTables, CompareClocks, LoadMaximum, RaiseMaximum,
       RaiseAgain, CompareShuffles, Open, Close, CountMismatch, Publish, Claim,
       ReadInterpolation, Activate
  <2>. QED
    BY <2>1, <2>2
<1>2. pc[t] = "open" => Open(t)
  <2>1. CASE Call(t) \/ ReadStep(t)
    BY <2>1 DEF Call, ReadStep, ReadOnce, ReadArea, ReadAreaAgain, ReadConstruction,
       ReadConstructionAgain, ReadShuffle, ReadClaimed, Claim, ReadInterpolation, Fast,
       CandidateFails
  <2>2. CASE CompareStep(t)
    BY <2>2 DEF CompareStep, PrepareTables, PrepareThrows, Compare, CompareClocks,
       LoadMaximum, RaiseMaximum, RaiseAgain, MaximumHigher, CompareShuffles
  <2>3. CASE DecideStep(t)
    BY <2>3 DEF DecideStep, Count, Activate, CountMismatch, Close, Publish, Reload
  <2>. QED
    BY <2>1, <2>2, <2>3 DEF Step
<1>3. Effect(t)
  BY StepEffect
<1>4. \A g \in Gates : state[g] # 0 => state'[g] # 0
  BY <1>3 DEF Effect
<1>5. \A g \in Gates : state'[g] <= Stages(g)
  <2>1. SUFFICES ASSUME NEW g \in Gates, state'[g] # state[g]
                 PROVE  state'[g] <= Stages(g)
    BY DEF Bounded
  <2>2. CASE state'[g] \in {-1, 1}
    BY <2>2 DEF Stages
  <2>3. CASE state'[g] \notin {-1, 1}
    <3>1. g = gate[t] /\ stage[t] = 1 /\ state'[g] = 2
      BY <1>3, <2>1, <2>3 DEF Effect
    <3>2. g = "interpolation"
      BY <3>1 DEF WellPlaced, GatesOf
    <3>. QED
      BY <3>1, <3>2 DEF Stages
  <2>. QED
    BY <2>2, <2>3
<1>6. stage'[t] = 1 => state'[gate'[t]] # 0
  <2>1. CASE Call(t)
    BY <2>1 DEF Call
  <2>2. CASE ReadInterpolation(t)
    BY <2>2 DEF ReadInterpolation, State
  <2>3. CASE ~Call(t) /\ ~ReadInterpolation(t)
    <3>1. stage' = stage /\ gate' = gate
      BY <2>3, ReadStepsRead DEF Step, CompareStep, DecideStep, ReadsSomewhere,
         CandidateFails, PrepareTables, CompareClocks, LoadMaximum, RaiseMaximum,
         RaiseAgain, CompareShuffles, Count, Open, Close, CountMismatch, Publish,
         Claim, Activate
    <3>. QED
      BY <3>1, <1>4 DEF Bounded
  <2>. QED
    BY <2>1, <2>2, <2>3
<1>7. \A g \in Gates : state'[g] # state[g] => pc'[t] \in {"idle", "activate", "reload"}
  <2>1. CASE Open(t) \/ Close(t) \/ Publish(t) \/ CandidateFails(t)
    BY <2>1 DEF Open, Close, Publish, CandidateFails
  <2>2. CASE ~(Open(t) \/ Close(t) \/ Publish(t) \/ CandidateFails(t))
    <3>1. state' = state
      BY <2>2, ReadStepsRead DEF Step, CompareStep, DecideStep, ReadsSomewhere, Call,
         PrepareTables, CompareClocks, LoadMaximum, RaiseMaximum, RaiseAgain,
         CompareShuffles, Count, CountMismatch, Claim, ReadInterpolation, Activate
    <3>. QED
      BY <3>1
  <2>. QED
    BY <2>1, <2>2
<1>. QED
  BY <1>1, <1>2, <1>4, <1>5, <1>6, <1>7

(* A step that neither counts at the gate nor changes it brings nobody on  *)
(* the way that is not there, and takes nobody from the place before the   *)
(* exchange.                                                               *)
LEMMA BoundedQuietly ==
  ASSUME Types, WellPlaced, Bounded, NEW t \in Threads, Step(t), NEW g \in Gates,
         state'[g] = state[g], validated'[g] = validated[g]
  PROVE  BoundedAt(g)'
<1>. DEFINE N == Cardinality(Threads)
<1>1. /\ hook' = hook
      /\ \A u \in Threads : u # t =>
           pc'[u] = pc[u] /\ gate'[u] = gate[u] /\ stage'[u] = stage[u]
  BY StepEffect DEF Effect
<1>2. \A u \in Threads : u # t => (ComesTo(u, g)' <=> ComesTo(u, g))
  BY <1>1 DEF ComesTo
<1>3. /\ validated[g] \in Nat /\ Required \in Nat /\ N \in Nat
      /\ state[g] \in {-1, 0, 1, 2} /\ state[g] <= Stages(g)
      /\ stage[t] \in {0, 1}
  BY PartOfThreads, GateAssumption DEF Types, Bounded
<1>4. BoundedAt(g)
  BY DEF Bounded
<1>5. ASSUME NEW s \in {0, 1}, state[g] = s
      PROVE  Cardinality(Opening(g, s)) <= Cardinality(Opening(g, s)')
  <2>1. t \notin Opening(g, s)
    <3>1. SUFFICES ASSUME t \in Opening(g, s) PROVE FALSE
      OBVIOUS
    <3>2. Open(t) /\ gate[t] = g /\ stage[t] = s
      BY <3>1, CountingStep DEF Opening
    <3>3. state'[g] = s + 1
      BY <3>2, <1>5 DEF Open, Types
    <3>4. s \in Int /\ s + 1 # s
      OBVIOUS
    <3>. QED
      BY <3>3, <3>4, <1>5
  <2>2. Opening(g, s) \subseteq Opening(g, s)' /\ Opening(g, s)' \subseteq Threads
    BY <1>1, <2>1 DEF Opening
  <2>. QED
    BY <2>2, SmallerPart
<1>6. ASSUME state[g] = 1, g = "interpolation"
      PROVE  Cardinality(Early(g)') <= Cardinality(Early(g))
  <2>1. t \in Early(g)' => t \in Early(g)
    <3>1. SUFFICES ASSUME t \in Early(g)' PROVE t \in Early(g)
      OBVIOUS
    <3>2. ComesTo(t, g)' /\ stage'[t] = 0
      BY <3>1 DEF Early
    <3>3. ComesTo(t, g)
      BY <3>2, <1>3, <1>6, ComingStep
    <3>4. stage[t] = 0
      <4>1. CASE Call(t)
        BY <4>1, <3>3 DEF Call, ComesTo, Underway
      <4>2. CASE ReadInterpolation(t)
        BY <4>2, <3>3 DEF ReadInterpolation, ComesTo, Underway
      <4>3. CASE ~Call(t) /\ ~ReadInterpolation(t)
        <5>1. stage' = stage
          BY <4>3, ReadStepsRead DEF Step, CompareStep, DecideStep, ReadsSomewhere, Reads,
             CandidateFails, PrepareTables, CompareClocks, LoadMaximum, RaiseMaximum,
             RaiseAgain, CompareShuffles, Count, Open, Close, CountMismatch, Publish,
             Claim, Activate, local
        <5>. QED
          BY <5>1, <3>2
      <4>. QED
        BY <4>1, <4>2, <4>3
    <3>. QED
      BY <3>3, <3>4 DEF Early
  <2>2. Early(g)' \subseteq Early(g) /\ Early(g) \subseteq Threads
    BY <1>1, <1>2, <2>1 DEF Early
  <2>. QED
    BY <2>2, SmallerPart
<1>7. ASSUME state[g] # 0, state[g] = 1 => g # "interpolation"
      PROVE  Cardinality(Coming(g)') <= Cardinality(Coming(g))
  <2>1. ComesTo(t, g)' => ComesTo(t, g)
    BY <1>3, <1>7, ComingStep
  <2>2. Coming(g)' \subseteq Coming(g) /\ Coming(g) \subseteq Threads
    BY <1>2, <2>1 DEF Coming
  <2>. QED
    BY <2>2, SmallerPart
<1>8. /\ Cardinality(Opening(g, 0)) \in Nat /\ Cardinality(Opening(g, 0)') \in Nat
      /\ Cardinality(Opening(g, 1)) \in Nat /\ Cardinality(Opening(g, 1)') \in Nat
      /\ Cardinality(Early(g)) \in Nat /\ Cardinality(Early(g)') \in Nat
      /\ Cardinality(Coming(g)) \in Nat /\ Cardinality(Coming(g)') \in Nat
      /\ Stages(g) * Required \in Nat
  BY PartsTyped
<1>. HIDE DEF N
<1>9. BoundedAt(g)' <=>
        /\ state[g] = 0 => validated[g] < Required + Cardinality(Opening(g, 0)')
        /\ state[g] = 1 /\ g = "interpolation" =>
             validated[g] + Cardinality(Early(g)')
               < 2 * Required + N + Cardinality(Opening(g, 1)')
        /\ state[g] > 0 /\ g # "interpolation" =>
             validated[g] + Cardinality(Coming(g)') < Required + N
        /\ state[g] = -1 \/ (state[g] = 2 /\ g = "interpolation") =>
             validated[g] + Cardinality(Coming(g)') < Stages(g) * Required + 2 * N
  BY DEF BoundedAt, N
<1>10. /\ state[g] = 0 => validated[g] < Required + Cardinality(Opening(g, 0))
       /\ state[g] = 1 /\ g = "interpolation" =>
            validated[g] + Cardinality(Early(g))
              < 2 * Required + N + Cardinality(Opening(g, 1))
       /\ state[g] > 0 /\ g # "interpolation" =>
            validated[g] + Cardinality(Coming(g)) < Required + N
       /\ state[g] = -1 \/ (state[g] = 2 /\ g = "interpolation") =>
            validated[g] + Cardinality(Coming(g)) < Stages(g) * Required + 2 * N
  BY <1>4 DEF BoundedAt, N
<1>11. CASE state[g] = 0
  <2>1. Cardinality(Opening(g, 0)) <= Cardinality(Opening(g, 0)')
    BY <1>5, <1>11
  <2>. QED
    BY <1>3, <1>8, <1>9, <1>10, <1>11, <2>1
<1>12. CASE state[g] = 1 /\ g = "interpolation"
  <2>1. /\ Cardinality(Opening(g, 1)) <= Cardinality(Opening(g, 1)')
        /\ Cardinality(Early(g)') <= Cardinality(Early(g))
    BY <1>5, <1>6, <1>12
  <2>. QED
    BY <1>3, <1>8, <1>9, <1>10, <1>12, <2>1
<1>13. CASE state[g] # 0 /\ (state[g] = 1 => g # "interpolation")
  <2>1. Cardinality(Coming(g)') <= Cardinality(Coming(g))
    BY <1>7, <1>13
  <2>. QED
    BY <1>3, <1>8, <1>9, <1>10, <1>13, <2>1
<1>. QED
  BY <1>3, <1>11, <1>12, <1>13

(* Count takes its thread off the way; to the exchange, if it was enough.  *)
LEMMA BoundedCount ==
  ASSUME Types, WellPlaced, Claimed, Bounded, NEW t \in Threads, Count(t),
         NEW g, g = gate[t]
  PROVE  BoundedAt(g)'
<1>. DEFINE N == Cardinality(Threads)
            v == validated[g]
            early == Cardinality(Early(g))
            early2 == Cardinality(Early(g)')
            coming == Cardinality(Coming(g))
            coming2 == Cardinality(Coming(g)')
            zero == Cardinality(Opening(g, 0))
            zero2 == Cardinality(Opening(g, 0)')
            one == Cardinality(Opening(g, 1))
            one2 == Cardinality(Opening(g, 1)')
<1>0. g \in Gates
  BY DEF Types
<1>1. /\ hook' = hook /\ state' = state /\ gate' = gate /\ stage' = stage
      /\ validated'[g] = v + 1 /\ pc[t] = "count"
      /\ pc' = [pc EXCEPT ![t] = IF Enough(t, v + 1) THEN "open" ELSE "idle"]
  BY <1>0 DEF Count, Types, Goto
<1>2. \A u \in Threads \ {t} : pc'[u] = pc[u]
  BY <1>1 DEF Types
<1>3. pc'[t] = (IF Enough(t, v + 1) THEN "open" ELSE "idle")
  BY <1>1 DEF Types
<1>4. /\ v \in Nat /\ Required \in Nat /\ Stages(g) * Required \in Nat /\ N \in Nat
      /\ early \in Nat /\ early2 \in Nat /\ coming \in Nat /\ coming2 \in Nat
      /\ zero \in Nat /\ zero2 \in Nat /\ one \in Nat /\ one2 \in Nat
      /\ early2 <= N
  BY <1>0, PartsTyped, PartOfThreads, GateAssumption DEF Types
<1>5. ComesTo(t, g) /\ ~ComesTo(t, g)'
  <2>1. pc'[t] \in {"open", "idle"}
    BY <1>3
  <2>. QED
    BY <1>1, <2>1 DEF ComesTo, Underway
<1>6. \A u \in Threads \ {t} : ComesTo(u, g)' <=> ComesTo(u, g)
  BY <1>1, <1>2 DEF ComesTo
<1>7. coming = coming2 + 1
  <2>1. /\ t \in Coming(g) /\ t \notin Coming(g)'
        /\ Coming(g)' \ {t} = Coming(g) \ {t}
    BY <1>5, <1>6 DEF Coming
  <2>. QED
    BY <2>1, PartsTyped, PartWith
<1>8. ASSUME stage[t] = 0
      PROVE  /\ state[g] = 0 => v + 1 < Required + zero2
             /\ state[g] = 1 /\ g = "interpolation" =>
                  (v + 1) + early2 < 2 * Required + N + one2
  <2>1. early = early2 + 1
    <3>1. /\ t \in Early(g) /\ t \notin Early(g)'
          /\ Early(g)' \ {t} = Early(g) \ {t}
      BY <1>1, <1>5, <1>6, <1>8 DEF Early
    <3>. QED
      BY <3>1, PartsTyped, PartWith
  <2>2. one2 = one
    <3>1. Opening(g, 1)' = Opening(g, 1)
      BY <1>1, <1>2, <1>8 DEF Opening
    <3>. QED
      BY <3>1
  <2>3. state[g] = 0 => v + 1 < Required + zero2
    <3>1. SUFFICES ASSUME state[g] = 0 PROVE v + 1 < Required + zero2
      OBVIOUS
    <3>2. CASE v + 1 < Required
      BY <3>2, <1>4
    <3>3. CASE v + 1 >= Required
      <4>1. Enough(t, v + 1)
        <5>1. CASE hook \in ClaimHooks
          <6>1. g = hook
            BY <5>1, ClaimFacts
          <6>2. v < Required
            BY <5>1, <6>1, <1>1, StillComparing, ClaimFacts
          <6>. QED
            BY <5>1, <6>2, <3>3, <1>4 DEF Enough
        <5>2. CASE hook \notin ClaimHooks
          <6>1. (stage[t] + 1) * Required = Required
            BY <1>8, <1>4
          <6>. QED
            BY <5>2, <6>1, <3>3 DEF Enough
        <5>. QED
          BY <5>1, <5>2
      <4>2. /\ t \notin Opening(g, 0) /\ t \in Opening(g, 0)'
            /\ Opening(g, 0)' \ {t} = Opening(g, 0) \ {t}
        BY <4>1, <1>1, <1>2, <1>3, <1>8 DEF Opening
      <4>3. zero2 = zero + 1
        BY <4>2, PartsTyped, PartWith
      <4>4. v < Required + zero
        BY <3>1, <1>0 DEF Bounded, BoundedAt
      <4>. HIDE DEF v, zero, zero2
      <4>. QED
        BY <4>3, <4>4, <1>4
    <3>. QED
      BY <3>2, <3>3, <1>4
  <2>4. state[g] = 1 /\ g = "interpolation" => v + early < 2 * Required + N + one
    BY <1>0 DEF Bounded, BoundedAt
  <2>5. state[g] = 1 /\ g = "interpolation" => (v + 1) + early2 < 2 * Required + N + one2
    <3>. HIDE DEF v, early, early2, one, one2, N
    <3>. QED
      BY <2>1, <2>2, <2>4, <1>4
  <2>. QED
    BY <2>3, <2>5
<1>9. ASSUME stage[t] = 1
      PROVE  /\ state[g] = 0 => v + 1 < Required + zero2
             /\ state[g] = 1 /\ g = "interpolation" =>
                  (v + 1) + early2 < 2 * Required + N + one2
  <2>1. state[g] # 0 /\ g = "interpolation" /\ hook \notin ClaimHooks
    BY <1>9 DEF Bounded, WellPlaced, GatesOf, ClaimHooks
  <2>2. state[g] = 1 => (v + 1) + early2 < 2 * Required + N + one2
    <3>1. SUFFICES ASSUME state[g] = 1 PROVE (v + 1) + early2 < 2 * Required + N + one2
      OBVIOUS
    <3>2. CASE v + 1 < 2 * Required
      <4>. HIDE DEF v, early, early2, one, one2, N
      <4>. QED
        BY <3>2, <1>4
    <3>3. CASE v + 1 >= 2 * Required
      <4>1. Enough(t, v + 1)
        <5>1. (stage[t] + 1) * Required = 2 * Required
          BY <1>9, <1>4
        <5>. QED
          BY <5>1, <2>1, <3>3 DEF Enough
      <4>2. /\ t \notin Opening(g, 1) /\ t \in Opening(g, 1)'
            /\ Opening(g, 1)' \ {t} = Opening(g, 1) \ {t}
        BY <4>1, <1>1, <1>2, <1>3, <1>9 DEF Opening
      <4>3. one2 = one + 1
        BY <4>2, PartsTyped, PartWith
      <4>4. early2 = early
        <5>1. Early(g)' = Early(g)
          BY <1>1, <1>6, <1>9 DEF Early
        <5>. QED
          BY <5>1
      <4>5. v + early < 2 * Required + N + one
        BY <3>1, <2>1, <1>0 DEF Bounded, BoundedAt
      <4>. HIDE DEF v, early, early2, one, one2, N
      <4>. QED
        BY <4>3, <4>4, <4>5, <1>4
    <3>. QED
      BY <3>2, <3>3, <1>4
  <2>. QED
    BY <2>1, <2>2
<1>10. /\ state[g] = 0 => v + 1 < Required + zero2
       /\ state[g] = 1 /\ g = "interpolation" => (v + 1) + early2 < 2 * Required + N + one2
  <2>1. stage[t] \in {0, 1}
    BY DEF Types
  <2>. QED
    BY <2>1, <1>8, <1>9
<1>11. /\ state[g] > 0 /\ g # "interpolation" => v + coming < Required + N
       /\ state[g] = -1 \/ (state[g] = 2 /\ g = "interpolation") =>
            v + coming < Stages(g) * Required + 2 * N
  BY <1>0 DEF Bounded, BoundedAt
<1>12. BoundedAt(g)' <=>
        /\ state[g] = 0 => v + 1 < Required + zero2
        /\ state[g] = 1 /\ g = "interpolation" => (v + 1) + early2 < 2 * Required + N + one2
        /\ state[g] > 0 /\ g # "interpolation" => (v + 1) + coming2 < Required + N
        /\ state[g] = -1 \/ (state[g] = 2 /\ g = "interpolation") =>
             (v + 1) + coming2 < Stages(g) * Required + 2 * N
  BY <1>1 DEF BoundedAt
<1>. HIDE DEF v, early, early2, coming, coming2, zero, zero2, one, one2, N
<1>13. /\ state[g] > 0 /\ g # "interpolation" => (v + 1) + coming2 < Required + N
       /\ state[g] = -1 \/ (state[g] = 2 /\ g = "interpolation") =>
            (v + 1) + coming2 < Stages(g) * Required + 2 * N
  BY <1>4, <1>7, <1>11
<1>. QED
  BY <1>10, <1>12, <1>13

(* A step that opens or closes the gate leaves on the way those that were  *)
(* not about to open it.                                                   *)
LEMMA BoundedDecided ==
  ASSUME Types, WellPlaced, Bounded, NEW t \in Threads, Step(t), NEW g \in Gates,
         state'[g] # state[g], validated'[g] = validated[g]
  PROVE  BoundedAt(g)'
<1>. DEFINE N == Cardinality(Threads)
            v == validated[g]
            early == Cardinality(Early(g))
            early2 == Cardinality(Early(g)')
            coming == Cardinality(Coming(g))
            coming2 == Cardinality(Coming(g)')
            zero == Cardinality(Opening(g, 0))
            one == Cardinality(Opening(g, 1))
            zero2 == Cardinality(Opening(g, 0)')
            one2 == Cardinality(Opening(g, 1)')
            Late == {u \in Threads : ComesTo(u, g) /\ stage[u] = 1}
            late == Cardinality(Late)
            quota == Stages(g) * Required
<1>1. /\ hook' = hook
      /\ \A u \in Threads : u # t =>
           pc'[u] = pc[u] /\ gate'[u] = gate[u] /\ stage'[u] = stage[u]
      /\ \/ state'[g] = -1 /\ pc[t] # "publish"
         \/ pc[t] = "open" /\ g = gate[t] /\ state[g] = stage[t] /\ state'[g] = stage[t] + 1
         \/ pc[t] = "publish" /\ g = gate[t] /\ state[g] = 0 /\ state'[g] \in {-1, 1}
  BY StepEffect DEF Effect
<1>2. pc'[t] \in {"idle", "activate", "reload"}
  BY CountingStep
<1>3. /\ v \in Nat /\ Required \in Nat /\ quota \in Nat /\ N \in Nat
      /\ early \in Nat /\ early2 \in Nat /\ coming \in Nat /\ coming2 \in Nat
      /\ zero \in Nat /\ zero2 \in Nat /\ one \in Nat /\ one2 \in Nat /\ late \in Nat
      /\ early2 <= coming2 /\ coming2 <= N /\ zero <= N
  <2>1. Early(g)' \subseteq Coming(g)' /\ Late \subseteq Threads
    BY DEF Early, Coming
  <2>. QED
    BY <2>1, PartsTyped, PartOfThreads, SmallerPart, GateAssumption DEF Types
<1>4. /\ state[g] \in {-1, 0, 1, 2} /\ state[g] <= Stages(g)
      /\ state'[g] \in {-1, 0, 1, 2} /\ stage[t] \in {0, 1}
      /\ (stage[t] = 1 /\ g = gate[t]) => g = "interpolation"
  <2>1. Types'
    BY TypesStep
  <2>. QED
    BY <2>1 DEF Types, Bounded, WellPlaced, GatesOf
<1>5. quota = IF g = "interpolation" THEN 2 * Required ELSE Required
  BY <1>3 DEF Stages
<1>6. BoundedAt(g)
  BY DEF Bounded
<1>7. /\ state'[g] = 0 => v < Required + zero2
      /\ state'[g] = 1 /\ g = "interpolation" => v + early2 < 2 * Required + N + one2
      /\ state'[g] > 0 /\ g # "interpolation" => v + coming2 < Required + N
      /\ state'[g] = -1 \/ (state'[g] = 2 /\ g = "interpolation") =>
           v + coming2 < quota + 2 * N
  <2>1. CASE state[g] = 0
    <3>1. v < Required + zero
      BY <2>1, <1>6 DEF BoundedAt
    <3>2. state'[g] \in {-1, 1}
      BY <1>1, <1>4, <2>1
    <3>3. state'[g] = 1 => coming2 + zero <= N
      <4>1. Coming(g)' \cap Opening(g, 0) = {}
        BY <1>1, <1>2 DEF Coming, ComesTo, Underway, Opening
      <4>. QED
        BY <4>1, PartsTyped, PartsOfThreads
    <3>. HIDE DEF v, early, early2, coming, coming2, zero, zero2, one, one2, N, quota
    <3>. QED
      BY <3>1, <3>2, <3>3, <1>3, <1>5
  <2>2. CASE state[g] = 1 /\ g # "interpolation"
    <3>1. v + coming < Required + N
      BY <2>2, <1>6 DEF BoundedAt
    <3>2. state'[g] = -1
      BY <1>1, <1>4, <2>2
    <3>. HIDE DEF v, early, early2, coming, coming2, zero, zero2, one, one2, N, quota
    <3>. QED
      BY <2>2, <3>1, <3>2, <1>3, <1>5
  <2>3. CASE state[g] = 1 /\ g = "interpolation"
    <3>1. v + early < 2 * Required + N + one
      BY <2>3, <1>6 DEF BoundedAt
    <3>2. state'[g] \in {-1, 2}
      BY <1>1, <1>4, <2>3
    <3>3. coming2 <= early + late
      <4>1. ASSUME NEW u \in Coming(g)' PROVE u \in Early(g) \cup Late
        <5>1. u \in Threads /\ u # t /\ ComesTo(u, g)' /\ stage[u] \in {0, 1}
          BY <1>2 DEF Coming, ComesTo, Underway, Types
        <5>2. hook = "interpolation"
          BY <5>1, <2>3, <1>1 DEF WellPlaced, GatesOf, ComesTo
        <5>3. ComesTo(u, g)
          BY <5>1, <5>2, <1>1 DEF ComesTo
        <5>. QED
          BY <5>1, <5>3 DEF Early
      <4>2. coming2 <= Cardinality(Early(g) \cup Late)
        <5>1. Coming(g)' \subseteq Early(g) \cup Late /\ Early(g) \cup Late \subseteq Threads
          BY <4>1 DEF Early
        <5>. QED
          BY <5>1, SmallerPart
      <4>3. Cardinality(Early(g) \cup Late) = early + late - Cardinality(Early(g) \cap Late)
        <5>1. Early(g) \subseteq Threads /\ Late \subseteq Threads
          BY DEF Early
        <5>. HIDE DEF Late
        <5>. QED
          BY <5>1, PartOfThreads, FS_Union
      <4>4. Cardinality(Early(g) \cap Late) = 0
        <5>1. Early(g) \cap Late = {}
          BY DEF Early
        <5>. QED
          BY <5>1, FS_EmptySet
      <4>. HIDE DEF early, late, coming2
      <4>. QED
        BY <4>2, <4>3, <4>4, <1>3
    <3>4. late + one <= N
      <4>1. Late \cap Opening(g, 1) = {} /\ Late \subseteq Threads
        BY DEF ComesTo, Underway, Opening
      <4>. HIDE DEF Late
      <4>. QED
        BY <4>1, PartsTyped, PartsOfThreads
    <3>. HIDE DEF v, early, early2, coming, coming2, zero, zero2, one, one2, N, quota, late
    <3>. QED
      BY <2>3, <3>1, <3>2, <3>3, <3>4, <1>3, <1>5
  <2>4. CASE state[g] = 2
    <3>1. g = "interpolation"
      BY <2>4, <1>4 DEF Stages
    <3>2. v + coming < quota + 2 * N
      BY <2>4, <3>1, <1>6 DEF BoundedAt
    <3>3. state'[g] = -1
      BY <1>1, <1>4, <2>4
    <3>4. coming2 <= coming
      <4>1. ASSUME NEW u \in Coming(g)' PROVE u \in Coming(g)
        <5>1. u \in Threads /\ u # t /\ ComesTo(u, g)'
          BY <1>2 DEF Coming, ComesTo, Underway
        <5>2. hook = "interpolation"
          BY <5>1, <3>1, <1>1 DEF WellPlaced, GatesOf, ComesTo
        <5>. QED
          BY <5>1, <5>2, <1>1 DEF Coming, ComesTo
      <4>2. Coming(g)' \subseteq Coming(g) /\ Coming(g) \subseteq Threads
        BY <4>1 DEF Coming
      <4>. QED
        BY <4>2, SmallerPart
    <3>. HIDE DEF v, early, early2, coming, coming2, zero, zero2, one, one2, N, quota
    <3>. QED
      BY <3>2, <3>3, <3>4, <1>3
  <2>5. CASE state[g] = -1
    BY <1>1, <1>4, <2>5
  <2>. QED
    BY <1>4, <2>1, <2>2, <2>3, <2>4, <2>5
<1>. QED
  BY <1>7 DEF BoundedAt

LEMMA BoundedStep ==
  ASSUME Types, WellPlaced, Claimed, Bounded, NEW t \in Threads, Step(t)
  PROVE  Bounded'
<1>1. ASSUME NEW u \in Threads, stage'[u] = 1 PROVE state'[gate'[u]] # 0
  <2>1. CASE u = t
    BY <1>1, <2>1, CountingStep
  <2>2. CASE u # t
    <3>1. gate'[u] = gate[u] /\ stage'[u] = stage[u] /\ gate[u] \in Gates
      BY <2>2, StepEffect DEF Effect, Types
    <3>. QED
      BY <1>1, <3>1, CountingStep DEF Bounded
  <2>. QED
    BY <2>1, <2>2
<1>2. ASSUME NEW g \in Gates PROVE BoundedAt(g)'
  <2>1. CASE validated'[g] # validated[g]
    BY <2>1, CountingStep, BoundedCount
  <2>2. CASE validated'[g] = validated[g] /\ state'[g] = state[g]
    BY <2>2, BoundedQuietly
  <2>3. CASE validated'[g] = validated[g] /\ state'[g] # state[g]
    BY <2>3, BoundedDecided
  <2>. QED
    BY <2>1, <2>2, <2>3
<1>. QED
  BY <1>1, <1>2, CountingStep DEF Bounded

LEMMA GateNext == GateInv /\ [Next]_vars => GateInv'
<1>. SUFFICES ASSUME GateInv, [Next]_vars PROVE GateInv'
  OBVIOUS
<1>1. CASE UNCHANGED vars
  <2>. USE <1>1 DEF vars, shared, local
  <2>1. Types' /\ WellPlaced' /\ Counted' /\ Prepared' /\ Claimed'
    BY DEF GateInv, Types, WellPlaced, Counted, Prepared, Claimed, Comparing
  <2>2. ObservedLow' /\ MaximumCovers' /\ MismatchCloses'
    BY DEF GateInv, ObservedLow, MaximumCovers, MismatchCloses
  <2>3. \A g : /\ Opening(g, 0)' = Opening(g, 0) /\ Opening(g, 1)' = Opening(g, 1)
              /\ Early(g)' = Early(g) /\ Coming(g)' = Coming(g)
    BY DEF Opening, Early, Coming, ComesTo
  <2>4. Bounded'
    BY <2>3 DEF GateInv, Bounded, BoundedAt
  <2>. QED
    BY <2>1, <2>2, <2>4 DEF GateInv
<1>2. ASSUME NEW t \in Threads, Step(t) PROVE GateInv'
  BY <1>2, TypesStep, WellPlacedStep, CountedStep, PreparedStep, MaximumStep,
     MismatchStep, ClaimedStep, BoundedStep
     DEF GateInv
<1>. QED
  BY <1>1, <1>2 DEF Next, Step

LEMMA GateAlways == Spec => []GateInv
<1>. QED
  BY GateInit, GateNext, PTL DEF Spec

(* What a gate counts is bounded by what it requires, for any number of    *)
(* threads: two calls of each that were under way when it was decided.     *)
THEOREM GateTypeCorrect == Spec => []TypeOK
<1>1. GateInv => TypeOK
  <2>1. SUFFICES ASSUME GateInv, NEW g \in Gates
                 PROVE  validated[g] < Stages(g) * Required + 2 * Cardinality(Threads)
    BY DEF TypeOK, GateInv
  <2>. DEFINE N == Cardinality(Threads)
              v == validated[g]
              early == Cardinality(Early(g))
              coming == Cardinality(Coming(g))
              zero == Cardinality(Opening(g, 0))
              one == Cardinality(Opening(g, 1))
              quota == Stages(g) * Required
  <2>2. /\ v \in Nat /\ Required \in Nat /\ N \in Nat /\ quota \in Nat
        /\ early \in Nat /\ coming \in Nat /\ zero \in Nat /\ one \in Nat
        /\ zero <= N /\ one <= N /\ state[g] \in {-1, 0, 1, 2}
    BY <2>1, PartsTyped, PartOfThreads, GateAssumption DEF GateInv, Types
  <2>3. quota = IF g = "interpolation" THEN 2 * Required ELSE Required
    BY <2>2 DEF Stages
  <2>4. /\ state[g] = 0 => v < Required + zero
        /\ state[g] = 1 /\ g = "interpolation" => v + early < 2 * Required + N + one
        /\ state[g] > 0 /\ g # "interpolation" => v + coming < Required + N
        /\ state[g] = -1 \/ (state[g] = 2 /\ g = "interpolation") =>
             v + coming < quota + 2 * N
    BY <2>1 DEF GateInv, Bounded, BoundedAt
  <2>5. v < quota + 2 * N
    <3>. HIDE DEF v, early, coming, zero, one, N, quota
    <3>. QED
      BY <2>2, <2>3, <2>4
  <2>. QED
    BY <2>5
<1>. QED
  BY <1>1, GateAlways, PTL

(* A closed gate never opens again, for any number of threads that are     *)
(* still on their way to open it.                                          *)
THEOREM NeverReopened == Spec => NeverReopens
<1>1. GateInv /\ [Next]_vars => [\A g \in Gates : state[g] = -1 => state'[g] = -1]_vars
  <2>1. ASSUME GateInv, NEW t \in Threads, Step(t), NEW g \in Gates, state[g] = -1
        PROVE  state'[g] = -1
    <3>1. Effect(t) /\ stage[t] \in {0, 1} /\ Types'
      BY <2>1, StepEffect, TypesStep DEF GateInv, Types
    <3>2. pc[t] = "open" /\ g = gate[t] => state[g] # stage[t]
      BY <2>1, <3>1
    <3>. QED
      BY <2>1, <3>1, <3>2 DEF Effect
  <2>. QED
    BY <2>1 DEF Next, Step
<1>. QED
  BY <1>1, GateAlways, PTL DEF Spec, NeverReopens

(* No call of area, containment, clock or construction runs unchecked code *)
(* before Required calls of its gate were found equal.                     *)
THEOREM AlwaysValidatedFirst == Spec => []TrustedAfterValidation
<1>1. GateInv => TrustedAfterValidation
  BY DEF GateInv, Counted, TrustedAfterValidation
<1>. QED
  BY <1>1, GateAlways, PTL

(* Every mismatch that was counted has closed a gate, or its thread is     *)
(* about to.                                                               *)
THEOREM MismatchAlwaysCloses == Spec => []MismatchCloses
<1>1. GateInv => MismatchCloses
  BY DEF GateInv
<1>. QED
  BY <1>1, GateAlways, PTL

(* sample and octaves take one decision, on exactly Required comparisons:  *)
(* no mismatch comes after the patch goes to the fast code, whatever the   *)
(* number of threads, and the last claim is never left undecided.          *)
THEOREM VerdictAlwaysFinal == Spec => []VerdictIsFinal
<1>1. GateInv => VerdictIsFinal
  <2>1. SUFFICES ASSUME GateInv, hook \in ClaimHooks
                 PROVE  VerdictIsFinal
    BY DEF VerdictIsFinal
  <2>2. /\ validated[hook] \in Nat /\ claims \in Nat /\ Required \in Nat \ {0}
        /\ claims <= Required /\ mismatches \in Nat
        /\ IsFiniteSet(Comparing) /\ Cardinality(Comparing) \in Nat
        /\ validated[hook] + mismatches + Cardinality(Comparing) = claims
    BY <2>1, ClaimFacts, GateAssumption DEF GateInv
  <2>3. ASSUME active \/ \E t \in Threads : pc[t] = "fast"
        PROVE  /\ mismatches = 0
               /\ \A t \in Threads : pc[t] \notin {"compare", "mismatch", "close"}
    <3>1. validated[hook] = Required
      BY <2>1, <2>3 DEF GateInv, Claimed
    <3>2. mismatches = 0 /\ Cardinality(Comparing) = 0
      BY <2>2, <3>1
    <3>3. Comparing = {}
      BY <2>2, <3>2, FS_EmptySet
    <3>. QED
      BY <2>1, <3>2, <3>3 DEF GateInv, Claimed, Comparing
  <2>4. ASSUME claims = Required,
               \A t \in Threads :
                 pc[t] \notin {"compare", "count", "mismatch", "open", "close"}
        PROVE  state[hook] # 0
    <3>1. Comparing = {}
      BY <2>4 DEF Comparing
    <3>2. Cardinality(Comparing) = 0
      BY <3>1, FS_EmptySet
    <3>3. validated[hook] = Required \/ mismatches > 0
      BY <2>2, <2>4, <3>2
    <3>. QED
      BY <2>1, <2>4, <3>3 DEF GateInv, Claimed
  <2>. QED
    BY <2>3, <2>4 DEF VerdictIsFinal
<1>. QED
  BY <1>1, GateAlways, PTL

(* record_maximum never loses an error to a smaller one.                   *)
THEOREM MaximumAlwaysCovers == Spec => []MaximumCovers
<1>1. GateInv => MaximumCovers
  BY DEF GateInv
<1>. QED
  BY <1>1, GateAlways, PTL

(* checked_containment never evaluates without its tables.                 *)
THEOREM TablesAlwaysPrepared == Spec => []TablesPrepared
<1>1. GateInv => TablesPrepared
  BY DEF GateInv, Prepared, TablesPrepared
<1>. QED
  BY <1>1, GateAlways, PTL
=============================================================================
