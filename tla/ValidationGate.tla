--------------------------- MODULE ValidationGate ---------------------------
(***************************************************************************)
(* The gates of the hooks that compare themselves with the native code     *)
(* before they are trusted: area, containment, clock, the two modes of     *)
(* noise construction, shuffle, and the three dormant hooks of noise       *)
(* sampling (sample, octaves, interpolation), which onLoad does not        *)
(* install.  A gate is 0 while calls are compared, 1 once the fast code is *)
(* trusted, -1 once it is disabled.  Interpolation has one stage more: 1   *)
(* once its kernel is trusted, 2 once its cache is too.                    *)
(*                                                                         *)
(* The hooks share nothing, so a behaviour is about one of them (hook).    *)
(* Any thread may call; one step is one access to a shared atomic.  Calls  *)
(* a hook does not apply to (eligible, an unknown generator) run the       *)
(* native code, touch nothing of this, and are left out.                   *)
(*                                                                         *)
(* A definition whose comment starts with "Slip:" is no part of the model. *)
(***************************************************************************)
EXTENDS Integers, FiniteSets

CONSTANTS
  Threads,      \* the server's threads
  Required,     \* kValidationCalls, kRequiredValidations
  Allowed       \* kMaximumAllowedErrorNs

ASSUME GateAssumption ==
  /\ IsFiniteSet(Threads)
  /\ Required \in Nat \ {0}
  /\ Allowed \in Nat

Hooks == {"area", "containment", "clock", "construction", "shuffle",
          "sample", "octaves", "interpolation"}
ReadOnceHooks == {"containment", "clock"}
ClaimHooks == {"sample", "octaves"}     \* a call claims a comparison first
GatesOf(h) == IF h = "construction" THEN {"mode zero", "positional"} ELSE {h}
Gates == UNION {GatesOf(h) : h \in Hooks}
Stages(h) == IF h = "interpolation" THEN 2 ELSE 1     \* the state of trust
Errors == 0 .. Allowed + 1      \* how far the two clocks may be apart

VARIABLES
  hook,         \* the hook this behaviour is about
  state,        \* validation_state, state, positional_state, verification
  validated,    \* validations, mode_zero_validations, positional_validations
  mismatches,   \* mismatches
  maximum,      \* the clock's maximum_error
  tables,       \* containment's tables_once has been called
  claims,       \* validation_claims, as far as the limit
  active,       \* active_octaves, active_sample: the patch goes to the fast code
  pc,           \* where each thread is
  gate,         \* the gate of its call
  error,        \* the error of its last comparison of clocks
  observed,     \* its local observed in record_maximum
  verdict,      \* its last comparison of shuffles: the local state
  stage         \* interpolation's local state: what it compares

shared == <<hook, state, validated, mismatches, maximum, tables, claims, active>>
private == <<gate, error, observed, verdict, stage>>
local == <<pc, private>>
vars == <<shared, local>>

(* The places in a hook, named for what comes next.                        *)
Places == {"idle", "read", "read again", "claim", "fast", "compare",
           "load maximum", "raise maximum", "count", "open", "activate",
           "mismatch", "close", "publish", "reload"}

Types ==
  /\ hook \in Hooks
  /\ state \in [Gates -> {-1, 0, 1, 2}]
  /\ validated \in [Gates -> Nat]
  /\ mismatches \in Nat
  /\ maximum \in Errors
  /\ tables \in BOOLEAN
  /\ claims \in 0 .. Required
  /\ active \in BOOLEAN
  /\ pc \in [Threads -> Places]
  /\ gate \in [Threads -> Gates]
  /\ error \in [Threads -> Errors]
  /\ observed \in [Threads -> Errors]
  /\ verdict \in [Threads -> {-1, 1}]
  /\ stage \in [Threads -> {0, 1}]

(* Comparing stops when the gate opens or closes.  Each thread may still   *)
(* count the call it was in, and in checked_area, whose second read takes  *)
(* -1 for 0, one more when an open gate closes.                            *)
TypeOK ==
  /\ Types
  /\ \A g \in Gates : validated[g] < Stages(g) * Required + 2 * Cardinality(Threads)

Init ==
  /\ hook \in Hooks
  /\ state = [g \in Gates |-> 0]
  /\ validated = [g \in Gates |-> 0]
  /\ mismatches = 0
  /\ maximum = 0
  /\ tables = FALSE
  /\ claims = 0
  /\ active = FALSE
  /\ pc = [t \in Threads |-> "idle"]
  /\ gate \in [Threads -> GatesOf(hook)]
  /\ error = [t \in Threads |-> 0]
  /\ observed = [t \in Threads |-> 0]
  /\ verdict = [t \in Threads |-> 1]
  /\ stage = [t \in Threads |-> 0]

Goto(t, place) == pc' = [pc EXCEPT ![t] = place]
State(t) == state[gate[t]]

-----------------------------------------------------------------------------
(* The hook is called; construction's mode says which gate is asked, and   *)
(* the patch of sample and octaves jumps where the pointer says.           *)
Call(t) ==
  /\ pc[t] = "idle"
  /\ \E g \in GatesOf(hook) : gate' = [gate EXCEPT ![t] = g]
  /\ stage' = [stage EXCEPT ![t] = 0]
  /\ Goto(t, IF active THEN "fast" ELSE "read")
  /\ UNCHANGED <<shared, error, observed, verdict>>

(* A step that only reads the gate.                                        *)
Reads(t, here, there) ==
  /\ pc[t] = here
  /\ Goto(t, there)
  /\ UNCHANGED <<shared, private>>

(* Trusted, disabled or still compared.                                    *)
Asked(t) == IF State(t) > 0 THEN "fast" ELSE IF State(t) < 0 THEN "idle" ELSE "compare"

(* checked_containment, checked_clock: the gate is read once.              *)
ReadOnce(t) ==
  /\ hook \in ReadOnceHooks
  /\ Reads(t, "read", Asked(t))

(* checked_area reads it once for -1 and once more for 1.                  *)
ReadArea(t) ==
  /\ hook = "area"
  /\ Reads(t, "read", IF State(t) = -1 THEN "idle" ELSE "read again")

ReadAreaAgain(t) ==
  /\ hook = "area"
  /\ Reads(t, "read again", IF State(t) = 1 THEN "fast" ELSE "compare")

(* direct_constructor reads it for 1, and for -1 after the native call.    *)
ReadConstruction(t) ==
  /\ hook = "construction"
  /\ Reads(t, "read", IF State(t) = 1 THEN "fast" ELSE "read again")

ReadConstructionAgain(t) ==
  /\ hook = "construction"
  /\ Reads(t, "read again", IF State(t) = -1 THEN "idle" ELSE "compare")

ReadShuffle(t) ==
  /\ hook = "shuffle"
  /\ Reads(t, "read", Asked(t))

(* checked_sample, checked_octaves: what is to be compared is claimed.     *)
ReadClaimed(t) ==
  /\ hook \in ClaimHooks
  /\ Reads(t, "read", IF State(t) = 0 THEN "claim" ELSE Asked(t))

(* Slip: the claims are not limited.                                       *)
ClaimUnlimited(t) ==
  /\ pc[t] = "claim"
  /\ claims' = IF claims < Required THEN claims + 1 ELSE claims
  /\ Goto(t, "compare")
  /\ UNCHANGED <<hook, state, validated, mismatches, maximum, tables, active, private>>

(* validation_claims.fetch_add: only so many calls are ever compared.      *)
Claim(t) ==
  /\ pc[t] = "claim"
  /\ claims' = IF claims < Required THEN claims + 1 ELSE claims
  /\ Goto(t, IF claims < Required THEN "compare" ELSE "idle")
  /\ UNCHANGED <<hook, state, validated, mismatches, maximum, tables, active, private>>

(* checked_multi reads the gate once and keeps what it has read: before    *)
(* its native call, the comparison and the count.                          *)
ReadInterpolation(t) ==
  /\ hook = "interpolation"
  /\ pc[t] = "read"
  /\ stage' = [stage EXCEPT ![t] = IF State(t) = 1 THEN 1 ELSE 0]
  /\ Goto(t, IF State(t) = 1 THEN "compare" ELSE Asked(t))
  /\ UNCHANGED <<shared, gate, error, observed, verdict>>

(* The fast code answers.                                                  *)
Fast(t) == Reads(t, "fast", "idle")

(* run_candidate fails: the gate is closed, whatever it was, and the       *)
(* native constructor answers.                                             *)
CandidateFails(t) ==
  /\ hook = "construction"
  /\ pc[t] = "fast"
  /\ state' = [state EXCEPT ![gate[t]] = -1]
  /\ Goto(t, "idle")
  /\ UNCHANGED <<hook, validated, mismatches, maximum, tables, claims, active,
                 private>>

-----------------------------------------------------------------------------
(* std::call_once(tables_once, prepare_tables), which may throw: the next  *)
(* call tries again.                                                       *)
PrepareTables(t) ==
  /\ hook = "containment"
  /\ pc[t] = "compare"
  /\ ~tables
  /\ tables' = TRUE
  /\ UNCHANGED <<hook, state, validated, mismatches, maximum, claims, active, local>>

PrepareThrows(t) ==
  /\ hook = "containment"
  /\ ~tables
  /\ Reads(t, "compare", "idle")

(* Slip: containment is compared before its tables are there.              *)
CompareUnprepared(t) ==
  /\ hook \notin {"clock", "shuffle"}
  /\ \E result \in {"count", "mismatch"} : Reads(t, "compare", result)

(* The candidate's output is compared with the native one, bit for bit.    *)
Compare(t) ==
  /\ hook \notin {"clock", "shuffle"}
  /\ hook = "containment" => tables
  /\ \E result \in {"count", "mismatch"} : Reads(t, "compare", result)

(* The two clocks are read, one after the other.                           *)
CompareClocks(t) ==
  /\ hook = "clock"
  /\ pc[t] = "compare"
  /\ \E e \in Errors : error' = [error EXCEPT ![t] = e]
  /\ Goto(t, "load maximum")
  /\ UNCHANGED <<shared, gate, observed, verdict, stage>>

LoadMaximum(t) ==
  /\ pc[t] = "load maximum"
  /\ observed' = [observed EXCEPT ![t] = maximum]
  /\ Goto(t, "raise maximum")
  /\ UNCHANGED <<shared, gate, error, verdict, stage>>

(* Where the clock goes after record_maximum.                              *)
Judged(t) == IF error[t] > Allowed THEN "mismatch" ELSE "count"

(* Slip: the maximum is stored, not compared and exchanged.                *)
RaiseByStore(t) ==
  /\ pc[t] = "raise maximum"
  /\ observed[t] < error[t]
  /\ maximum' = error[t]
  /\ Goto(t, Judged(t))
  /\ UNCHANGED <<hook, state, validated, mismatches, tables, claims, active,
                 private>>

RaiseMaximum(t) ==
  /\ pc[t] = "raise maximum"
  /\ observed[t] < error[t]
  /\ maximum = observed[t]
  /\ maximum' = error[t]
  /\ Goto(t, Judged(t))
  /\ UNCHANGED <<hook, state, validated, mismatches, tables, claims, active,
                 private>>

(* The exchange fails and loads what the maximum is now.                   *)
RaiseAgain(t) ==
  /\ pc[t] = "raise maximum"
  /\ observed[t] < error[t]
  /\ maximum # observed[t]
  /\ observed' = [observed EXCEPT ![t] = maximum]
  /\ UNCHANGED <<shared, pc, gate, error, verdict, stage>>

MaximumHigher(t) ==
  /\ observed[t] >= error[t]
  /\ Reads(t, "raise maximum", Judged(t))

-----------------------------------------------------------------------------
(* Slip: the construction modes count together.                            *)
CountTogether(t) ==
  LET counted == validated["mode zero"] + validated["positional"] + 1 IN
  /\ pc[t] = "count"
  /\ validated' = [validated EXCEPT ![gate[t]] = @ + 1]
  /\ Goto(t, IF counted >= Required THEN "open" ELSE "idle")
  /\ UNCHANGED <<hook, state, mismatches, maximum, tables, claims, active,
                 private>>

(* What lets a call open the gate: where comparisons are claimed, being    *)
(* the last of them; elsewhere, enough of them for its stage.              *)
Enough(t, counted) ==
  IF hook \in ClaimHooks
    THEN counted = Required
    ELSE counted >= (stage[t] + 1) * Required

(* validations.fetch_add of a call whose outputs were equal.               *)
Count(t) ==
  /\ pc[t] = "count"
  /\ validated' = [validated EXCEPT ![gate[t]] = @ + 1]
  /\ Goto(t, IF Enough(t, validated'[gate[t]]) THEN "open" ELSE "idle")
  /\ UNCHANGED <<hook, state, mismatches, maximum, tables, claims, active,
                 private>>

(* Slip: the gate is opened by a store.                                    *)
OpenByStore(t) ==
  /\ pc[t] = "open"
  /\ state' = [state EXCEPT ![gate[t]] = 1]
  /\ Goto(t, "idle")
  /\ UNCHANGED <<hook, validated, mismatches, maximum, tables, claims, active,
                 private>>

(* Slip: the exchange expects the gate to be open already.                 *)
OpenNever(t) ==
  /\ pc[t] = "open"
  /\ Goto(t, "idle")
  /\ UNCHANGED <<shared, private>>

(* compare_exchange_strong of the stage by the next: 0 by 1, 1 by 2.       *)
Open(t) ==
  /\ pc[t] = "open"
  /\ state' = [state EXCEPT ![gate[t]] = IF @ = stage[t] THEN stage[t] + 1 ELSE @]
  /\ Goto(t, IF hook \in ClaimHooks /\ State(t) = 0 THEN "activate" ELSE "idle")
  /\ UNCHANGED <<hook, validated, mismatches, maximum, tables, claims, active,
                 private>>

(* The exchange succeeded: the patch of sample or octaves jumps to the     *)
(* fast code from now on, past the gate.                                   *)
Activate(t) ==
  /\ pc[t] = "activate"
  /\ active' = TRUE
  /\ Goto(t, "idle")
  /\ UNCHANGED <<hook, state, validated, mismatches, maximum, tables, claims, private>>

CountMismatch(t) ==
  /\ pc[t] = "mismatch"
  /\ mismatches' = mismatches + 1
  /\ Goto(t, "close")
  /\ UNCHANGED <<hook, state, validated, maximum, tables, claims, active,
                 private>>

(* Slip: an exchange of 0 by -1, like the one that opens.                  *)
CloseIfComparing(t) ==
  /\ pc[t] = "close"
  /\ state' = [state EXCEPT ![gate[t]] = IF @ = 0 THEN -1 ELSE @]
  /\ Goto(t, "idle")
  /\ UNCHANGED <<hook, validated, mismatches, maximum, tables, claims, active,
                 private>>

Close(t) ==
  /\ pc[t] = "close"
  /\ state' = [state EXCEPT ![gate[t]] = -1]
  /\ Goto(t, "idle")
  /\ UNCHANGED <<hook, validated, mismatches, maximum, tables, claims, active,
                 private>>

-----------------------------------------------------------------------------
(* verify_xoroshiro compares 256 draws and the generator's final state.    *)
CompareShuffles(t) ==
  /\ hook = "shuffle"
  /\ pc[t] = "compare"
  /\ \E v \in {-1, 1} : verdict' = [verdict EXCEPT ![t] = v]
  /\ Goto(t, "publish")
  /\ UNCHANGED <<shared, gate, error, observed, stage>>

(* The first verdict is everybody's.                                       *)
Publish(t) ==
  /\ pc[t] = "publish"
  /\ state' = [state EXCEPT ![gate[t]] = IF @ = 0 THEN verdict[t] ELSE @]
  /\ Goto(t, "reload")
  /\ UNCHANGED <<hook, validated, mismatches, maximum, tables, claims, active,
                 private>>

Reload(t) ==
  Reads(t, "reload", IF State(t) = 1 THEN "fast" ELSE "idle")

-----------------------------------------------------------------------------
ReadStep(t) ==
  \/ ReadOnce(t)
  \/ ReadArea(t)
  \/ ReadAreaAgain(t)
  \/ ReadConstruction(t)
  \/ ReadConstructionAgain(t)
  \/ ReadShuffle(t)
  \/ ReadClaimed(t)
  \/ Claim(t)
  \/ ReadInterpolation(t)
  \/ Fast(t)
  \/ CandidateFails(t)

CompareStep(t) ==
  \/ PrepareTables(t)
  \/ PrepareThrows(t)
  \/ Compare(t)
  \/ CompareClocks(t)
  \/ LoadMaximum(t)
  \/ RaiseMaximum(t)
  \/ RaiseAgain(t)
  \/ MaximumHigher(t)
  \/ CompareShuffles(t)

DecideStep(t) ==
  \/ Count(t)
  \/ Open(t)
  \/ Activate(t)
  \/ CountMismatch(t)
  \/ Close(t)
  \/ Publish(t)
  \/ Reload(t)

Next == \E t \in Threads : Call(t) \/ ReadStep(t) \/ CompareStep(t) \/ DecideStep(t)
Spec == Init /\ [][Next]_vars

-----------------------------------------------------------------------------
(* A closed gate stays closed, though threads that compared before may     *)
(* still be on their way to open it.                                       *)
NeverReopens == [][\A g \in Gates : state[g] = -1 => state'[g] = -1]_vars

(* No call uses the fast code before the required number of calls of its   *)
(* own gate were compared and found equal, for each stage of the trust.    *)
TrustedAfterValidation ==
  hook # "shuffle" =>
    /\ \A g \in Gates : state[g] > 0 => validated[g] >= state[g] * Required
    /\ \A t \in Threads :
         pc[t] = "fast" => validated[gate[t]] >= Stages(hook) * Required

(* sample and octaves decide once, on exactly the comparisons they claim:  *)
(* once a call goes to the fast code, which no gate can stop any more, no  *)
(* comparison was or will be found unequal; and when all claims are used   *)
(* up, and nobody is left to decide, the decision has been taken.          *)
VerdictIsFinal ==
  hook \in ClaimHooks =>
    /\ (active \/ \E t \in Threads : pc[t] = "fast") =>
         /\ mismatches = 0
         /\ \A t \in Threads : pc[t] \notin {"compare", "mismatch", "close"}
    /\ (/\ claims = Required
        /\ \A t \in Threads :
             pc[t] \notin {"compare", "count", "mismatch", "open", "close"})
         => state[hook] # 0

(* A mismatch closes a gate even if it was opened meanwhile: once the call *)
(* that found it has returned, onDisable's "disabled after" is true.       *)
MismatchCloses ==
  mismatches > Cardinality({t \in Threads : pc[t] = "close"}) =>
    \E g \in Gates : state[g] = -1

(* The maximum that onDisable logs covers every comparison that is past    *)
(* record_maximum, whichever threads raised it at once.                    *)
MaximumCovers ==
  \A t \in Threads :
    pc[t] \notin {"load maximum", "raise maximum"} => error[t] <= maximum

(* A thread that trusts containment finds its tables, though another may   *)
(* have prepared them.                                                     *)
TablesPrepared ==
  hook = "containment" => \A t \in Threads : pc[t] \in {"fast", "count"} => tables

(* docs/native-compatibility.md: a "failed comparison uses the original    *)
(* virtual calls" - a call whose own comparison has just failed does not   *)
(* go on to shuffle by itself.                                             *)
FailedComparisonFallsBack ==
  [][ \A t \in Threads :
        (pc[t] = "reload" /\ verdict[t] = -1) => pc'[t] # "fast" ]_vars
=============================================================================
