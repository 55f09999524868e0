---------------------- MODULE CompressionSamplerProofs ----------------------
(***************************************************************************)
(* The sampling of checked_compress, for every number of threads and       *)
(* samples.  The types are not inductive alone: that a slot given back was *)
(* taken, and that a validation does not exceed the limit, rest on the     *)
(* count of slots, so the invariant is carried as a whole.                 *)
(***************************************************************************)
EXTENDS CompressionSampler, FiniteSetTheorems, TLAPS

(* Where in a call a reservation may and must be held.                     *)
HeldInCall ==
  \A t \in Threads :
    /\ pc[t] \in {"compare", "count", "disable", "fall back"} => sample[t]
    /\ pc[t] \in {"idle", "gate", "load", "reserve"} => ~sample[t]
    /\ pc[t] = "count" => candidate[t] = "good"

SamplerInv ==
  /\ TypeOK
  /\ SlotsExact
  /\ HeldInCall
  /\ UncheckedOnlyWhenTrusted
  /\ BadOnlyWhenTrusted

(* The holders are finitely many, and a holder accounts for a slot that no *)
(* validation has spent.                                                   *)
LEMMA HoldersFinite ==
  ASSUME SamplerInv
  PROVE  /\ IsFiniteSet(Holders)
         /\ Cardinality(Holders) \in Nat
         /\ validations <= SampleLimit
         /\ \A t \in Threads :
              sample[t] => slots >= 1 /\ validations < SampleLimit
<1>1. IsFiniteSet(Holders) /\ Cardinality(Holders) \in Nat
  BY SamplerAssumption, FS_Subset, FS_CardinalityType DEF Holders
<1>2. validations <= SampleLimit
  BY <1>1, SamplerAssumption DEF SamplerInv, TypeOK, SlotsExact
<1>3. ASSUME NEW t \in Threads, sample[t]
      PROVE  slots >= 1 /\ validations < SampleLimit
  <2>1. Cardinality(Holders) # 0
    BY <1>1, <1>3, FS_EmptySet DEF Holders
  <2>. QED
    BY <1>1, <2>1, SamplerAssumption DEF SamplerInv, TypeOK, SlotsExact
<1>. QED
  BY <1>1, <1>2, <1>3

(* What the holders are after one thread's reservation changed.            *)
LEMMA HolderLeaves ==
  ASSUME SamplerInv, NEW t \in Threads, sample' = [sample EXCEPT ![t] = FALSE]
  PROVE  Cardinality(Holders') =
           IF sample[t] THEN Cardinality(Holders) - 1 ELSE Cardinality(Holders)
<1>1. Holders' = Holders \ {t}
  BY DEF Holders, SamplerInv, TypeOK
<1>2. t \in Holders <=> sample[t]
  BY DEF Holders
<1>. QED
  BY <1>1, <1>2, HoldersFinite, FS_RemoveElement

LEMMA HolderEnters ==
  ASSUME SamplerInv, NEW t \in Threads, ~sample[t],
         sample' = [sample EXCEPT ![t] = TRUE]
  PROVE  Cardinality(Holders') = Cardinality(Holders) + 1
<1>1. Holders' = Holders \cup {t}
  BY DEF Holders, SamplerInv, TypeOK
<1>2. t \notin Holders
  BY DEF Holders
<1>. QED
  BY <1>1, <1>2, HoldersFinite, FS_AddElement

(* A call that returns, with a reservation to give back or without one.    *)
LEMMA ReturnKeeps ==
  ASSUME SamplerInv, NEW t \in Threads, NEW result \in Outputs,
         Return(t, result),
         result = "bad" => validations = SampleLimit,
         candidate' \in [Threads -> Qualities],
         \A u \in Threads \ {t} : candidate'[u] = candidate[u],
         UNCHANGED <<disabled, validations, seen>>
  PROVE  SamplerInv'
<1>1. /\ pc' = [pc EXCEPT ![t] = "idle"]
      /\ sample' = [sample EXCEPT ![t] = FALSE]
      /\ output' = [output EXCEPT ![t] = result]
      /\ slots' = IF sample[t] THEN slots - 1 ELSE slots
  BY DEF Return, Goto
<1>2. TypeOK'
  <2>1. slots' \in 0..SampleLimit
    BY <1>1, HoldersFinite, SamplerAssumption DEF SamplerInv, TypeOK
  <2>. QED
    BY <1>1, <2>1 DEF SamplerInv, TypeOK, Places
<1>3. SlotsExact'
  <2>1. Cardinality(Holders') =
          IF sample[t] THEN Cardinality(Holders) - 1 ELSE Cardinality(Holders)
    BY <1>1, HolderLeaves
  <2>2. /\ Cardinality(Holders) \in Nat /\ validations \in Nat
        /\ slots = validations + Cardinality(Holders)
    BY HoldersFinite DEF SamplerInv, TypeOK, SlotsExact
  <2>3. slots' = validations + Cardinality(Holders')
    BY <1>1, <2>1, <2>2
  <2>. QED
    BY <2>3 DEF SlotsExact
<1>4. HeldInCall'
  BY <1>1 DEF SamplerInv, TypeOK, HeldInCall
<1>5. UncheckedOnlyWhenTrusted'
  BY <1>1 DEF SamplerInv, TypeOK, UncheckedOnlyWhenTrusted
<1>6. BadOnlyWhenTrusted'
  BY <1>1 DEF SamplerInv, TypeOK, BadOnlyWhenTrusted
<1>. QED
  BY <1>2, <1>3, <1>4, <1>5, <1>6 DEF SamplerInv

LEMMA ReturnNativeKeeps ==
  ASSUME SamplerInv, NEW t \in Threads, ReturnNative(t),
         UNCHANGED <<disabled, validations, seen, candidate>>
  PROVE  SamplerInv'
<1>1. PICK result \in {"native", "failure", "exception"} : Return(t, result)
  BY DEF ReturnNative
<1>2. result \in Outputs /\ result # "bad"
  BY DEF Outputs
<1>3. candidate' \in [Threads -> Qualities]
  BY DEF SamplerInv, TypeOK
<1>. QED
  BY <1>1, <1>2, <1>3, ReturnKeeps

(* A step that only moves a thread, and perhaps refreshes its local slots. *)
LEMMA MoveKeeps ==
  ASSUME SamplerInv, NEW t \in Threads, NEW place \in Places, Goto(t, place),
         seen' \in [Threads -> 0..SampleLimit],
         disabled' \in BOOLEAN,
         UNCHANGED <<validations, slots, sample, candidate, output>>,
         place \in {"compare", "count", "disable", "fall back"} => sample[t],
         place \in {"idle", "gate", "load", "reserve"} => ~sample[t],
         place = "count" => candidate[t] = "good",
         (place = "compress" /\ ~sample[t]) => validations = SampleLimit
  PROVE  SamplerInv'
<1>1. pc' = [pc EXCEPT ![t] = place]
  BY DEF Goto
<1>2. TypeOK'
  BY <1>1 DEF SamplerInv, TypeOK
<1>3. SlotsExact'
  BY DEF SamplerInv, SlotsExact, Holders
<1>4. HeldInCall'
  BY <1>1 DEF SamplerInv, TypeOK, HeldInCall
<1>5. UncheckedOnlyWhenTrusted'
  BY <1>1 DEF SamplerInv, TypeOK, UncheckedOnlyWhenTrusted
<1>6. BadOnlyWhenTrusted'
  BY DEF SamplerInv, BadOnlyWhenTrusted
<1>. QED
  BY <1>2, <1>3, <1>4, <1>5, <1>6 DEF SamplerInv

-----------------------------------------------------------------------------
LEMMA SamplerInit == Init => SamplerInv
<1>. SUFFICES ASSUME Init PROVE SamplerInv
  OBVIOUS
<1>1. Holders = {}
  BY DEF Init, Holders
<1>2. Cardinality(Holders) = 0
  BY <1>1, FS_EmptySet
<1>3. TypeOK
  <2>1. "idle" \in Places /\ "good" \in Qualities /\ "native" \in Outputs
    BY DEF Places, Qualities, Outputs
  <2>2. 0 \in 0..SampleLimit
    BY SamplerAssumption
  <2>3. disabled \in BOOLEAN /\ sample \in [Threads -> BOOLEAN]
    BY DEF Init
  <2>. QED
    BY <2>1, <2>2, <2>3 DEF Init, TypeOK
<1>4. SlotsExact
  BY <1>2 DEF Init, SlotsExact
<1>5. HeldInCall /\ UncheckedOnlyWhenTrusted /\ BadOnlyWhenTrusted
  BY DEF Init, HeldInCall, UncheckedOnlyWhenTrusted, BadOnlyWhenTrusted
<1>. QED
  BY <1>3, <1>4, <1>5 DEF SamplerInv

(* The step that takes a slot.                                             *)
LEMMA ReserveKeeps ==
  ASSUME SamplerInv, NEW t \in Threads, Reserve(t)
  PROVE  SamplerInv'
<1>1. /\ pc[t] = "reserve"
      /\ slots' = slots + 1 /\ slots < SampleLimit
      /\ sample' = [sample EXCEPT ![t] = TRUE]
      /\ pc' = [pc EXCEPT ![t] = "compress"]
      /\ UNCHANGED <<disabled, validations, seen, candidate, output>>
  BY DEF Reserve, Goto
<1>2. ~sample[t]
  BY <1>1 DEF SamplerInv, HeldInCall
<1>3. TypeOK'
  <2>1. slots' \in 0..SampleLimit
    BY <1>1, SamplerAssumption DEF SamplerInv, TypeOK
  <2>. QED
    BY <1>1, <2>1 DEF SamplerInv, TypeOK, Places
<1>4. SlotsExact'
  <2>1. Cardinality(Holders') = Cardinality(Holders) + 1
    BY <1>1, <1>2, HolderEnters
  <2>2. /\ Cardinality(Holders) \in Nat /\ validations \in Nat
        /\ slots = validations + Cardinality(Holders)
    BY HoldersFinite DEF SamplerInv, TypeOK, SlotsExact
  <2>3. slots' = validations' + Cardinality(Holders')
    BY <1>1, <2>1, <2>2
  <2>. QED
    BY <2>3 DEF SlotsExact
<1>5. HeldInCall'
  BY <1>1 DEF SamplerInv, TypeOK, HeldInCall
<1>6. UncheckedOnlyWhenTrusted'
  BY <1>1 DEF SamplerInv, TypeOK, UncheckedOnlyWhenTrusted
<1>7. BadOnlyWhenTrusted'
  BY <1>1 DEF SamplerInv, TypeOK, BadOnlyWhenTrusted
<1>. QED
  BY <1>3, <1>4, <1>5, <1>6, <1>7 DEF SamplerInv

(* The step that turns a slot into a validation.                           *)
LEMMA CountKeeps ==
  ASSUME SamplerInv, NEW t \in Threads, Count(t)
  PROVE  SamplerInv'
<1>1. PICK result \in {candidate[t], "exception"} :
        /\ pc[t] = "count"
        /\ validations' = validations + 1
        /\ sample' = [sample EXCEPT ![t] = FALSE]
        /\ output' = [output EXCEPT ![t] = result]
        /\ pc' = [pc EXCEPT ![t] = "idle"]
        /\ UNCHANGED <<disabled, slots, seen, candidate>>
  BY DEF Count, Goto
<1>2. sample[t] /\ candidate[t] = "good"
  BY <1>1 DEF SamplerInv, HeldInCall
<1>3. result \in Outputs /\ result # "bad"
  BY <1>1, <1>2 DEF Outputs, Qualities
<1>4. validations < SampleLimit
  BY <1>2, HoldersFinite
<1>5. TypeOK'
  <2>1. validations' \in Nat
    BY <1>1 DEF SamplerInv, TypeOK
  <2>2. pc' \in [Threads -> Places] /\ sample' \in [Threads -> BOOLEAN]
    BY <1>1 DEF SamplerInv, TypeOK, Places
  <2>3. output' \in [Threads -> Outputs]
    BY <1>1, <1>3 DEF SamplerInv, TypeOK
  <2>. QED
    BY <1>1, <2>1, <2>2, <2>3 DEF SamplerInv, TypeOK
<1>6. SlotsExact'
  <2>1. Cardinality(Holders') = Cardinality(Holders) - 1
    BY <1>1, <1>2, HolderLeaves
  <2>2. /\ Cardinality(Holders) \in Nat /\ validations \in Nat
        /\ slots = validations + Cardinality(Holders)
    BY HoldersFinite DEF SamplerInv, TypeOK, SlotsExact
  <2>3. slots' = validations' + Cardinality(Holders')
    BY <1>1, <2>1, <2>2
  <2>. QED
    BY <2>3 DEF SlotsExact
<1>7. HeldInCall'
  BY <1>1 DEF SamplerInv, TypeOK, HeldInCall
<1>8. UncheckedOnlyWhenTrusted'
  BY <1>1, <1>4 DEF SamplerInv, TypeOK, UncheckedOnlyWhenTrusted
<1>9. BadOnlyWhenTrusted'
  BY <1>1, <1>3, <1>4 DEF SamplerInv, TypeOK, BadOnlyWhenTrusted
<1>. QED
  BY <1>5, <1>6, <1>7, <1>8, <1>9 DEF SamplerInv

(* A call that was not checked returns what it compressed; a sample keeps  *)
(* it for the comparison.                                                  *)
LEMMA CompressKeeps ==
  ASSUME SamplerInv, NEW t \in Threads, Compress(t)
  PROVE  SamplerInv'
<1>1. PICK quality \in Qualities :
        /\ candidate' = [candidate EXCEPT ![t] = quality]
        /\ IF sample[t]
             THEN Goto(t, "compare") /\ UNCHANGED <<slots, sample, output>>
             ELSE Return(t, quality)
  BY DEF Compress
<1>2. pc[t] = "compress" /\ UNCHANGED <<disabled, validations, seen>>
  BY DEF Compress
<1>3. /\ candidate' \in [Threads -> Qualities]
      /\ \A u \in Threads \ {t} : candidate'[u] = candidate[u]
  BY <1>1 DEF SamplerInv, TypeOK
<1>4. CASE ~sample[t]
  <2>1. validations = SampleLimit
    BY <1>2, <1>4 DEF SamplerInv, UncheckedOnlyWhenTrusted
  <2>2. quality \in Outputs
    BY DEF Outputs
  <2>. QED
    BY <1>1, <1>2, <1>3, <1>4, <2>1, <2>2, ReturnKeeps
<1>5. CASE sample[t]
  <2>1. /\ pc' = [pc EXCEPT ![t] = "compare"]
        /\ UNCHANGED <<slots, sample, output>>
    BY <1>1, <1>5 DEF Goto
  <2>2. TypeOK'
    BY <1>2, <1>3, <2>1 DEF SamplerInv, TypeOK, Places
  <2>3. SlotsExact'
    BY <1>2, <2>1 DEF SamplerInv, SlotsExact, Holders
  <2>4. HeldInCall'
    BY <1>3, <1>5, <2>1 DEF SamplerInv, TypeOK, HeldInCall
  <2>5. UncheckedOnlyWhenTrusted' /\ BadOnlyWhenTrusted'
    BY <1>2, <2>1 DEF SamplerInv, TypeOK, UncheckedOnlyWhenTrusted, BadOnlyWhenTrusted
  <2>. QED
    BY <2>2, <2>3, <2>4, <2>5 DEF SamplerInv
<1>. QED
  BY <1>4, <1>5

LEMMA SamplerNext == SamplerInv /\ [Next]_vars => SamplerInv'
<1>. SUFFICES ASSUME SamplerInv, [Next]_vars PROVE SamplerInv'
  OBVIOUS
<1>1. CASE UNCHANGED vars
  BY <1>1 DEF vars, shared, local, SamplerInv, TypeOK, SlotsExact, HeldInCall, Holders,
              UncheckedOnlyWhenTrusted, BadOnlyWhenTrusted
<1>2. ASSUME NEW t \in Threads, Step(t)
      PROVE  SamplerInv'
  <2>1. CASE CallNative(t)
    BY <2>1, ReturnNativeKeeps DEF CallNative
  <2>2. CASE Call(t)
    <3>1. ~sample[t]
      BY <2>2 DEF Call, SamplerInv, HeldInCall
    <3>. QED
      BY <2>2, <3>1, MoveKeeps DEF Call, shared, SamplerInv, TypeOK, Places
  <2>3. CASE ReadValidations(t)
    <3>1. ~sample[t]
      BY <2>3 DEF ReadValidations, SamplerInv, HeldInCall
    <3>2. UNCHANGED <<disabled, validations, slots, seen, sample, candidate, output>>
      BY <2>3 DEF ReadValidations, shared
    <3>3. seen' \in [Threads -> 0..SampleLimit] /\ disabled' \in BOOLEAN
      BY <3>2 DEF SamplerInv, TypeOK
    <3>4. CASE validations < SampleLimit
      <4>1. Goto(t, "load") /\ "load" \in Places
        BY <2>3, <3>4 DEF ReadValidations, Places
      <4>. QED
        BY <3>1, <3>2, <3>3, <4>1, MoveKeeps
    <3>5. CASE ~(validations < SampleLimit)
      <4>1. Goto(t, "compress") /\ "compress" \in Places
        BY <2>3, <3>5 DEF ReadValidations, Places
      <4>2. validations = SampleLimit
        BY <3>5, HoldersFinite, SamplerAssumption DEF SamplerInv, TypeOK
      <4>. QED
        BY <3>1, <3>2, <3>3, <4>1, <4>2, MoveKeeps
    <3>. QED
      BY <3>4, <3>5
  <2>4. CASE LoadSlots(t)
    <3>1. ~sample[t]
      BY <2>4 DEF LoadSlots, SamplerInv, HeldInCall
    <3>. QED
      BY <2>4, <3>1, MoveKeeps DEF LoadSlots, shared, SamplerInv, TypeOK, Places
  <2>5. CASE Reserve(t)
    BY <2>5, ReserveKeeps
  <2>6. CASE ReserveAgain(t)
    <3>1. ~sample[t] /\ Goto(t, pc[t]) /\ pc[t] = "reserve"
      BY <2>6 DEF ReserveAgain, Goto, SamplerInv, TypeOK, HeldInCall
    <3>. QED
      BY <2>6, <3>1, MoveKeeps DEF ReserveAgain, shared, SamplerInv, TypeOK, Places
  <2>7. CASE NoSlot(t)
    BY <2>7, ReturnNativeKeeps DEF NoSlot
  <2>8. CASE Compress(t)
    BY <2>8, CompressKeeps
  <2>9. CASE CompressFails(t)
    BY <2>9, ReturnNativeKeeps DEF CompressFails
  <2>10. CASE Accept(t)
    <3>1. sample[t] /\ candidate[t] = "good"
      BY <2>10 DEF Accept, SamplerInv, HeldInCall
    <3>. QED
      BY <2>10, <3>1, MoveKeeps DEF Accept, shared, SamplerInv, TypeOK, Places
  <2>11. CASE Count(t)
    BY <2>11, CountKeeps
  <2>12. CASE Reject(t)
    <3>1. sample[t]
      BY <2>12 DEF Reject, SamplerInv, HeldInCall
    <3>. QED
      BY <2>12, <3>1, MoveKeeps DEF Reject, shared, SamplerInv, TypeOK, Places
  <2>13. CASE Disable(t)
    <3>1. sample[t]
      BY <2>13 DEF Disable, SamplerInv, HeldInCall
    <3>. QED
      BY <2>13, <3>1, MoveKeeps DEF Disable, SamplerInv, TypeOK, Places
  <2>14. CASE FallBack(t)
    BY <2>14, ReturnNativeKeeps DEF FallBack
  <2>15. CASE Throw(t)
    <3>1. "exception" \in Outputs /\ candidate' \in [Threads -> Qualities]
      BY <2>15 DEF Throw, Outputs, SamplerInv, TypeOK
    <3>. QED
      BY <2>15, <3>1, ReturnKeeps DEF Throw
  <2>. QED
    BY <1>2, <2>1, <2>2, <2>3, <2>4, <2>5, <2>6, <2>7, <2>8, <2>9, <2>10, <2>11,
       <2>12, <2>13, <2>14, <2>15 DEF Step
<1>. QED
  BY <1>1, <1>2 DEF Next

LEMMA SamplerAlways == Spec => []SamplerInv
<1>. QED
  BY SamplerInit, SamplerNext, PTL DEF Spec

-----------------------------------------------------------------------------
(* sample_slots counts what it should and stays within the limit.          *)
THEOREM SamplerTypeCorrect == Spec => []TypeOK
<1>1. SamplerInv => TypeOK
  BY DEF SamplerInv
<1>. QED
  BY <1>1, SamplerAlways, PTL

(* No path through a sample leaks a slot or gives one back twice.          *)
THEOREM SlotsAlwaysExact == Spec => []SlotsExact
<1>1. SamplerInv => SlotsExact
  BY DEF SamplerInv
<1>. QED
  BY <1>1, SamplerAlways, PTL

(* A call compresses unchecked only after all the samples have passed.     *)
THEOREM AlwaysCheckedUntilTrusted == Spec => []UncheckedOnlyWhenTrusted
<1>1. SamplerInv => UncheckedOnlyWhenTrusted
  BY DEF SamplerInv
<1>. QED
  BY <1>1, SamplerAlways, PTL

(* Until then LevelDB never gets bytes the server could not read back.     *)
THEOREM BadAlwaysCaught == Spec => []BadOnlyWhenTrusted
<1>1. SamplerInv => BadOnlyWhenTrusted
  BY DEF SamplerInv
<1>. QED
  BY <1>1, SamplerAlways, PTL
=============================================================================
