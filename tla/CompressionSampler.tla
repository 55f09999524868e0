------------------------- MODULE CompressionSampler -------------------------
(***************************************************************************)
(* checked_compress (compression/zlib/leveldb_optimizer.cpp): LevelDB's    *)
(* compression helper, replaced by zlib-ng.  Until SampleLimit candidates  *)
(* have been decoded by the server itself, a call either holds one of the  *)
(* sample slots and is checked, or compresses natively; a mismatch turns   *)
(* the candidate off.                                                      *)
(*                                                                         *)
(* Any thread may call.  One step is one access to a shared atomic, or one *)
(* call into a compressor.  What a call has compressed is "good" if the    *)
(* server's inflater gives the input back, and "bad" if not.               *)
(*                                                                         *)
(* A definition whose comment starts with "Slip:" is no part of the model. *)
(***************************************************************************)
EXTENDS Integers, FiniteSets

CONSTANTS
  Threads,      \* the server's threads
  SampleLimit   \* 16

ASSUME SamplerAssumption ==
  /\ IsFiniteSet(Threads)
  /\ SampleLimit \in Nat \ {0}

VARIABLES
  disabled,     \* disabled
  validations,  \* validations
  slots,        \* sample_slots
  pc,           \* where each thread is in checked_compress
  seen,         \* its local slots
  sample,       \* its local sample: it holds a reservation
  candidate,    \* what compress_leveldb gave it
  output        \* what its last call returned

shared == <<disabled, validations, slots>>
local == <<pc, seen, sample, candidate, output>>
vars == <<shared, local>>

(* The places in checked_compress, named for what comes next.              *)
Places == {"idle", "gate", "load", "reserve", "compress", "compare",
           "count", "disable", "fall back"}
Qualities == {"good", "bad"}
Outputs == {"native", "failure", "exception"} \cup Qualities

TypeOK ==
  /\ disabled \in BOOLEAN
  /\ validations \in Nat
  /\ slots \in 0..SampleLimit
  /\ pc \in [Threads -> Places]
  /\ seen \in [Threads -> 0..SampleLimit]
  /\ sample \in [Threads -> BOOLEAN]
  /\ candidate \in [Threads -> Qualities]
  /\ output \in [Threads -> Outputs]

Init ==
  /\ disabled = FALSE
  /\ validations = 0
  /\ slots = 0
  /\ pc = [t \in Threads |-> "idle"]
  /\ seen = [t \in Threads |-> 0]
  /\ sample = [t \in Threads |-> FALSE]
  /\ candidate = [t \in Threads |-> "good"]
  /\ output = [t \in Threads |-> "native"]

-----------------------------------------------------------------------------
Goto(t, place) == pc' = [pc EXCEPT ![t] = place]

(* Slip: a reservation is kept by the calls that fail.                     *)
ReturnKeepingSlot(t, result) ==
  /\ Goto(t, "idle")
  /\ output' = [output EXCEPT ![t] = result]
  /\ sample' = [sample EXCEPT ![t] = FALSE]
  /\ UNCHANGED slots

(* The call returns, and ~Reservation gives back the slot of a sample that *)
(* was not counted.                                                        *)
Return(t, result) ==
  /\ Goto(t, "idle")
  /\ output' = [output EXCEPT ![t] = result]
  /\ sample' = [sample EXCEPT ![t] = FALSE]
  /\ slots' = IF sample[t] THEN slots - 1 ELSE slots

(* The original helper, whose own failures are the caller's to handle.     *)
ReturnNative(t) ==
  \E result \in {"native", "failure", "exception"} : Return(t, result)

(* The level or the length is not supported, or disabled is set.           *)
CallNative(t) ==
  /\ pc[t] = "idle"
  /\ ReturnNative(t)
  /\ UNCHANGED <<disabled, validations, seen, candidate>>

(* The call got past the first check of disabled.                          *)
Call(t) ==
  /\ pc[t] = "idle"
  /\ ~disabled
  /\ Goto(t, "gate")
  /\ UNCHANGED <<shared, seen, sample, candidate, output>>

ReadValidations(t) ==
  /\ pc[t] = "gate"
  /\ Goto(t, IF validations < SampleLimit THEN "load" ELSE "compress")
  /\ UNCHANGED <<shared, seen, sample, candidate, output>>

LoadSlots(t) ==
  /\ pc[t] = "load"
  /\ seen' = [seen EXCEPT ![t] = slots]
  /\ Goto(t, "reserve")
  /\ UNCHANGED <<shared, sample, candidate, output>>

(* Slip: load and store instead of compare and exchange.                   *)
ReserveWithoutExchange(t) ==
  /\ pc[t] = "reserve"
  /\ seen[t] < SampleLimit
  /\ slots' = seen[t] + 1
  /\ sample' = [sample EXCEPT ![t] = TRUE]
  /\ Goto(t, "compress")
  /\ UNCHANGED <<disabled, validations, seen, candidate, output>>

Reserve(t) ==
  /\ pc[t] = "reserve"
  /\ seen[t] < SampleLimit
  /\ slots = seen[t]
  /\ slots' = seen[t] + 1
  /\ sample' = [sample EXCEPT ![t] = TRUE]
  /\ Goto(t, "compress")
  /\ UNCHANGED <<disabled, validations, seen, candidate, output>>

(* The exchange fails and loads what the slots are now.                    *)
ReserveAgain(t) ==
  /\ pc[t] = "reserve"
  /\ seen[t] < SampleLimit
  /\ slots # seen[t]
  /\ seen' = [seen EXCEPT ![t] = slots]
  /\ UNCHANGED <<shared, pc, sample, candidate, output>>

(* Slip: a call that finds no slot goes on unchecked.                      *)
NoSlotUnchecked(t) ==
  /\ pc[t] = "reserve"
  /\ seen[t] >= SampleLimit
  /\ Goto(t, "compress")
  /\ UNCHANGED <<shared, seen, sample, candidate, output>>

NoSlot(t) ==
  /\ pc[t] = "reserve"
  /\ seen[t] >= SampleLimit
  /\ ReturnNative(t)
  /\ UNCHANGED <<disabled, validations, seen, candidate>>

-----------------------------------------------------------------------------
(* compress_leveldb succeeds: a call that is no sample returns what it got.*)
Compress(t) ==
  /\ pc[t] = "compress"
  /\ \E quality \in Qualities :
       /\ candidate' = [candidate EXCEPT ![t] = quality]
       /\ IF sample[t]
            THEN Goto(t, "compare") /\ UNCHANGED <<slots, sample, output>>
            ELSE Return(t, quality)
  /\ UNCHANGED <<disabled, validations, seen>>

(* compress_leveldb fails and the original is called, or something throws. *)
CompressFails(t) ==
  /\ pc[t] = "compress"
  /\ ReturnNative(t)
  /\ UNCHANGED <<disabled, validations, seen, candidate>>

(* Slip: the candidate is taken at its word.                               *)
AcceptAnything(t) ==
  /\ pc[t] = "compare"
  /\ Goto(t, "count")
  /\ UNCHANGED <<shared, seen, sample, candidate, output>>

(* Both outputs decode to the input: the slot is spent, not given back.    *)
Accept(t) ==
  /\ pc[t] = "compare"
  /\ candidate[t] = "good"
  /\ Goto(t, "count")
  /\ UNCHANGED <<shared, seen, sample, candidate, output>>

(* validations.fetch_add, then the candidate is appended to the output.    *)
Count(t) ==
  /\ pc[t] = "count"
  /\ validations' = validations + 1
  /\ Goto(t, "idle")
  /\ sample' = [sample EXCEPT ![t] = FALSE]
  /\ \E result \in {candidate[t], "exception"} :
       output' = [output EXCEPT ![t] = result]
  /\ UNCHANGED <<disabled, slots, seen, candidate>>

(* The native call failed, or one of the two outputs does not decode.      *)
Reject(t) ==
  /\ pc[t] = "compare"
  /\ Goto(t, "disable")
  /\ UNCHANGED <<shared, seen, sample, candidate, output>>

Disable(t) ==
  /\ pc[t] = "disable"
  /\ disabled' = TRUE
  /\ Goto(t, "fall back")
  /\ UNCHANGED <<validations, slots, seen, sample, candidate, output>>

(* The reference is returned, or the native failure.                       *)
FallBack(t) ==
  /\ pc[t] = "fall back"
  /\ ReturnNative(t)
  /\ UNCHANGED <<disabled, validations, seen, candidate>>

(* The native call or a decoder throws while the sample is checked.        *)
Throw(t) ==
  /\ pc[t] = "compare"
  /\ Return(t, "exception")
  /\ UNCHANGED <<disabled, validations, seen, candidate>>

-----------------------------------------------------------------------------
Step(t) ==
  \/ CallNative(t)
  \/ Call(t)
  \/ ReadValidations(t)
  \/ LoadSlots(t)
  \/ Reserve(t)
  \/ ReserveAgain(t)
  \/ NoSlot(t)
  \/ Compress(t)
  \/ CompressFails(t)
  \/ Accept(t)
  \/ Count(t)
  \/ Reject(t)
  \/ Disable(t)
  \/ FallBack(t)
  \/ Throw(t)

Next == \E t \in Threads : Step(t)
Spec == Init /\ [][Next]_vars

-----------------------------------------------------------------------------
Holders == {t \in Threads : sample[t]}

(* A slot is held by a sample in progress or spent by a validation, and    *)
(* none leaks, whichever way a sample ends (Reservation): the sampling     *)
(* never stops short of its limit, and never goes beyond it.               *)
SlotsExact == slots = validations + Cardinality(Holders)

(* An output the server cannot decode is returned only after SampleLimit   *)
(* candidates were decoded: until then every candidate is checked.         *)
BadOnlyWhenTrusted ==
  \A t \in Threads : output[t] = "bad" => validations = SampleLimit

(* A call goes without a sample only once all samples have passed.         *)
UncheckedOnlyWhenTrusted ==
  \A t \in Threads :
    (pc[t] = "compress" /\ ~sample[t]) => validations = SampleLimit
=============================================================================
