--------------------------- MODULE TransientSlots ---------------------------
(***************************************************************************)
(* The per-thread buffers of allocation/transient (object_copy.cpp): a     *)
(* fixed table of slots.  A thread finds its own by probing from a hash of *)
(* its identity, and claims a free one with a compare-and-exchange.  A     *)
(* slot is never given up, because a thread's end is not observed.         *)
(*                                                                         *)
(* A definition whose comment starts with "Slip:" is no part of the model. *)
(***************************************************************************)
EXTENDS Integers

CONSTANTS
  Threads,      \* thread identities (the thread pointer, %fs:0)
  SlotCount,    \* kSlotCount: 256
  Home,         \* Home[t]: the top bits of t's hash
  Nobody        \* a null owner

Slots == 0 .. SlotCount - 1

ASSUME SlotAssumption ==
  /\ SlotCount \in Nat \ {0}
  /\ Home \in [Threads -> Slots]
  /\ Nobody \notin Threads

VARIABLES
  owner,        \* slots[i].owner
  pc,           \* where each thread is
  probe,        \* its probe: how many slots it has passed
  alive         \* the process has not aborted

vars == <<owner, pc, probe, alive>>

Places == {"out", "probe", "claim", "using"}

TypeOK ==
  /\ owner \in [Slots -> Threads \cup {Nobody}]
  /\ pc \in [Threads -> Places]
  /\ probe \in [Threads -> 0..SlotCount]
  /\ alive \in BOOLEAN

Init ==
  /\ owner = [i \in Slots |-> Nobody]
  /\ pc = [t \in Threads |-> "out"]
  /\ probe = [t \in Threads |-> 0]
  /\ alive = TRUE

(* Slip: probing stops at the end of the table instead of wrapping.        *)
AtClamped(t, k) ==
  IF Home[t] + k < SlotCount THEN Home[t] + k ELSE SlotCount - 1

(* The slot t looks at after passing k others.                             *)
At(t, k) == (Home[t] + k) % SlotCount
Current(t) == At(t, probe[t])

-----------------------------------------------------------------------------
(* prepare_thread_object is called.                                        *)
Prepare(t) ==
  /\ alive
  /\ pc[t] = "out"
  /\ pc' = [pc EXCEPT ![t] = "probe"]
  /\ probe' = [probe EXCEPT ![t] = 0]
  /\ UNCHANGED <<owner, alive>>

Pass(t) ==
  /\ pc' = [pc EXCEPT ![t] = "probe"]
  /\ probe' = [probe EXCEPT ![t] = @ + 1]

FindOwn(t) ==
  /\ alive
  /\ pc[t] = "probe"
  /\ probe[t] < SlotCount
  /\ owner[Current(t)] = t
  /\ pc' = [pc EXCEPT ![t] = "using"]
  /\ UNCHANGED <<owner, probe, alive>>

FindFree(t) ==
  /\ alive
  /\ pc[t] = "probe"
  /\ probe[t] < SlotCount
  /\ owner[Current(t)] = Nobody
  /\ pc' = [pc EXCEPT ![t] = "claim"]
  /\ UNCHANGED <<owner, probe, alive>>

(* Slip: the loop forgets how many slots there are.                        *)
FindTakenUnbounded(t) ==
  /\ alive
  /\ pc[t] = "probe"
  /\ owner[Current(t)] \notin {t, Nobody}
  /\ Pass(t)
  /\ UNCHANGED <<owner, alive>>

FindTaken(t) ==
  /\ alive
  /\ pc[t] = "probe"
  /\ probe[t] < SlotCount
  /\ owner[Current(t)] \notin {t, Nobody}
  /\ Pass(t)
  /\ UNCHANGED <<owner, alive>>

(* Slip: the slot is stored to, not compared and exchanged.                *)
ClaimUnchecked(t) ==
  /\ alive
  /\ pc[t] = "claim"
  /\ owner' = [owner EXCEPT ![Current(t)] = t]
  /\ pc' = [pc EXCEPT ![t] = "using"]
  /\ UNCHANGED <<probe, alive>>

Claim(t) ==
  /\ alive
  /\ pc[t] = "claim"
  /\ owner[Current(t)] = Nobody
  /\ owner' = [owner EXCEPT ![Current(t)] = t]
  /\ pc' = [pc EXCEPT ![t] = "using"]
  /\ UNCHANGED <<probe, alive>>

(* The exchange fails: another thread was first.                           *)
ClaimLost(t) ==
  /\ alive
  /\ pc[t] = "claim"
  /\ owner[Current(t)] # Nobody
  /\ Pass(t)
  /\ UNCHANGED <<owner, alive>>

(* Slip: the search starts over when every slot is taken.                  *)
StartOver(t) ==
  /\ alive
  /\ pc[t] = "probe"
  /\ probe[t] = SlotCount
  /\ probe' = [probe EXCEPT ![t] = 0]
  /\ UNCHANGED <<owner, pc, alive>>

(* std::abort: no slot is left for this thread.                            *)
Abort(t) ==
  /\ alive
  /\ pc[t] = "probe"
  /\ probe[t] = SlotCount
  /\ alive' = FALSE
  /\ UNCHANGED <<owner, pc, probe>>

(* Slip: release_slot frees the slot of the hash, not the one probed to.   *)
ReleaseHome(t) ==
  /\ alive
  /\ pc[t] = "using"
  /\ pc' = [pc EXCEPT ![t] = "out"]
  /\ owner' = [owner EXCEPT ![Home[t]] = Nobody]
  /\ UNCHANGED <<probe, alive>>

(* release_slot, which does nothing: the native code is done with the      *)
(* object.                                                                 *)
Release(t) ==
  /\ alive
  /\ pc[t] = "using"
  /\ pc' = [pc EXCEPT ![t] = "out"]
  /\ UNCHANGED <<owner, probe, alive>>

(* The server is started again.                                            *)
Restart ==
  /\ ~alive
  /\ owner' = [i \in Slots |-> Nobody]
  /\ pc' = [t \in Threads |-> "out"]
  /\ probe' = [t \in Threads |-> 0]
  /\ alive' = TRUE

Search(t) ==
  \/ FindOwn(t)
  \/ FindFree(t)
  \/ FindTaken(t)
  \/ Claim(t)
  \/ ClaimLost(t)
  \/ Abort(t)

Next ==
  \/ \E t \in Threads : Prepare(t) \/ Search(t) \/ Release(t)
  \/ Restart

Spec == Init /\ [][Next]_vars

(* A thread in the search is scheduled again and again.                    *)
FairSpec == Spec /\ \A t \in Threads : WF_vars(Search(t))

-----------------------------------------------------------------------------
(* No thread ever has two slots, whatever the others claimed between its   *)
(* visits: its own is always found before a free one.                      *)
UniqueSlot ==
  \A i, j \in Slots : owner[i] = owner[j] /\ owner[i] # Nobody => i = j

(* Two threads never work in the same buffer.                              *)
ExclusiveUse ==
  \A t, u \in Threads :
    (pc[t] = "using" /\ pc[u] = "using" /\ Current(t) = Current(u)) => t = u

(* The process aborts only when every slot belongs to another thread.      *)
AbortOnlyWhenFull ==
  ~alive =>
    \E t \in Threads : pc[t] = "probe" /\ \A i \in Slots : owner[i] \notin {t, Nobody}

(* A search ends, whatever the other threads do in the meantime: with a    *)
(* slot, or with the process.                                              *)
SearchEnds ==
  \A t \in Threads : pc[t] = "probe" ~> (pc[t] = "using" \/ ~alive)
=============================================================================
