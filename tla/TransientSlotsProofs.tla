------------------------ MODULE TransientSlotsProofs ------------------------
(***************************************************************************)
(* The slots of TransientSlots, for every number of threads and slots and  *)
(* every hash.  That a thread has one slot is not inductive: it rests on   *)
(* what a thread has passed on its way being taken, by others, for ever.   *)
(***************************************************************************)
EXTENDS TransientSlots, TLAPS

(* A slot that belongs to somebody other than t.                           *)
TakenFrom(t, i) == owner[i] # Nobody /\ owner[i] # t

(* Every slot t has passed in its search belongs to another thread.        *)
Passed ==
  \A t \in Threads : \A k \in 0 .. probe[t] - 1 : TakenFrom(t, At(t, k))

(* Every slot before t's own on its way belongs to another thread.         *)
OwnFirst ==
  \A t \in Threads, i \in Slots :
    owner[i] = t =>
      \E d \in Slots : At(t, d) = i /\ \A k \in 0 .. d - 1 : TakenFrom(t, At(t, k))

(* Where each thread is in the search.                                     *)
AtHome ==
  /\ \A t \in Threads :
       pc[t] = "claim" => probe[t] < SlotCount /\ owner[Current(t)] # t
  /\ \A t \in Threads :
       pc[t] = "using" => probe[t] < SlotCount /\ owner[Current(t)] = t
  /\ ~alive => \E t \in Threads : pc[t] = "probe" /\ probe[t] = SlotCount

SlotInv == TypeOK /\ Passed /\ OwnFirst /\ AtHome

-----------------------------------------------------------------------------
(* Residues.                                                               *)

(* Probing stays in the table.                                             *)
LEMMA AtInSlots ==
  ASSUME NEW t \in Threads, NEW k \in Nat
  PROVE  At(t, k) \in Slots
<1>. SlotCount \in Nat \ {0} /\ Home[t] + k \in Nat
  BY SlotAssumption DEF Slots
<1>. QED
  BY DEF At, Slots

(* Two numbers less than a table apart with equal residues are equal.      *)
LEMMA SameResidue ==
  ASSUME NEW n \in Nat, NEW r \in Slots,
         n = r \/ n = r + SlotCount
  PROVE  n % SlotCount = r
<1>0. SlotCount \in Nat \ {0} /\ r \in Nat /\ r < SlotCount
  BY SlotAssumption DEF Slots
<1>. DEFINE N == SlotCount
            q == n \div N
            m == n % N
<1>1. /\ q \in Int /\ m \in 0 .. N - 1
      /\ n = N * q + m
  BY <1>0
<1>. HIDE DEF N, q, m
<1>2. CASE n = r
  <2>1. N * q + m < N
    BY <1>0, <1>1, <1>2 DEF N
  <2>2. q = 0
    <3>1. CASE q >= 1
      <4>1. N * q >= N
        BY <1>0, <1>1, <3>1 DEF N
      <4>. QED
        BY <1>0, <1>1, <2>1, <4>1 DEF N
    <3>2. CASE q <= -1
      <4>1. N * q <= -N
        BY <1>0, <1>1, <3>2 DEF N
      <4>. QED
        BY <1>0, <1>1, <4>1 DEF N
    <3>. QED
      BY <1>1, <3>1, <3>2
  <2>3. m = r
    BY <1>0, <1>1, <1>2, <2>2 DEF N
  <2>. QED
    BY <2>3 DEF m, N
<1>3. CASE n = r + N
  <2>1. N * q + m = r + N
    BY <1>0, <1>1, <1>3
  <2>2. q = 1
    <3>1. CASE q >= 2
      <4>1. N * q >= 2 * N
        BY <1>0, <1>1, <3>1 DEF N
      <4>. QED
        BY <1>0, <1>1, <2>1, <4>1 DEF N
    <3>2. CASE q <= 0
      <4>1. N * q <= 0
        BY <1>0, <1>1, <3>2 DEF N
      <4>. QED
        BY <1>0, <1>1, <2>1, <4>1 DEF N
    <3>. QED
      BY <1>1, <3>1, <3>2
  <2>3. m = r
    BY <1>0, <1>1, <2>1, <2>2 DEF N
  <2>. QED
    BY <2>3 DEF m, N
<1>. QED
  BY <1>2, <1>3 DEF N

(* A whole round of probing visits every slot.                             *)
LEMMA RoundVisitsAll ==
  ASSUME NEW t \in Threads, NEW i \in Slots
  PROVE  \E k \in 0 .. SlotCount - 1 : At(t, k) = i
<1>0. /\ SlotCount \in Nat \ {0}
      /\ Home[t] \in Nat /\ Home[t] < SlotCount
      /\ i \in Nat /\ i < SlotCount
  BY SlotAssumption DEF Slots
<1>1. CASE Home[t] <= i
  <2>1. At(t, i - Home[t]) = i
    <3>1. Home[t] + (i - Home[t]) = i
      BY <1>0
    <3>. QED
      BY <1>0, <3>1, SameResidue DEF At
  <2>2. i - Home[t] \in 0 .. SlotCount - 1
    BY <1>0, <1>1
  <2>. QED
    BY <2>1, <2>2
<1>2. CASE Home[t] > i
  <2>. DEFINE k == i - Home[t] + SlotCount
  <2>1. At(t, k) = i
    <3>1. Home[t] + k = i + SlotCount /\ i + SlotCount \in Nat
      BY <1>0
    <3>. QED
      BY <3>1, SameResidue DEF At
  <2>2. k \in 0 .. SlotCount - 1
    BY <1>0, <1>2
  <2>. QED
    BY <2>1, <2>2
<1>. QED
  BY <1>0, <1>1, <1>2

-----------------------------------------------------------------------------
LEMMA SlotInit == Init => SlotInv
<1>. SUFFICES ASSUME Init PROVE SlotInv
  OBVIOUS
<1>0. SlotCount \in Nat \ {0} /\ Nobody \notin Threads
  BY SlotAssumption
<1>1. TypeOK
  BY <1>0 DEF Init, TypeOK, Places
<1>2. Passed
  BY DEF Init, Passed
<1>3. OwnFirst
  BY <1>0 DEF Init, OwnFirst
<1>4. AtHome
  BY DEF Init, AtHome
<1>. QED
  BY <1>1, <1>2, <1>3, <1>4 DEF SlotInv

(* A thread claims the free slot it has come to.                           *)
LEMMA ClaimKeeps ==
  ASSUME SlotInv, NEW t \in Threads, Claim(t)
  PROVE  SlotInv'
<1>. DEFINE own == Current(t)
<1>0. /\ SlotCount \in Nat \ {0} /\ Nobody \notin Threads
      /\ probe[t] \in Slots /\ own \in Slots
  BY SlotAssumption, AtInSlots DEF Claim, SlotInv, TypeOK, AtHome, Current, Slots
<1>1. /\ owner[own] = Nobody
      /\ owner' = [owner EXCEPT ![own] = t]
      /\ pc' = [pc EXCEPT ![t] = "using"]
      /\ UNCHANGED <<probe, alive>>
      /\ alive
  BY DEF Claim
<1>2. /\ owner'[own] = t
      /\ \A i \in Slots : owner[i] # Nobody => owner'[i] = owner[i]
      /\ \A i \in Slots : i # own => owner'[i] = owner[i]
  BY <1>0, <1>1 DEF SlotInv, TypeOK
<1>3. TypeOK'
  BY <1>1 DEF SlotInv, TypeOK, Places
<1>4. ASSUME NEW u \in Threads, NEW k \in Nat, TakenFrom(u, At(u, k))
      PROVE  TakenFrom(u, At(u, k))'
  <2>1. At(u, k) \in Slots
    BY AtInSlots
  <2>. QED
    BY <1>2, <1>4, <2>1 DEF TakenFrom, At
<1>5. Passed'
  <2>1. SUFFICES ASSUME NEW u \in Threads, NEW k \in 0 .. probe[u] - 1
                 PROVE  TakenFrom(u, At(u, k))'
    BY <1>1 DEF Passed
  <2>2. k \in Nat
    BY DEF SlotInv, TypeOK
  <2>. QED
    BY <1>4, <2>1, <2>2 DEF SlotInv, Passed
<1>6. OwnFirst'
  <2>1. SUFFICES ASSUME NEW u \in Threads, NEW i \in Slots, owner'[i] = u
                 PROVE  \E d \in Slots : /\ At(u, d) = i
                                         /\ \A k \in 0 .. d - 1 : TakenFrom(u, At(u, k))'
    BY DEF OwnFirst, At
  <2>2. CASE i = own
    <3>1. u = t /\ At(u, probe[t]) = i
      BY <1>2, <2>1, <2>2 DEF Current
    <3>2. ASSUME NEW k \in 0 .. probe[t] - 1 PROVE TakenFrom(u, At(u, k))'
      BY <1>0, <1>4, <3>1, <3>2 DEF SlotInv, Passed, Slots
    <3>. QED
      BY <1>0, <3>1, <3>2
  <2>3. CASE i # own
    <3>1. owner[i] = u
      BY <1>2, <2>1, <2>3
    <3>2. PICK d \in Slots : /\ At(u, d) = i
                             /\ \A k \in 0 .. d - 1 : TakenFrom(u, At(u, k))
      BY <3>1 DEF SlotInv, OwnFirst
    <3>3. ASSUME NEW k \in 0 .. d - 1 PROVE TakenFrom(u, At(u, k))'
      BY <1>4, <3>2, <3>3 DEF Slots
    <3>. QED
      BY <3>2, <3>3
  <2>. QED
    BY <2>2, <2>3
<1>7. AtHome'
  <2>1. ASSUME NEW u \in Threads, pc'[u] = "claim"
        PROVE  probe'[u] < SlotCount /\ owner'[At(u, probe'[u])] # u
    <3>1. u # t /\ pc[u] = "claim"
      BY <1>1, <2>1 DEF SlotInv, TypeOK
    <3>2. probe[u] < SlotCount /\ owner[At(u, probe[u])] # u
      BY <3>1 DEF SlotInv, AtHome, Current
    <3>3. At(u, probe[u]) \in Slots
      BY AtInSlots DEF SlotInv, TypeOK
    <3>. QED
      BY <1>0, <1>1, <1>2, <3>1, <3>2, <3>3
  <2>2. ASSUME NEW u \in Threads, pc'[u] = "using"
        PROVE  probe'[u] < SlotCount /\ owner'[At(u, probe'[u])] = u
    <3>1. CASE u = t
      BY <1>0, <1>1, <1>2, <3>1 DEF Current, Slots
    <3>2. CASE u # t
      <4>1. pc[u] = "using"
        BY <1>1, <2>2, <3>2 DEF SlotInv, TypeOK
      <4>2. probe[u] < SlotCount /\ owner[At(u, probe[u])] = u
        BY <4>1 DEF SlotInv, AtHome, Current
      <4>3. At(u, probe[u]) \in Slots
        BY AtInSlots DEF SlotInv, TypeOK
      <4>. QED
        BY <1>0, <1>1, <1>2, <4>2, <4>3
    <3>. QED
      BY <3>1, <3>2
  <2>. QED
    BY <1>1, <2>1, <2>2 DEF AtHome, Current, At
<1>. QED
  BY <1>3, <1>5, <1>6, <1>7 DEF SlotInv

(* A thread goes past a slot that belongs to another.                      *)
LEMMA PassKeeps ==
  ASSUME SlotInv, NEW t \in Threads, alive, probe[t] < SlotCount, Pass(t),
         TakenFrom(t, Current(t)), UNCHANGED <<owner, alive>>
  PROVE  SlotInv'
<1>0. SlotCount \in Nat /\ probe[t] \in Nat
  BY SlotAssumption DEF SlotInv, TypeOK
<1>1. /\ pc' = [pc EXCEPT ![t] = "probe"]
      /\ probe' = [probe EXCEPT ![t] = probe[t] + 1]
  BY DEF Pass
<1>2. TypeOK'
  <2>1. probe[t] + 1 \in 0..SlotCount
    BY <1>0
  <2>. QED
    BY <1>1, <2>1 DEF SlotInv, TypeOK, Places
<1>3. Passed'
  <2>1. SUFFICES ASSUME NEW u \in Threads, NEW k \in 0 .. probe'[u] - 1
                 PROVE  TakenFrom(u, At(u, k))
    BY DEF Passed, TakenFrom, At
  <2>2. CASE u # t
    BY <1>1, <2>2 DEF SlotInv, TypeOK, Passed
  <2>3. CASE u = t
    <3>1. probe'[t] = probe[t] + 1
      BY <1>1 DEF SlotInv, TypeOK
    <3>2. CASE k = probe[t]
      BY <2>3, <3>2 DEF Current
    <3>3. CASE k # probe[t]
      <4>1. k \in 0 .. probe[t] - 1
        BY <1>0, <2>3, <3>1, <3>3
      <4>. QED
        BY <2>3, <4>1 DEF SlotInv, Passed
    <3>. QED
      BY <3>2, <3>3
  <2>. QED
    BY <2>2, <2>3
<1>4. OwnFirst'
  BY DEF SlotInv, OwnFirst, TakenFrom, At
<1>5. AtHome'
  <2>1. ASSUME NEW u \in Threads, pc'[u] \in {"claim", "using"}
        PROVE  pc[u] = pc'[u] /\ probe'[u] = probe[u]
    BY <1>1, <2>1 DEF SlotInv, TypeOK
  <2>. QED
    BY <2>1 DEF SlotInv, AtHome, Current, At
<1>. QED
  BY <1>2, <1>3, <1>4, <1>5 DEF SlotInv

(* A step that changes where a thread is, and nothing about the slots.     *)
LEMMA MoveKeeps ==
  ASSUME SlotInv, NEW t \in Threads, NEW place \in {"out", "claim", "using"},
         pc' = [pc EXCEPT ![t] = place], alive,
         place = "claim" => probe[t] < SlotCount /\ owner[Current(t)] # t,
         place = "using" => probe[t] < SlotCount /\ owner[Current(t)] = t,
         UNCHANGED <<owner, probe, alive>>
  PROVE  SlotInv'
<1>1. TypeOK'
  BY DEF SlotInv, TypeOK, Places
<1>2. Passed' /\ OwnFirst'
  BY DEF SlotInv, Passed, OwnFirst, TakenFrom, At
<1>3. AtHome'
  BY DEF SlotInv, TypeOK, AtHome, Current, At
<1>. QED
  BY <1>1, <1>2, <1>3 DEF SlotInv

(* A new process starts with free slots.                                   *)
LEMMA RestartKeeps == Restart => SlotInv'
<1>. SUFFICES ASSUME Restart PROVE SlotInv'
  OBVIOUS
<1>0. SlotCount \in Nat \ {0} /\ Nobody \notin Threads
  BY SlotAssumption
<1>1. TypeOK'
  BY <1>0 DEF Restart, TypeOK, Places
<1>2. Passed'
  BY DEF Restart, Passed
<1>3. OwnFirst'
  BY <1>0 DEF Restart, OwnFirst
<1>4. AtHome'
  BY DEF Restart, AtHome
<1>. QED
  BY <1>1, <1>2, <1>3, <1>4 DEF SlotInv

LEMMA SlotNext == SlotInv /\ [Next]_vars => SlotInv'
<1>. SUFFICES ASSUME SlotInv, [Next]_vars PROVE SlotInv'
  OBVIOUS
<1>0. SlotCount \in Nat \ {0}
  BY SlotAssumption
<1>1. CASE UNCHANGED vars
  BY <1>1 DEF vars, SlotInv, TypeOK, Passed, OwnFirst, AtHome, TakenFrom, At, Current
<1>2. ASSUME NEW t \in Threads, Prepare(t) PROVE SlotInv'
  <2>1. /\ pc' = [pc EXCEPT ![t] = "probe"]
        /\ probe' = [probe EXCEPT ![t] = 0]
        /\ alive /\ UNCHANGED <<owner, alive>>
    BY <1>2 DEF Prepare
  <2>2. TypeOK'
    BY <1>0, <2>1 DEF SlotInv, TypeOK, Places
  <2>3. Passed'
    <3>1. SUFFICES ASSUME NEW u \in Threads, NEW k \in 0 .. probe'[u] - 1
                   PROVE  TakenFrom(u, At(u, k))
      BY <2>1 DEF Passed, TakenFrom, At
    <3>2. u # t
      BY <2>1 DEF SlotInv, TypeOK
    <3>. QED
      BY <2>1, <3>2 DEF SlotInv, TypeOK, Passed
  <2>4. OwnFirst'
    BY <2>1 DEF SlotInv, OwnFirst, TakenFrom, At
  <2>5. AtHome'
    <3>1. ASSUME NEW u \in Threads, pc'[u] \in {"claim", "using"}
          PROVE  pc[u] = pc'[u] /\ probe'[u] = probe[u]
      BY <2>1, <3>1 DEF SlotInv, TypeOK
    <3>. QED
      BY <2>1, <3>1 DEF SlotInv, AtHome, Current, At
  <2>. QED
    BY <2>2, <2>3, <2>4, <2>5 DEF SlotInv
<1>3. ASSUME NEW t \in Threads, Search(t) PROVE SlotInv'
  <2>1. CASE FindOwn(t)
    BY <2>1, MoveKeeps DEF FindOwn
  <2>2. CASE FindFree(t)
    <3>1. owner[Current(t)] # t
      BY <2>2, SlotAssumption DEF FindFree
    <3>. QED
      BY <2>2, <3>1, MoveKeeps DEF FindFree
  <2>3. CASE FindTaken(t)
    BY <2>3, PassKeeps DEF FindTaken, TakenFrom
  <2>4. CASE Claim(t)
    BY <2>4, ClaimKeeps
  <2>5. CASE ClaimLost(t)
    <3>1. pc[t] = "claim" /\ probe[t] < SlotCount /\ probe[t] \in Nat
      BY <2>5 DEF ClaimLost, SlotInv, TypeOK, AtHome
    <3>2. owner[Current(t)] # t
      BY <2>5 DEF ClaimLost, SlotInv, AtHome
    <3>. QED
      BY <2>5, <3>1, <3>2, PassKeeps DEF ClaimLost, TakenFrom
  <2>6. CASE Abort(t)
    <3>1. TypeOK'
      BY <2>6 DEF Abort, SlotInv, TypeOK
    <3>2. Passed' /\ OwnFirst'
      BY <2>6 DEF Abort, SlotInv, Passed, OwnFirst, TakenFrom, At
    <3>3. AtHome'
      BY <2>6 DEF Abort, SlotInv, AtHome, Current, At
    <3>. QED
      BY <3>1, <3>2, <3>3 DEF SlotInv
  <2>. QED
    BY <1>3, <2>1, <2>2, <2>3, <2>4, <2>5, <2>6 DEF Search
<1>4. ASSUME NEW t \in Threads, Release(t) PROVE SlotInv'
  BY <1>4, MoveKeeps DEF Release
<1>5. CASE Restart
  BY <1>5, RestartKeeps
<1>. QED
  BY <1>1, <1>2, <1>3, <1>4, <1>5 DEF Next

LEMMA SlotAlways == Spec => []SlotInv
<1>. QED
  BY SlotInit, SlotNext, PTL DEF Spec

-----------------------------------------------------------------------------
(* Every variable of slot_for_thread keeps its type.                       *)
THEOREM SlotTypeCorrect == Spec => []TypeOK
<1>1. SlotInv => TypeOK
  BY DEF SlotInv
<1>. QED
  BY <1>1, SlotAlways, PTL

(* slot_for_thread never gives a thread a second slot, whoever claimed     *)
(* what between its searches: the first of two on its way would have been  *)
(* another's already when it went on to the second.                        *)
THEOREM SlotAlwaysUnique == Spec => []UniqueSlot
<1>1. SlotInv => UniqueSlot
  <2>1. SUFFICES ASSUME SlotInv, NEW i \in Slots, NEW j \in Slots,
                        owner[i] = owner[j], owner[i] # Nobody
                 PROVE  i = j
    BY DEF UniqueSlot
  <2>. DEFINE t == owner[i]
  <2>2. t \in Threads
    BY <2>1 DEF SlotInv, TypeOK
  <2>3. PICK d \in Slots : At(t, d) = i /\ \A k \in 0 .. d - 1 : TakenFrom(t, At(t, k))
    BY <2>1, <2>2 DEF SlotInv, OwnFirst
  <2>4. PICK e \in Slots : At(t, e) = j /\ \A k \in 0 .. e - 1 : TakenFrom(t, At(t, k))
    BY <2>1, <2>2 DEF SlotInv, OwnFirst
  <2>5. d \in Nat /\ e \in Nat
    BY DEF Slots
  <2>6. ~ d < e
    <3>1. SUFFICES ASSUME d < e PROVE FALSE
      OBVIOUS
    <3>2. d \in 0 .. e - 1
      BY <2>5, <3>1
    <3>3. TakenFrom(t, i)
      BY <2>3, <2>4, <3>2
    <3>. QED
      BY <3>3 DEF TakenFrom
  <2>7. ~ e < d
    <3>1. SUFFICES ASSUME e < d PROVE FALSE
      OBVIOUS
    <3>2. e \in 0 .. d - 1
      BY <2>5, <3>1
    <3>3. TakenFrom(t, j)
      BY <2>3, <2>4, <3>2
    <3>. QED
      BY <2>1, <3>3 DEF TakenFrom
  <2>8. d = e
    BY <2>5, <2>6, <2>7
  <2>. QED
    BY <2>3, <2>4, <2>8
<1>. QED
  BY <1>1, SlotAlways, PTL

(* prepare_thread_object never hands one buffer to two threads.            *)
THEOREM AlwaysExclusive == Spec => []ExclusiveUse
<1>1. SlotInv => ExclusiveUse
  BY DEF SlotInv, AtHome, ExclusiveUse
<1>. QED
  BY <1>1, SlotAlways, PTL

(* slot_for_thread aborts only for a thread that finds every slot of the   *)
(* table with another owner: its probing has gone round the whole table.   *)
THEOREM AbortsOnlyWhenFull == Spec => []AbortOnlyWhenFull
<1>1. SlotInv => AbortOnlyWhenFull
  <2>1. SUFFICES ASSUME SlotInv, ~alive
                 PROVE  \E t \in Threads : /\ pc[t] = "probe"
                                           /\ \A i \in Slots : owner[i] \notin {t, Nobody}
    BY DEF AbortOnlyWhenFull
  <2>2. PICK t \in Threads : pc[t] = "probe" /\ probe[t] = SlotCount
    BY <2>1 DEF SlotInv, AtHome
  <2>3. ASSUME NEW i \in Slots PROVE owner[i] \notin {t, Nobody}
    <3>1. PICK k \in 0 .. SlotCount - 1 : At(t, k) = i
      BY RoundVisitsAll
    <3>2. TakenFrom(t, i)
      BY <2>1, <2>2, <3>1 DEF SlotInv, Passed
    <3>. QED
      BY <3>2 DEF TakenFrom
  <2>. QED
    BY <2>2, <2>3
<1>. QED
  BY <1>1, SlotAlways, PTL
=============================================================================
