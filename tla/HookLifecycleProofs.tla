------------------------ MODULE HookLifecycleProofs -------------------------
(***************************************************************************)
(* The loading and its rollback for any hooks in any order that has what   *)
(* OrderFacts says: nothing else of Order is looked at, so that another    *)
(* hook needs no more than these four facts again.                         *)
(***************************************************************************)
EXTENDS HookLifecycle, TLAPS

-----------------------------------------------------------------------------
(* What the rollback rests on.                                             *)

(* The hooks whose install is over when onLoad is at hook n + 1.           *)
UpTo(n) == {Order[i] : i \in 1 .. n}

(* While it loads, exactly the hooks before this one are in the server and *)
(* have set installed; this one is there between its patch and its restore *)
(* or remove, which only a hook calls that is installed early.             *)
Loading ==
  phase = "loading" =>
    /\ stuck = {}
    /\ patched = IF step \in {"protect", "restore", "remove"}
                   THEN UpTo(at) ELSE UpTo(at - 1)
    /\ installed = IF step \in {"remove", "giveUp"} \/ (step = "protect" /\ Hook.early)
                     THEN UpTo(at) ELSE UpTo(at - 1)
    /\ (IF step = "check" THEN UpTo(at - 1) ELSE UpTo(at)) \subseteq based
    /\ step \in {"unprotect", "patch", "protect"} /\ Hook.needs # "nothing" =>
         Hook \in backed
    /\ step \in {"remove", "giveUp"} => Hook.early

(* A rollback misses no hook: what is in the server is installed or stuck, *)
(* and behind the hook it is at nothing is left that is not stuck.         *)
RollingBack ==
  phase = "rollingBack" =>
    /\ step \in {"remove", "giveUp"}
    /\ patched \subseteq installed \cup stuck
    /\ \A i \in at + 1 .. Len(Order) : Order[i] \in patched => Order[i] \in stuck

(* A hook is given up if it is out of the server or forgotten there.       *)
GivingUp ==
  step = "giveUp" /\ Hook \in patched => Hook \in stuck /\ Hook.forgets

Idle ==
  /\ phase \in {"unloaded", "loaded", "failed"} => step = "check"
  /\ phase = "unloaded" => at = 1 /\ hooks = <<{}, {}, {}, {}>> /\ stuck = {}

IInv ==
  /\ TypeOK
  /\ Loading
  /\ RollingBack
  /\ GivingUp
  /\ Idle
  /\ AllOrNothing
  /\ BackedUnlessForgotten
  /\ AllocatorReady

-----------------------------------------------------------------------------
(* The order of the hooks.                                                 *)

(* No hook is named twice; one that is installed early keeps itself if its *)
(* page cannot be made writable; the direct constructor comes after the    *)
(* reserve hook that allocates for it.                                     *)
LEMMA OrderFacts ==
  /\ Len(Order) \in Nat \ {0}
  /\ \A i, j \in 1 .. Len(Order) : Order[i] = Order[j] => i = j
  /\ \A i \in 1 .. Len(Order) : Order[i].early => ~Order[i].forgets
  /\ \A i \in 1 .. Len(Order) :
       Order[i] = direct => \E j \in 1 .. i - 1 : Order[j] = construction
<1>. DEFINE Named == <<"area", "monotonic", "ownership", "shared_mutex", "transient",
                       "construction", "direct", "containment", "shuffle", "leveldb">>
<1>1. Len(Order) = 10
  BY DEF Order
<1>2. \A i \in 1 .. 10 :
        i \in {1, 2, 3, 4, 5, 6, 7, 8, 9, 10}
  OBVIOUS
<1>3. /\ Order[1] = area /\ Order[2] = monotonic /\ Order[3] = ownership
      /\ Order[4] = shared_mutex /\ Order[5] = transient /\ Order[6] = construction
      /\ Order[7] = direct /\ Order[8] = containment /\ Order[9] = shuffle
      /\ Order[10] = leveldb
  BY DEF Order
<1>4. \A i \in 1 .. 10 : Order[i].name = Named[i]
  <2>1. /\ area.name = "area" /\ monotonic.name = "monotonic"
        /\ ownership.name = "ownership" /\ shared_mutex.name = "shared_mutex"
        /\ transient.name = "transient" /\ construction.name = "construction"
        /\ direct.name = "direct" /\ containment.name = "containment"
        /\ shuffle.name = "shuffle" /\ leveldb.name = "leveldb"
    BY DEF area, monotonic, ownership, shared_mutex, transient, construction, direct,
           containment, shuffle, leveldb
  <2>. QED
    BY <1>2, <1>3, <2>1
<1>5. \A i, j \in 1 .. 10 : Named[i] = Named[j] => i = j
  <2>. SUFFICES ASSUME NEW i \in 1 .. 10, NEW j \in 1 .. 10, i < j
                PROVE  Named[i] # Named[j]
    OBVIOUS
  <2>. QED
    BY <1>2
<1>6. \A i, j \in 1 .. 10 : Order[i] = Order[j] => i = j
  BY <1>4, <1>5
<1>7. \A i \in 1 .. 10 : Order[i].early => ~Order[i].forgets
  <2>1. /\ ~area.early /\ ~monotonic.early /\ ~ownership.early /\ ~shared_mutex.early
        /\ ~transient.early /\ ~construction.early /\ ~direct.early
        /\ ~containment.early /\ ~shuffle.early /\ ~leveldb.forgets
    BY DEF area, monotonic, ownership, shared_mutex, transient, construction, direct,
           containment, shuffle, leveldb
  <2>. QED
    BY <1>2, <1>3, <2>1
<1>8. \A i \in 1 .. 10 : Order[i] = direct => \E j \in 1 .. i - 1 : Order[j] = construction
  BY <1>3, <1>6
<1>. QED
  BY <1>1, <1>6, <1>7, <1>8

LEMMA UpToSteps ==
  ASSUME NEW n \in 1 .. Len(Order)
  PROVE  /\ UpTo(n) = UpTo(n - 1) \cup {Order[n]}
         /\ Order[n] \notin UpTo(n - 1) /\ Order[n] \in Hooks
         /\ UpTo(n) \subseteq Hooks /\ UpTo(n - 1) \subseteq Hooks
         /\ n = 1 => UpTo(n - 1) = {}
         /\ n = Len(Order) => UpTo(n) = Hooks
BY OrderFacts DEF UpTo, Hooks

-----------------------------------------------------------------------------
(* The ways on.                                                            *)

Whereabouts == Loading /\ RollingBack /\ GivingUp /\ Idle /\ AllOrNothing

(* An install may throw with every hook that is in the server installed or *)
(* stuck: the removal of all begins behind the last.                       *)
LEMMA ThrowKeeps ==
  ASSUME TypeOK, patched' \subseteq installed' \cup stuck',
         at = 1 => patched' \subseteq stuck', Throw
  PROVE  Whereabouts' /\ phase' \in Phases /\ at' \in 1 .. Len(Order) /\ step' \in Steps
<1>1. CASE at = 1
  BY <1>1 DEF Throw, TypeOK, Whereabouts, Loading, RollingBack, GivingUp, Idle,
              AllOrNothing, Phases, Steps
<1>2. CASE at # 1
  <2>1. phase' = "rollingBack" /\ at' = Len(Order) /\ step' = "remove"
    BY <1>2 DEF Throw
  <2>2. Loading' /\ GivingUp' /\ Idle' /\ AllOrNothing'
    BY <2>1 DEF Loading, GivingUp, Idle, AllOrNothing
  <2>3. at' \in 1 .. Len(Order) /\ at' + 1 .. Len(Order) = {}
    BY <2>1, OrderFacts
  <2>4. RollingBack'
    BY <2>1, <2>3 DEF RollingBack
  <2>. QED
    BY <2>1, <2>2, <2>3, <2>4 DEF Whereabouts, Phases, Steps
<1>. QED
  BY <1>1, <1>2

(* A remove is done when its hook is out of the server or stuck there.     *)
LEMMA RemovedKeeps ==
  ASSUME TypeOK, phase \in {"loading", "rollingBack"},
         patched' \subseteq installed' \cup stuck',
         phase = "loading" => patched' \subseteq UpTo(at),
         \A i \in at .. Len(Order) : Order[i] \in patched' => Order[i] \in stuck',
         phase = "rollingBack" => patched' \subseteq Hooks,
         Removed
  PROVE  Whereabouts' /\ phase' \in Phases /\ at' \in 1 .. Len(Order) /\ step' \in Steps
<1>. at \in 1 .. Len(Order) /\ Len(Order) \in Nat \ {0}
  BY OrderFacts DEF TypeOK
<1>1. CASE phase = "loading"
  <2>1. at = 1 => patched' \subseteq stuck'
    BY <1>1, UpToSteps
  <2>. QED
    BY <1>1, <2>1, ThrowKeeps DEF Removed
<1>2. CASE phase = "rollingBack" /\ at > 1
  <2>1. at' = at - 1 /\ step' = "remove" /\ phase' = "rollingBack"
    BY <1>2 DEF Removed
  <2>2. Loading' /\ GivingUp' /\ Idle' /\ AllOrNothing'
    BY <2>1 DEF Loading, GivingUp, Idle, AllOrNothing
  <2>3. at' \in 1 .. Len(Order) /\ at' + 1 = at
    BY <1>2, <2>1
  <2>4. RollingBack'
    BY <2>1, <2>3 DEF RollingBack
  <2>. QED
    BY <2>1, <2>2, <2>3, <2>4 DEF Whereabouts, Phases, Steps
<1>3. CASE phase = "rollingBack" /\ at = 1
  <2>1. phase # "loading" /\ ~(at > 1)
    BY <1>3
  <2>2. at' = at /\ step' = "check" /\ phase' = "failed"
    BY <2>1 DEF Removed
  <2>3. patched' \subseteq stuck'
    BY <1>3 DEF Hooks
  <2>. QED
    BY <2>2, <2>3 DEF Whereabouts, Loading, RollingBack, GivingUp, Idle, AllOrNothing,
                      Phases, Steps
<1>4. at = 1 \/ at > 1
  OBVIOUS
<1>. QED
  BY <1>1, <1>2, <1>3, <1>4

-----------------------------------------------------------------------------
(* The steps of an install.                                                *)

LEMMA InstallKeeps ==
  ASSUME IInv, InstallStep
  PROVE  IInv'
<1>. phase = "loading" /\ at \in 1 .. Len(Order) /\ Len(Order) \in Nat \ {0}
  BY OrderFacts DEF IInv, TypeOK, InstallStep, CheckFails, Check, Prepare, PrepareFails,
     Unprotect, UnprotectFails, Patch, Protect, ProtectFails, Restore, Discard, Doing
<1>1. /\ UpTo(at) = UpTo(at - 1) \cup {Hook} /\ Hook \notin UpTo(at - 1)
      /\ Hook \in Hooks /\ UpTo(at) \subseteq Hooks
      /\ at = 1 => UpTo(at - 1) = {} 
      /\ at = Len(Order) => UpTo(at) = Hooks
  BY UpToSteps DEF Hook
<1>2. /\ stuck = {}
      /\ (IF step = "check" THEN UpTo(at - 1) ELSE UpTo(at)) \subseteq based
      /\ patched = IF step \in {"protect", "restore", "remove"}
                     THEN UpTo(at) ELSE UpTo(at - 1)
      /\ installed = IF step \in {"remove", "giveUp"} \/ (step = "protect" /\ Hook.early)
                       THEN UpTo(at) ELSE UpTo(at - 1)
      /\ step \in {"unprotect", "patch", "protect"} /\ Hook.needs # "nothing" =>
           Hook \in backed
      /\ BackedUnlessForgotten /\ AllocatorReady /\ TypeOK
  BY DEF IInv, Loading
<1>3. CASE CheckFails
  <2>1. /\ Throw /\ step = "check" /\ based \subseteq based' /\ based' \subseteq Hooks
        /\ UNCHANGED <<backed, patched, installed, stuck>>
    BY <1>1, <1>2, <1>3 DEF CheckFails, Doing, TypeOK
  <2>2. Whereabouts' /\ phase' \in Phases /\ at' \in 1 .. Len(Order) /\ step' \in Steps
    BY <1>1, <1>2, <2>1, ThrowKeeps
  <2>. QED
    BY <1>2, <2>1, <2>2 DEF IInv, Whereabouts, TypeOK, BackedUnlessForgotten,
                            AllocatorReady
<1>4. CASE Check
  <2>1. /\ step = "check" /\ based' = based \cup {Hook} /\ phase' = phase /\ at' = at
        /\ step' = (IF Hook.needs = "nothing" THEN "unprotect" ELSE "prepare")
        /\ UNCHANGED <<backed, patched, installed, stuck>>
    BY <1>4 DEF Check, Doing, Continue
  <2>2. Loading'
    BY <1>1, <1>2, <2>1 DEF Loading, Hook
  <2>3. RollingBack' /\ GivingUp' /\ Idle' /\ AllOrNothing'
    BY <2>1 DEF RollingBack, GivingUp, Idle, AllOrNothing
  <2>4. TypeOK' /\ BackedUnlessForgotten' /\ AllocatorReady'
    BY <1>1, <1>2, <2>1 DEF TypeOK, Steps, BackedUnlessForgotten, AllocatorReady
  <2>. QED
    BY <2>2, <2>3, <2>4 DEF IInv
<1>5. CASE Prepare
  <2>1. /\ step = "prepare" /\ backed' = backed \cup {Hook} /\ phase' = phase
        /\ at' = at /\ step' = "unprotect"
        /\ UNCHANGED <<based, patched, installed, stuck>>
    BY <1>5 DEF Prepare, Doing, Continue
  <2>2. Loading'
    BY <1>2, <2>1 DEF Loading, Hook
  <2>3. RollingBack' /\ GivingUp' /\ Idle' /\ AllOrNothing'
    BY <2>1 DEF RollingBack, GivingUp, Idle, AllOrNothing
  <2>4. TypeOK' /\ BackedUnlessForgotten' /\ AllocatorReady'
    BY <1>1, <1>2, <2>1 DEF TypeOK, Steps, BackedUnlessForgotten, AllocatorReady
  <2>. QED
    BY <2>2, <2>3, <2>4 DEF IInv
<1>6. CASE PrepareFails
  <2>1. /\ Throw /\ step = "prepare"
        /\ UNCHANGED <<based, backed, patched, installed, stuck>>
    BY <1>6 DEF PrepareFails, Doing, hooks
  <2>2. Whereabouts' /\ phase' \in Phases /\ at' \in 1 .. Len(Order) /\ step' \in Steps
    BY <1>1, <1>2, <2>1, ThrowKeeps
  <2>. QED
    BY <1>2, <2>1, <2>2 DEF IInv, Whereabouts, TypeOK, BackedUnlessForgotten,
                            AllocatorReady
<1>7. CASE Unprotect \/ UnprotectFails
  <2>1. /\ step = "unprotect" /\ phase' = phase /\ at' = at
        /\ step' \in {"patch", "discard"}
        /\ UNCHANGED <<based, backed, patched, installed, stuck>>
    BY <1>7 DEF Unprotect, UnprotectFails, Doing, Continue, hooks
  <2>2. Loading'
    BY <1>2, <2>1 DEF Loading, Hook
  <2>3. RollingBack' /\ GivingUp' /\ Idle' /\ AllOrNothing'
    BY <2>1 DEF RollingBack, GivingUp, Idle, AllOrNothing
  <2>4. TypeOK' /\ BackedUnlessForgotten' /\ AllocatorReady'
    BY <1>2, <2>1 DEF TypeOK, Steps, BackedUnlessForgotten, AllocatorReady
  <2>. QED
    BY <2>2, <2>3, <2>4 DEF IInv
<1>8. CASE Patch
  <2>1. /\ step = "patch" /\ phase' = phase /\ at' = at /\ step' = "protect"
        /\ patched' = patched \cup {Hook}
        /\ installed' = IF Hook.early THEN installed \cup {Hook} ELSE installed
        /\ UNCHANGED <<based, backed, stuck>>
    BY <1>8 DEF Patch, Doing, Continue
  <2>2. Loading'
    BY <1>1, <1>2, <2>1 DEF Loading, Hook
  <2>3. RollingBack' /\ GivingUp' /\ Idle' /\ AllOrNothing'
    BY <2>1 DEF RollingBack, GivingUp, Idle, AllOrNothing
  <2>4. TypeOK' /\ BackedUnlessForgotten'
    BY <1>1, <1>2, <2>1 DEF TypeOK, Steps, BackedUnlessForgotten
  <2>5. AllocatorReady'
    <3>1. ASSUME Hook = direct PROVE construction \in UpTo(at - 1)
      BY <3>1, OrderFacts DEF Hook, UpTo
    <3>. QED
      BY <1>1, <1>2, <2>1, <3>1 DEF AllocatorReady
  <2>. QED
    BY <2>2, <2>3, <2>4, <2>5 DEF IInv
<1>9. CASE Protect
  <2>1. /\ step = "protect" /\ installed' = installed \cup {Hook} /\ step' = "check"
        /\ Installed /\ UNCHANGED <<based, backed, patched, stuck>>
    BY <1>9 DEF Protect, Doing, Installed
  <2>2. patched' = UpTo(at) /\ installed' = UpTo(at) /\ stuck' = {}
    BY <1>1, <1>2, <2>1
  <2>3. UpTo(at) \subseteq based'
    BY <1>2, <2>1
  <2>4. CASE at < Len(Order)
    <3>1. at' = at + 1 /\ phase' = "loading" /\ UpTo(at' - 1) = UpTo(at)
      BY <2>1, <2>4 DEF Installed
    <3>2. Loading'
      BY <2>1, <2>2, <2>3, <3>1 DEF Loading
    <3>3. RollingBack' /\ GivingUp' /\ Idle' /\ AllOrNothing'
      BY <2>1, <3>1 DEF RollingBack, GivingUp, Idle, AllOrNothing
    <3>4. at' \in 1 .. Len(Order)
      BY <2>4, <3>1
    <3>5. TypeOK' /\ AllocatorReady'
      BY <1>1, <1>2, <2>1, <3>1, <3>4 DEF TypeOK, Phases, Steps, AllocatorReady
    <3>6. BackedUnlessForgotten'
      BY <1>2, <2>1 DEF BackedUnlessForgotten
    <3>. QED
      BY <3>2, <3>3, <3>5, <3>6 DEF IInv
  <2>5. CASE at = Len(Order)
    <3>1. at' = at /\ phase' = "loaded"
      BY <2>1, <2>5 DEF Installed
    <3>2. AllOrNothing'
      BY <1>1, <2>2, <2>5, <3>1 DEF AllOrNothing
    <3>3. Loading' /\ RollingBack' /\ GivingUp' /\ Idle'
      BY <2>1, <3>1 DEF Loading, RollingBack, GivingUp, Idle
    <3>4. TypeOK' /\ BackedUnlessForgotten' /\ AllocatorReady'
      BY <1>1, <1>2, <2>1, <3>1 DEF TypeOK, Phases, Steps, BackedUnlessForgotten,
                                    AllocatorReady
    <3>. QED
      BY <3>2, <3>3, <3>4 DEF IInv
  <2>. QED
    BY <2>4, <2>5
<1>10. CASE ProtectFails
  <2>1. /\ step = "protect" /\ phase' = phase /\ at' = at
        /\ step' = (IF Hook.early THEN "remove" ELSE "restore")
        /\ UNCHANGED <<based, backed, patched, installed, stuck>>
    BY <1>10 DEF ProtectFails, Doing, Continue, hooks
  <2>2. Loading'
    BY <1>2, <2>1 DEF Loading, Hook
  <2>3. RollingBack' /\ GivingUp' /\ Idle' /\ AllOrNothing'
    BY <2>1 DEF RollingBack, GivingUp, Idle, AllOrNothing
  <2>4. TypeOK' /\ BackedUnlessForgotten' /\ AllocatorReady'
    BY <1>2, <2>1 DEF TypeOK, Steps, BackedUnlessForgotten, AllocatorReady
  <2>. QED
    BY <2>2, <2>3, <2>4 DEF IInv
<1>11. CASE Restore
  <2>1. /\ step = "restore" /\ phase' = phase /\ at' = at /\ step' = "discard"
        /\ patched' = patched \ {Hook}
        /\ UNCHANGED <<based, backed, installed, stuck>>
    BY <1>11 DEF Restore, Doing, Continue
  <2>2. Loading'
    BY <1>1, <1>2, <2>1 DEF Loading, Hook
  <2>3. RollingBack' /\ GivingUp' /\ Idle' /\ AllOrNothing'
    BY <2>1 DEF RollingBack, GivingUp, Idle, AllOrNothing
  <2>4. TypeOK' /\ BackedUnlessForgotten' /\ AllocatorReady'
    BY <1>2, <2>1 DEF TypeOK, Steps, BackedUnlessForgotten, AllocatorReady
  <2>. QED
    BY <2>2, <2>3, <2>4 DEF IInv
<1>12. CASE Discard
  <2>1. /\ Throw /\ step = "discard" /\ backed \ {Hook} \subseteq backed'
        /\ backed' \subseteq backed /\ UNCHANGED <<based, patched, installed, stuck>>
    BY <1>12 DEF Discard, Doing
  <2>2. Whereabouts' /\ phase' \in Phases /\ at' \in 1 .. Len(Order) /\ step' \in Steps
    BY <1>1, <1>2, <2>1, ThrowKeeps
  <2>3. Hook \notin patched
    BY <1>1, <1>2, <2>1
  <2>4. BackedUnlessForgotten'
    BY <1>2, <2>1, <2>3 DEF BackedUnlessForgotten
  <2>. QED
    BY <1>2, <2>1, <2>2, <2>4 DEF IInv, Whereabouts, TypeOK, AllocatorReady
<1>. QED
  BY <1>3, <1>4, <1>5, <1>6, <1>7, <1>8, <1>9, <1>10, <1>11, <1>12 DEF InstallStep

-----------------------------------------------------------------------------
(* The steps of a removal.                                                 *)

LEMMA RemoveKeeps ==
  ASSUME IInv, RemoveStep
  PROVE  IInv'
<1>. at \in 1 .. Len(Order) /\ Len(Order) \in Nat \ {0}
  BY OrderFacts DEF IInv, TypeOK
<1>1. /\ UpTo(at) = UpTo(at - 1) \cup {Hook} /\ Hook \notin UpTo(at - 1)
      /\ Hook \in Hooks /\ UpTo(at) \subseteq Hooks
      /\ \A i \in 1 .. Len(Order) : Order[i] = Hook => i = at
      /\ Hook.early => ~Hook.forgets
  BY UpToSteps, OrderFacts DEF Hook
<1>2. /\ phase \in {"loading", "rollingBack"} /\ step \in {"remove", "giveUp"}
      /\ step = "giveUp" /\ Hook \in patched => Hook \in stuck /\ Hook.forgets
      /\ BackedUnlessForgotten /\ AllocatorReady /\ TypeOK
  BY DEF IInv, GivingUp, Idle, TypeOK, Phases, RemoveStep, NotInstalled, Unhook,
         UnhookFails, UnhookForgets, GiveUp, Removing
<1>3. phase = "loading" =>
        /\ stuck = {} /\ installed = UpTo(at) /\ UpTo(at) \subseteq based /\ Hook.early
        /\ patched = IF step = "remove" THEN UpTo(at) ELSE UpTo(at - 1)
  BY <1>2 DEF IInv, Loading
<1>4. phase = "rollingBack" =>
        /\ patched \subseteq installed \cup stuck
        /\ \A i \in at + 1 .. Len(Order) : Order[i] \in patched => Order[i] \in stuck
  BY DEF IInv, RollingBack
<1>5. /\ patched \subseteq installed \cup stuck
      /\ \A i \in at + 1 .. Len(Order) : Order[i] \in patched => Order[i] \in stuck
      /\ patched \subseteq Hooks /\ stuck \subseteq Hooks /\ installed \subseteq Hooks
  <2>1. CASE phase = "loading"
    <3>1. \A i \in at + 1 .. Len(Order) : Order[i] \notin UpTo(at)
      BY OrderFacts DEF UpTo
    <3>. QED
      BY <1>1, <1>2, <1>3, <2>1, <3>1 DEF TypeOK
  <2>. QED
    BY <1>2, <1>4, <2>1 DEF TypeOK
<1>. Order[at] = Hook /\ \A i \in at .. Len(Order) : i = at \/ i \in at + 1 .. Len(Order)
  BY DEF Hook
<1>6. CASE NotInstalled
  <2>1. /\ step = "remove" /\ Hook \notin installed /\ Removed
        /\ UNCHANGED <<based, backed, patched, installed, stuck>>
    BY <1>6 DEF NotInstalled, Removing, hooks
  <2>2. /\ patched' \subseteq installed' \cup stuck'
        /\ \A i \in at .. Len(Order) : Order[i] \in patched' => Order[i] \in stuck'
        /\ phase = "loading" => patched' \subseteq UpTo(at)
    BY <1>1, <1>2, <1>3, <1>5, <2>1
  <2>3. Whereabouts' /\ phase' \in Phases /\ at' \in 1 .. Len(Order) /\ step' \in Steps
    BY <1>2, <1>5, <2>1, <2>2, RemovedKeeps
  <2>. QED
    BY <1>2, <2>1, <2>3 DEF IInv, Whereabouts, TypeOK, BackedUnlessForgotten,
                            AllocatorReady
<1>7. CASE UnhookFails
  <2>1. /\ step = "remove" /\ stuck' = stuck \cup {Hook} /\ Removed
        /\ UNCHANGED <<based, backed, patched, installed>>
    BY <1>7 DEF UnhookFails, Removing, hooks
  <2>2. /\ patched' \subseteq installed' \cup stuck'
        /\ \A i \in at .. Len(Order) : Order[i] \in patched' => Order[i] \in stuck'
        /\ phase = "loading" => patched' \subseteq UpTo(at)
    BY <1>1, <1>2, <1>3, <1>5, <2>1
  <2>3. Whereabouts' /\ phase' \in Phases /\ at' \in 1 .. Len(Order) /\ step' \in Steps
    BY <1>2, <1>5, <2>1, <2>2, RemovedKeeps
  <2>. QED
    BY <1>1, <1>2, <2>1, <2>3 DEF IInv, Whereabouts, TypeOK, BackedUnlessForgotten,
                                  AllocatorReady
<1>8. CASE GiveUp
  <2>1. /\ step = "giveUp" /\ backed' = backed \ {Hook}
        /\ installed' = installed \ {Hook} /\ Removed
        /\ UNCHANGED <<based, patched, stuck>>
    BY <1>8 DEF GiveUp
  <2>2. /\ patched' \subseteq installed' \cup stuck'
        /\ \A i \in at .. Len(Order) : Order[i] \in patched' => Order[i] \in stuck'
        /\ phase = "loading" => patched' \subseteq UpTo(at)
    BY <1>1, <1>2, <1>3, <1>5, <2>1
  <2>3. Whereabouts' /\ phase' \in Phases /\ at' \in 1 .. Len(Order) /\ step' \in Steps
    BY <1>2, <1>5, <2>1, <2>2, RemovedKeeps
  <2>4. BackedUnlessForgotten'
    BY <1>2, <2>1 DEF BackedUnlessForgotten
  <2>. QED
    BY <1>2, <2>1, <2>3, <2>4 DEF IInv, Whereabouts, TypeOK, AllocatorReady
<1>9. CASE Unhook
  <2>1. /\ step = "remove" /\ step' = "giveUp" /\ phase' = phase /\ at' = at
        /\ patched' = patched \ {Hook} /\ stuck' = stuck \ {Hook}
        /\ UNCHANGED <<based, backed, installed>>
    BY <1>9 DEF Unhook, Removing, Continue
  <2>2. Loading'
    BY <1>1, <1>3, <2>1 DEF Loading, Hook
  <2>3. RollingBack'
    BY <1>1, <1>5, <2>1 DEF RollingBack, Hook
  <2>4. GivingUp' /\ Idle' /\ AllOrNothing'
    BY <1>2, <2>1 DEF GivingUp, Idle, AllOrNothing, Hook
  <2>5. TypeOK' /\ BackedUnlessForgotten' /\ AllocatorReady'
    BY <1>2, <2>1 DEF TypeOK, Steps, BackedUnlessForgotten, AllocatorReady
  <2>. QED
    BY <2>2, <2>3, <2>4, <2>5 DEF IInv
<1>10. CASE UnhookForgets
  <2>1. /\ step = "remove" /\ step' = "giveUp" /\ phase' = phase /\ at' = at
        /\ stuck' = stuck \cup {Hook} /\ Hook.forgets
        /\ UNCHANGED <<based, backed, patched, installed>>
    BY <1>10 DEF UnhookForgets, Removing, Continue, hooks
  <2>2. phase = "rollingBack"
    BY <1>1, <1>2, <1>3, <2>1
  <2>3. Loading' /\ Idle' /\ AllOrNothing'
    BY <2>1, <2>2 DEF Loading, Idle, AllOrNothing
  <2>4. RollingBack' /\ GivingUp'
    BY <1>5, <2>1 DEF RollingBack, GivingUp, Hook
  <2>5. TypeOK' /\ BackedUnlessForgotten' /\ AllocatorReady'
    BY <1>1, <1>2, <2>1 DEF TypeOK, Steps, BackedUnlessForgotten, AllocatorReady
  <2>. QED
    BY <2>3, <2>4, <2>5 DEF IInv
<1>. QED
  BY <1>6, <1>7, <1>8, <1>9, <1>10 DEF RemoveStep

-----------------------------------------------------------------------------
(* The invariant, and what it says.                                        *)

(* Whichever steps of an install fail, in whichever hook.                  *)
THEOREM HooksInvariant == Spec => []IInv
<1>1. Init => IInv
  BY OrderFacts DEF Init, IInv, TypeOK, Phases, Steps, Loading, RollingBack, GivingUp,
     Idle, AllOrNothing, BackedUnlessForgotten, AllocatorReady, hooks
<1>2. IInv /\ [Next]_vars => IInv'
  <2>. SUFFICES ASSUME IInv, [Next]_vars PROVE IInv'
    OBVIOUS
  <2>1. CASE OnLoad
    <3>1. /\ phase = "unloaded" /\ at = 1 /\ step = "check" /\ stuck = {}
          /\ based = {} /\ backed = {} /\ patched = {} /\ installed = {}
          /\ phase' \in {"loading", "failed"}
          /\ UNCHANGED <<at, step, based, backed, patched, installed, stuck>>
      BY <2>1 DEF OnLoad, IInv, Idle, hooks
    <3>2. UpTo(at - 1) = {}
      BY <3>1 DEF UpTo
    <3>3. Loading'
      BY <3>1, <3>2 DEF Loading
    <3>. QED
      BY <3>1, <3>3 DEF IInv, TypeOK, Phases, RollingBack, GivingUp, Idle, AllOrNothing,
         BackedUnlessForgotten, AllocatorReady
  <2>2. CASE OnLoadAgain \/ UNCHANGED vars
    <3>1. UNCHANGED <<phase, at, step, based, backed, patched, installed, stuck>>
      BY <2>2 DEF OnLoadAgain, vars, hooks
    <3>. QED
      BY <3>1 DEF IInv, TypeOK, Loading, RollingBack, GivingUp, Idle, AllOrNothing,
         BackedUnlessForgotten, AllocatorReady, Hook, hooks
  <2>. QED
    BY <2>1, <2>2, InstallKeeps, RemoveKeeps DEF Next
<1>. QED
  BY <1>1, <1>2, PTL DEF Spec

(* onLoad installs all its hooks or, when it throws, leaves none but those *)
(* whose page could not be made writable.                                  *)
THEOREM LoadsAllOrNothing == Spec => []AllOrNothing
<1>. IInv => AllOrNothing
  BY DEF IInv
<1>. QED
  BY HooksInvariant, PTL

(* A thread that runs into a hook while the plugin loads or rolls back     *)
(* finds the trampoline or the registry, unless remove forgot the hook.    *)
THEOREM HooksAreBacked == Spec => []BackedUnlessForgotten
<1>. IInv => BackedUnlessForgotten
  BY DEF IInv
<1>. QED
  BY HooksInvariant, PTL

(* The direct constructor never runs before its allocator has its base.    *)
THEOREM AllocatorComesFirst == Spec => []AllocatorReady
<1>. IInv => AllocatorReady
  BY DEF IInv
<1>. QED
  BY HooksInvariant, PTL
=============================================================================
