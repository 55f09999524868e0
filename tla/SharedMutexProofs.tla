------------------------- MODULE SharedMutexProofs -------------------------
(***************************************************************************)
(* The shared mutexes, for every number of threads, addresses and cache    *)
(* entries: one lock per address, and the promise of a reader-writer lock. *)
(***************************************************************************)
EXTENDS SharedMutex, FiniteSetTheorems, TLAPS

(* Where a thread is in a call, and what it knows there.                   *)
PlacedAt(t) ==
  /\ pc[t] \in {"find", "emplace", "leave"} <=> owner = t
  /\ pc[t] # "idle" => key[t] \in Keys /\ Proper(t, operation[t], key[t])
  /\ pc[t] = "emplace" => registry[key[t]] = NoLock
  /\ pc[t] \in {"leave", "operate"} =>
       lock[t] # NoLock /\ lock[t] = registry[key[t]]

Placed == \A t \in Threads : PlacedAt(t)

(* A lock is registered for the address it was allocated for.              *)
Registered == \A k \in Keys : registry[k] # NoLock => registry[k][1] = k

Cached ==
  \A t \in Threads, s \in Slots :
    IF cache[t][s].key = NoKey
    THEN cache[t][s] = NoEntry
    ELSE /\ cache[t][s].lock # NoLock
         /\ registry[cache[t][s].key] = cache[t][s].lock

(* Nobody has touched a lock that is not registered.                       *)
Fresh == \A l \in Locks : registry[l[1]] # l => Free(l)

Readers(k) == {t \in Threads : held[t][k] = "read"}

(* LockKnowsHolders, of one address.                                       *)
Known(k) ==
  IF registry[k] = NoLock
  THEN \A t \in Threads : held[t][k] = "no"
  ELSE /\ \A t \in Threads : writer[registry[k]] = t <=> held[t][k] = "write"
       /\ readers[registry[k]] = Cardinality(Readers(k))

Shape == TypeOK /\ Placed /\ Registered /\ Cached
LockInv == Shape /\ Fresh /\ \A k \in Keys : Known(k)

LEMMA KnownEverywhere == LockKnowsHolders <=> \A k \in Keys : Known(k)
BY DEF LockKnowsHolders, Known, Readers

LEMMA ReadersFinite ==
  ASSUME NEW k \in Keys
  PROVE  /\ IsFiniteSet(Readers(k))
         /\ Cardinality(Readers(k)) \in Nat
         /\ Cardinality(Readers(k)) = 0 <=> Readers(k) = {}
BY MutexAssumption, FS_Subset, FS_CardinalityType, FS_EmptySet DEF Readers

-----------------------------------------------------------------------------
LEMMA InitHolds == Init => LockInv
<1>. SUFFICES ASSUME Init PROVE LockInv
  OBVIOUS
<1>1. TypeOK
  BY DEF Init, TypeOK, CacheEntry, NoEntry, Modes, Places, Operations
<1>2. Placed
  BY MutexAssumption DEF Init, Placed, PlacedAt
<1>3. Registered /\ Cached /\ Fresh
  BY MutexAssumption DEF Init, Registered, Cached, Fresh, Free, NoEntry, Locks
<1>4. \A k \in Keys : Known(k)
  BY DEF Init, Known
<1>. QED
  BY <1>1, <1>2, <1>3, <1>4 DEF LockInv, Shape

(* Steps that leave the locks and their holders alone keep what is known   *)
(* of them.                                                                *)
LEMMA UntouchedKeeps ==
  ASSUME LockInv, Shape', UNCHANGED <<registry, writer, readers, held>>
  PROVE  LockInv'
<1>1. Fresh'
  BY DEF LockInv, Fresh, Free, Locks
<1>2. \A k \in Keys : Known(k)'
  BY DEF LockInv, Known, Readers
<1>. QED
  BY <1>1, <1>2 DEF LockInv

(* A thread that the step does not concern.                                *)
LEMMA BystanderPlaced ==
  ASSUME NEW u \in Threads, PlacedAt(u),
         pc'[u] = pc[u], operation'[u] = operation[u], key'[u] = key[u],
         lock'[u] = lock[u], held'[u] = held[u],
         owner' = u <=> owner = u,
         pc[u] \in {"emplace", "leave", "operate"} =>
           registry'[key[u]] = registry[key[u]]
  PROVE  PlacedAt(u)'
BY DEF PlacedAt, Proper

LEMMA CallKeeps ==
  ASSUME LockInv, NEW t \in Threads, Call(t)
  PROVE  LockInv'
<1>1. PICK op \in Operations, k \in Keys :
        /\ Proper(t, op, k)
        /\ operation' = [operation EXCEPT ![t] = op]
        /\ key' = [key EXCEPT ![t] = k]
        /\ LookInCache(t, k)
  BY DEF Call
<1>2. pc[t] = "idle" /\ UNCHANGED <<shared, cache, held>>
  BY DEF Call
<1>. DEFINE cached == cache[t][SlotOf[k]]
<1>3. cached \in CacheEntry /\ k # NoKey /\ cached.lock \in Locks \cup {NoLock}
  BY MutexAssumption DEF LockInv, Shape, TypeOK, CacheEntry
<1>4. cached.key = k => cached.lock # NoLock /\ registry[k] = cached.lock
  BY <1>3, MutexAssumption DEF LockInv, Shape, Cached
<1>5. \/ /\ cached.key = k
         /\ lock' = [lock EXCEPT ![t] = cached.lock]
         /\ pc' = [pc EXCEPT ![t] = "operate"]
      \/ lock' = lock /\ pc' = [pc EXCEPT ![t] = "registry"]
  BY <1>1 DEF LookInCache, Goto
<1>6. TypeOK'
  BY <1>1, <1>2, <1>3, <1>5 DEF LockInv, Shape, TypeOK, shared, Places
<1>7. Placed'
  <2>1. ASSUME NEW u \in Threads \ {t} PROVE PlacedAt(u)'
    <3>1. /\ pc'[u] = pc[u] /\ key'[u] = key[u] /\ lock'[u] = lock[u]
          /\ operation'[u] = operation[u]
      BY <1>1, <1>5 DEF LockInv, Shape, TypeOK
    <3>2. PlacedAt(u)
      BY DEF LockInv, Shape, Placed
    <3>. QED
      BY <1>2, <3>1, <3>2, BystanderPlaced DEF shared
  <2>2. PlacedAt(t)'
    <3>1. /\ pc'[t] \in {"operate", "registry"} /\ key'[t] = k
          /\ operation'[t] = op
          /\ pc'[t] = "operate" => lock'[t] # NoLock /\ lock'[t] = registry[k]
      BY <1>1, <1>4, <1>5 DEF LockInv, Shape, TypeOK
    <3>2. Proper(t, op, k)'
      BY <1>1, <1>2 DEF Proper
    <3>3. owner' # t
      BY <1>2 DEF LockInv, Shape, Placed, PlacedAt, shared
    <3>. QED
      BY <1>2, <3>1, <3>2, <3>3 DEF PlacedAt, Proper, shared
  <2>. QED
    BY <2>1, <2>2 DEF Placed
<1>8. Registered' /\ Cached'
  BY <1>2 DEF LockInv, Shape, Registered, Cached, shared
<1>. QED
  BY <1>2, <1>6, <1>7, <1>8, UntouchedKeeps DEF Shape, shared

(* A step of resolve that stays inside it, up to the registry.             *)
LEMMA EnterKeeps ==
  ASSUME LockInv, NEW t \in Threads, Enter(t)
  PROVE  LockInv'
<1>1. /\ pc[t] = "registry" /\ owner = Nobody /\ owner' = t
      /\ pc' = [pc EXCEPT ![t] = "find"]
      /\ UNCHANGED <<registry, writer, readers, cache, held, local>>
  BY DEF Enter, Goto
<1>2. TypeOK'
  BY <1>1 DEF LockInv, Shape, TypeOK, local, Places
<1>3. Placed'
  <2>1. ASSUME NEW u \in Threads \ {t} PROVE PlacedAt(u)'
    <3>1. pc'[u] = pc[u] /\ PlacedAt(u) /\ owner # u /\ owner' # u
      BY <1>1, MutexAssumption DEF LockInv, Shape, TypeOK, Placed
    <3>. QED
      BY <1>1, <3>1, BystanderPlaced DEF local
  <2>2. PlacedAt(t)'
    <3>1. pc'[t] = "find" /\ PlacedAt(t)
      BY <1>1 DEF LockInv, Shape, TypeOK, Placed
    <3>. QED
      BY <1>1, <3>1 DEF PlacedAt, Proper, local
  <2>. QED
    BY <2>1, <2>2 DEF Placed
<1>4. Registered' /\ Cached'
  BY <1>1 DEF LockInv, Shape, Registered, Cached
<1>. QED
  BY <1>1, <1>2, <1>3, <1>4, UntouchedKeeps DEF Shape

LEMMA FindKeeps ==
  ASSUME LockInv, NEW t \in Threads, Find(t)
  PROVE  LockInv'
<1>1. /\ pc[t] = "find"
      /\ lock' = [lock EXCEPT ![t] = registry[key[t]]]
      /\ pc' = [pc EXCEPT ![t] =
                  IF registry[key[t]] = NoLock THEN "emplace" ELSE "leave"]
      /\ UNCHANGED <<shared, cache, held, operation, key>>
  BY DEF Find, Goto
<1>2. PlacedAt(t) /\ key[t] \in Keys /\ registry[key[t]] \in Locks \cup {NoLock}
  BY <1>1 DEF LockInv, Shape, TypeOK, Placed, PlacedAt
<1>3. TypeOK'
  BY <1>1, <1>2 DEF LockInv, Shape, TypeOK, shared, Places
<1>4. Placed'
  <2>1. ASSUME NEW u \in Threads \ {t} PROVE PlacedAt(u)'
    <3>1. pc'[u] = pc[u] /\ lock'[u] = lock[u] /\ PlacedAt(u)
      BY <1>1 DEF LockInv, Shape, TypeOK, Placed
    <3>. QED
      BY <1>1, <3>1, BystanderPlaced DEF shared
  <2>2. PlacedAt(t)'
    <3>1. /\ lock'[t] = registry[key[t]]
          /\ pc'[t] = IF registry[key[t]] = NoLock THEN "emplace" ELSE "leave"
          /\ registry' = registry /\ key' = key
      BY <1>1 DEF LockInv, Shape, TypeOK, shared
    <3>2. Proper(t, operation[t], key[t])'
      BY <1>1, <1>2 DEF PlacedAt, Proper
    <3>3. owner' = t
      BY <1>1, <1>2 DEF PlacedAt, shared
    <3>. QED
      BY <1>2, <3>1, <3>2, <3>3 DEF PlacedAt
  <2>. QED
    BY <2>1, <2>2 DEF Placed
<1>5. Registered' /\ Cached'
  BY <1>1 DEF LockInv, Shape, Registered, Cached, shared
<1>. QED
  BY <1>1, <1>3, <1>4, <1>5, UntouchedKeeps DEF Shape, shared

(* The thread that searches the registry is alone in it: nobody else uses, *)
(* or is about to use, an address that has no lock yet.                    *)
LEMMA AloneInRegistry ==
  ASSUME LockInv, NEW t \in Threads, pc[t] = "emplace"
  PROVE  /\ owner = t /\ key[t] \in Keys /\ registry[key[t]] = NoLock
         /\ \A u \in Threads \ {t} :
              pc[u] \in {"emplace", "leave", "operate"} => key[u] # key[t]
<1>1. owner = t /\ key[t] \in Keys /\ registry[key[t]] = NoLock
  BY DEF LockInv, Shape, Placed, PlacedAt
<1>2. ASSUME NEW u \in Threads \ {t}, pc[u] \in {"emplace", "leave", "operate"}
      PROVE  key[u] # key[t]
  BY <1>1, <1>2 DEF LockInv, Shape, Placed, PlacedAt
<1>. QED
  BY <1>1, <1>2

LEMMA EmplaceKeeps ==
  ASSUME LockInv, NEW t \in Threads, Emplace(t)
  PROVE  LockInv'
<1>. DEFINE new == <<key[t], t>>
<1>1. /\ pc[t] = "emplace"
      /\ registry' = [registry EXCEPT ![key[t]] = new]
      /\ lock' = [lock EXCEPT ![t] = new]
      /\ pc' = [pc EXCEPT ![t] = "leave"]
      /\ UNCHANGED <<owner, writer, readers, cache, held, operation, key>>
  BY DEF Emplace, Goto
<1>2. /\ owner = t /\ key[t] \in Keys /\ registry[key[t]] = NoLock
      /\ \A u \in Threads \ {t} :
           pc[u] \in {"emplace", "leave", "operate"} => key[u] # key[t]
  BY <1>1, AloneInRegistry
<1>3. new \in Locks /\ new # NoLock /\ new[1] = key[t]
  BY <1>2, MutexAssumption DEF Locks
<1>4. TypeOK'
  BY <1>1, <1>2, <1>3 DEF LockInv, Shape, TypeOK, Places
<1>5. /\ registry'[key[t]] = new
      /\ \A k \in Keys : k # key[t] => registry'[k] = registry[k]
  BY <1>1, <1>2 DEF LockInv, Shape, TypeOK
<1>6. Placed'
  <2>1. ASSUME NEW u \in Threads \ {t} PROVE PlacedAt(u)'
    <3>1. pc'[u] = pc[u] /\ lock'[u] = lock[u] /\ PlacedAt(u)
      BY <1>1 DEF LockInv, Shape, TypeOK, Placed
    <3>2. pc[u] \in {"emplace", "leave", "operate"} =>
            registry'[key[u]] = registry[key[u]]
      BY <1>2, <1>5, <3>1 DEF PlacedAt
    <3>. QED
      BY <1>1, <3>1, <3>2, BystanderPlaced
  <2>2. PlacedAt(t)'
    <3>1. pc'[t] = "leave" /\ lock'[t] = new /\ owner' = t /\ key' = key
      BY <1>1, <1>2 DEF LockInv, Shape, TypeOK
    <3>2. Proper(t, operation[t], key[t])'
      BY <1>1 DEF LockInv, Shape, Placed, PlacedAt, Proper
    <3>. QED
      BY <1>2, <1>3, <1>5, <3>1, <3>2 DEF PlacedAt
  <2>. QED
    BY <2>1, <2>2 DEF Placed
<1>7. Registered'
  BY <1>3, <1>5 DEF LockInv, Shape, Registered
<1>8. Cached'
  <2>. SUFFICES ASSUME NEW u \in Threads, NEW s \in Slots, cache[u][s].key # NoKey
                PROVE  /\ cache[u][s].lock # NoLock
                       /\ registry'[cache[u][s].key] = cache[u][s].lock
    BY <1>1 DEF LockInv, Shape, Cached
  <2>1. cache[u][s] \in CacheEntry
    BY DEF LockInv, Shape, TypeOK
  <2>2. cache[u][s].lock # NoLock /\ registry[cache[u][s].key] = cache[u][s].lock
    BY DEF LockInv, Shape, Cached
  <2>. QED
    BY <1>2, <1>5, <2>1, <2>2 DEF CacheEntry
<1>9. Fresh'
  <2>. SUFFICES ASSUME NEW l \in Locks, registry'[l[1]] # l PROVE Free(l)
    BY <1>1 DEF Fresh, Free
  <2>1. l[1] \in Keys
    BY DEF Locks
  <2>2. registry[l[1]] # l
    BY <1>2, <1>5, <2>1, MutexAssumption DEF Locks
  <2>. QED
    BY <2>2 DEF LockInv, Fresh
<1>10. ASSUME NEW k \in Keys PROVE Known(k)'
  <2>1. CASE k # key[t]
    BY <1>1, <1>5, <2>1 DEF LockInv, Known, Readers
  <2>2. CASE k = key[t]
    <3>1. \A u \in Threads : held[u][k] = "no"
      BY <1>2, <2>2 DEF LockInv, Known
    <3>2. Readers(k) = {}
      BY <3>1 DEF Readers
    <3>3. Cardinality(Readers(k)) = 0
      BY <3>2, ReadersFinite
    <3>4. writer[new] = Nobody /\ readers[new] = 0
      BY <1>2, <1>3 DEF LockInv, Fresh, Free
    <3>5. Readers(k)' = Readers(k)
      BY <1>1 DEF Readers
    <3>. QED
      BY <1>1, <1>3, <1>5, <2>2, <3>1, <3>3, <3>4, <3>5, MutexAssumption DEF Known
  <2>. QED
    BY <2>1, <2>2
<1>. QED
  BY <1>4, <1>6, <1>7, <1>8, <1>9, <1>10 DEF LockInv, Shape

LEMMA LeaveKeeps ==
  ASSUME LockInv, NEW t \in Threads, Leave(t)
  PROVE  LockInv'
<1>. DEFINE entry == [key |-> key[t], lock |-> lock[t]]
<1>1. /\ pc[t] = "leave"
      /\ owner' = Nobody
      /\ cache' = [cache EXCEPT ![t][SlotOf[key[t]]] = entry]
      /\ pc' = [pc EXCEPT ![t] = "operate"]
      /\ UNCHANGED <<registry, writer, readers, held, local>>
  BY DEF Leave, Goto
<1>2. /\ owner = t /\ key[t] \in Keys /\ lock[t] \in Locks
      /\ lock[t] # NoLock /\ lock[t] = registry[key[t]] /\ PlacedAt(t)
  BY <1>1 DEF LockInv, Shape, TypeOK, Placed, PlacedAt
<1>3. entry \in CacheEntry /\ entry.key # NoKey /\ SlotOf[key[t]] \in Slots
  BY <1>2, MutexAssumption DEF CacheEntry
<1>4. TypeOK'
  BY <1>1, <1>2, <1>3 DEF LockInv, Shape, TypeOK, local, Places
<1>5. Placed'
  <2>1. ASSUME NEW u \in Threads \ {t} PROVE PlacedAt(u)'
    <3>1. pc'[u] = pc[u] /\ PlacedAt(u) /\ owner # u /\ owner' # u
      BY <1>1, <1>2, MutexAssumption DEF LockInv, Shape, TypeOK, Placed
    <3>. QED
      BY <1>1, <3>1, BystanderPlaced DEF local
  <2>2. PlacedAt(t)'
    <3>1. pc'[t] = "operate" /\ owner' # t
      BY <1>1, MutexAssumption DEF LockInv, Shape, TypeOK
    <3>2. Proper(t, operation[t], key[t])'
      BY <1>1, <1>2 DEF PlacedAt, Proper, local
    <3>. QED
      BY <1>1, <1>2, <3>1, <3>2 DEF PlacedAt, local
  <2>. QED
    BY <2>1, <2>2 DEF Placed
<1>6. Cached'
  <2>. SUFFICES ASSUME NEW u \in Threads, NEW s \in Slots
                PROVE  IF cache'[u][s].key = NoKey
                       THEN cache'[u][s] = NoEntry
                       ELSE /\ cache'[u][s].lock # NoLock
                            /\ registry[cache'[u][s].key] = cache'[u][s].lock
    BY <1>1 DEF Cached
  <2>1. CASE u = t /\ s = SlotOf[key[t]]
    <3>1. cache'[u][s] = entry
      BY <1>1, <2>1 DEF LockInv, Shape, TypeOK
    <3>. QED
      BY <1>2, <1>3, <3>1
  <2>2. CASE ~(u = t /\ s = SlotOf[key[t]])
    <3>1. cache'[u][s] = cache[u][s]
      BY <1>1, <2>2 DEF LockInv, Shape, TypeOK
    <3>. QED
      BY <3>1 DEF LockInv, Shape, Cached
  <2>. QED
    BY <2>1, <2>2
<1>7. Registered'
  BY <1>1 DEF LockInv, Shape, Registered
<1>. QED
  BY <1>1, <1>4, <1>5, <1>6, <1>7, UntouchedKeeps DEF Shape

-----------------------------------------------------------------------------
(* The end of a call, whatever it did to its own lock.                     *)
LEMMA EndKeepsShape ==
  ASSUME LockInv, NEW t \in Threads, End(t),
         pc[t] \in {"emplace", "operate"},
         pc[t] = "operate" => owner' = owner,
         pc[t] = "emplace" => owner' = Nobody,
         UNCHANGED <<registry, cache>>,
         writer' \in [Locks -> Threads \cup {Nobody}],
         readers' \in [Locks -> Nat],
         held' \in [Threads -> [Keys -> Modes]],
         \A u \in Threads \ {t} : held'[u] = held[u]
  PROVE  Shape'
<1>1. /\ pc' = [pc EXCEPT ![t] = "idle"]
      /\ operation' = [operation EXCEPT ![t] = "lock"]
      /\ key' = [key EXCEPT ![t] = NoKey]
      /\ lock' = [lock EXCEPT ![t] = NoLock]
  BY DEF End, Goto
<1>2. PlacedAt(t) /\ owner' \in Threads \cup {Nobody} /\ owner' # t
  BY MutexAssumption DEF LockInv, Shape, TypeOK, Placed, PlacedAt
<1>3. TypeOK'
  BY <1>1, <1>2 DEF LockInv, Shape, TypeOK, Places, Operations
<1>4. ASSUME NEW u \in Threads \ {t} PROVE PlacedAt(u)'
  <2>1. /\ pc'[u] = pc[u] /\ operation'[u] = operation[u]
        /\ key'[u] = key[u] /\ lock'[u] = lock[u]
    BY <1>1 DEF LockInv, Shape, TypeOK
  <2>2. owner' = u <=> owner = u
    BY <1>2, MutexAssumption DEF PlacedAt
  <2>. QED
    BY <2>1, <2>2, BystanderPlaced DEF LockInv, Shape, Placed
<1>5. PlacedAt(t)'
  <2>1. pc'[t] = "idle"
    BY <1>1 DEF LockInv, Shape, TypeOK
  <2>. QED
    BY <1>2, <2>1 DEF PlacedAt
<1>6. Registered' /\ Cached'
  BY DEF LockInv, Shape, Registered, Cached
<1>. QED
  BY <1>3, <1>4, <1>5, <1>6 DEF Shape, Placed

LEMMA EmplaceFailsKeeps ==
  ASSUME LockInv, NEW t \in Threads, EmplaceFails(t)
  PROVE  LockInv'
<1>1. Shape'
  BY EndKeepsShape DEF EmplaceFails, LockInv, Shape, TypeOK
<1>. QED
  BY <1>1, UntouchedKeeps DEF EmplaceFails

(* An operation that fails leaves its lock alone.                          *)
LEMMA FailureKeeps ==
  ASSUME LockInv, NEW t \in Threads, pc[t] = "operate", Return(t),
         UNCHANGED <<writer, readers, held>>
  PROVE  LockInv'
<1>1. Shape'
  BY EndKeepsShape DEF Return, LockInv, Shape, TypeOK
<1>. QED
  BY <1>1, UntouchedKeeps DEF Return

(* What a thread knows when it has reached its lock.                       *)
LEMMA AtOwnLock ==
  ASSUME LockInv, NEW t \in Threads, pc[t] = "operate"
  PROVE  /\ key[t] \in Keys /\ lock[t] \in Locks
         /\ lock[t] = registry[key[t]] /\ lock[t] # NoLock
         /\ Proper(t, operation[t], key[t])
         /\ \A k \in Keys : k # key[t] => registry[k] # lock[t]
         /\ \A u \in Threads : writer[lock[t]] = u <=> held[u][key[t]] = "write"
         /\ readers[lock[t]] = Cardinality(Readers(key[t]))
<1>1. /\ key[t] \in Keys /\ lock[t] = registry[key[t]] /\ lock[t] # NoLock
      /\ Proper(t, operation[t], key[t])
  BY DEF LockInv, Shape, Placed, PlacedAt
<1>2. lock[t] \in Locks
  BY <1>1 DEF LockInv, Shape, TypeOK
<1>3. ASSUME NEW k \in Keys, k # key[t] PROVE registry[k] # lock[t]
  BY <1>1, <1>3 DEF LockInv, Shape, Registered
<1>4. Known(key[t])
  BY <1>1 DEF LockInv
<1>. QED
  BY <1>1, <1>2, <1>3, <1>4 DEF Known

(* An operation that takes or gives back its own lock.                     *)
LEMMA SuccessKeeps ==
  ASSUME LockInv, NEW t \in Threads, pc[t] = "operate",
         NEW own \in Keys, own = key[t],
         NEW mode \in Modes, Return(t), Hold(t, mode),
         writer' \in [Locks -> Threads \cup {Nobody}],
         readers' \in [Locks -> Nat],
         \A l \in Locks \ {lock[t]} : writer'[l] = writer[l] /\ readers'[l] = readers[l],
         \A u \in Threads : writer'[lock[t]] = u <=> held'[u][own] = "write",
         readers'[lock[t]] = Cardinality(Readers(own)')
  PROVE  LockInv'
<1>1. /\ key[t] \in Keys /\ lock[t] \in Locks
      /\ lock[t] = registry[key[t]] /\ lock[t] # NoLock
      /\ \A k \in Keys : k # key[t] => registry[k] # lock[t]
  BY AtOwnLock
<1>2. /\ held' = [held EXCEPT ![t][key[t]] = mode]
      /\ UNCHANGED <<registry, owner, cache>> /\ End(t)
  BY DEF Hold, Return
<1>3. /\ held' \in [Threads -> [Keys -> Modes]]
      /\ \A u \in Threads \ {t} : held'[u] = held[u]
      /\ \A u \in Threads : \A k \in Keys : k # key[t] => held'[u][k] = held[u][k]
  BY <1>1, <1>2 DEF LockInv, Shape, TypeOK
<1>4. Shape'
  BY <1>2, <1>3, EndKeepsShape
<1>5. Fresh'
  <2>. SUFFICES ASSUME NEW l \in Locks, registry[l[1]] # l PROVE Free(l)'
    BY <1>2 DEF Fresh
  <2>1. Free(l)
    BY DEF LockInv, Fresh
  <2>2. l # lock[t]
    <3>1. lock[t][1] = key[t]
      BY <1>1 DEF LockInv, Shape, Registered
    <3>. QED
      BY <1>1, <3>1
  <2>. QED
    BY <2>1, <2>2 DEF Free
<1>6. ASSUME NEW k \in Keys PROVE Known(k)'
  <2>1. CASE k = key[t]
    BY <1>1, <1>2, <2>1 DEF Known
  <2>2. CASE k # key[t]
    <3>1. Readers(k)' = Readers(k)
      BY <1>3, <2>2 DEF Readers
    <3>2. Known(k) /\ registry[k] # lock[t] /\ registry[k] \in Locks \cup {NoLock}
      BY <1>1, <2>2 DEF LockInv, Shape, TypeOK
    <3>. QED
      BY <1>2, <1>3, <2>2, <3>1, <3>2 DEF Known
  <2>. QED
    BY <2>1, <2>2
<1>. QED
  BY <1>4, <1>5, <1>6 DEF LockInv

LEMMA WriteLockKeeps ==
  ASSUME LockInv, NEW t \in Threads, WriteLock(t)
  PROVE  LockInv' /\ \E k \in Keys : Locking!AcquireWrite(t, k)
<1>1. /\ pc[t] = "operate" /\ Return(t) /\ Hold(t, "write")
      /\ writer[lock[t]] = Nobody /\ readers[lock[t]] = 0
      /\ writer' = [writer EXCEPT ![lock[t]] = t] /\ readers' = readers
  BY DEF WriteLock, Operating, Free
<1>2. PICK own \in Keys : own = key[t]
  BY <1>1, AtOwnLock
<1>3. /\ lock[t] \in Locks
      /\ \A u \in Threads : writer[lock[t]] = u <=> held[u][own] = "write"
      /\ readers[lock[t]] = Cardinality(Readers(own))
  BY <1>1, <1>2, AtOwnLock
<1>4. \A u \in Threads : held[u][own] = "no"
  <2>1. Readers(own) = {}
    BY <1>1, <1>3, ReadersFinite
  <2>2. \A u \in Threads : held[u][own] \in Modes /\ held[u][own] # "write"
    BY <1>1, <1>3, MutexAssumption DEF LockInv, Shape, TypeOK
  <2>. QED
    BY <2>1, <2>2 DEF Readers, Modes
<1>5. \A u \in Threads : held'[u][own] = IF u = t THEN "write" ELSE "no"
  BY <1>1, <1>2, <1>4 DEF Hold, LockInv, Shape, TypeOK
<1>6. Cardinality(Readers(own)') = 0
  <2>1. Readers(own)' = {}
    BY <1>5 DEF Readers
  <2>. QED
    BY <2>1, FS_EmptySet
<1>7. /\ writer' \in [Locks -> Threads \cup {Nobody}]
      /\ \A l \in Locks : writer'[l] = IF l = lock[t] THEN t ELSE writer[l]
      /\ readers' \in [Locks -> Nat] /\ "write" \in Modes
  BY <1>1, <1>3 DEF LockInv, Shape, TypeOK, Modes
<1>8. LockInv'
  BY <1>1, <1>2, <1>3, <1>5, <1>6, <1>7, SuccessKeeps
<1>9. Locking!AcquireWrite(t, own)
  BY <1>1, <1>2, <1>4 DEF Hold, Locking!AcquireWrite, Locking!Hold
<1>. QED
  BY <1>8, <1>9

LEMMA ReadLockKeeps ==
  ASSUME LockInv, NEW t \in Threads, ReadLock(t)
  PROVE  LockInv' /\ \E k \in Keys : Locking!AcquireRead(t, k)
<1>1. /\ pc[t] = "operate" /\ Return(t) /\ Hold(t, "read")
      /\ operation[t] \in {"lock reader", "try lock reader"}
      /\ writer[lock[t]] = Nobody /\ writer' = writer
      /\ readers' = [readers EXCEPT ![lock[t]] = @ + 1]
  BY DEF ReadLock, Operating
<1>2. PICK own \in Keys : own = key[t]
  BY <1>1, AtOwnLock
<1>3. /\ lock[t] \in Locks
      /\ \A u \in Threads : writer[lock[t]] = u <=> held[u][own] = "write"
      /\ readers[lock[t]] = Cardinality(Readers(own))
      /\ Proper(t, operation[t], own)
  BY <1>1, <1>2, AtOwnLock
<1>4. held[t][own] = "no" /\ \A u \in Threads : held[u][own] # "write"
  BY <1>1, <1>3, MutexAssumption DEF Proper
<1>5. \A u \in Threads : held'[u][own] = IF u = t THEN "read" ELSE held[u][own]
  BY <1>1, <1>2 DEF Hold, LockInv, Shape, TypeOK
<1>6. Cardinality(Readers(own)') = Cardinality(Readers(own)) + 1
  <2>1. Readers(own)' = Readers(own) \cup {t} /\ t \notin Readers(own)
    BY <1>4, <1>5 DEF Readers
  <2>. QED
    BY <2>1, ReadersFinite, FS_AddElement
<1>7. /\ readers' \in [Locks -> Nat]
      /\ \A l \in Locks : readers'[l] = IF l = lock[t] THEN readers[l] + 1 ELSE readers[l]
      /\ writer' \in [Locks -> Threads \cup {Nobody}] /\ "read" \in Modes
  <2>1. readers[lock[t]] + 1 \in Nat /\ readers \in [Locks -> Nat]
    BY <1>3 DEF LockInv, Shape, TypeOK
  <2>. QED
    BY <1>1, <1>3, <2>1 DEF LockInv, Shape, TypeOK, Modes
<1>8. /\ \A u \in Threads : writer'[lock[t]] = u <=> held'[u][own] = "write"
      /\ readers'[lock[t]] = Cardinality(Readers(own)')
  BY <1>1, <1>3, <1>4, <1>5, <1>6, <1>7, MutexAssumption
<1>9. LockInv'
  BY <1>1, <1>2, <1>7, <1>8, SuccessKeeps
<1>10. Locking!AcquireRead(t, own)
  BY <1>1, <1>2, <1>4 DEF Hold, Locking!AcquireRead, Locking!Hold
<1>. QED
  BY <1>9, <1>10

LEMMA UnlockKeeps ==
  ASSUME LockInv, NEW t \in Threads, Unlock(t)
  PROVE  LockInv' /\ \E k \in Keys : Locking!Release(t, k)
<1>1. /\ pc[t] = "operate" /\ Return(t) /\ Hold(t, "no")
      /\ operation[t] \in {"unlock", "unlock reader"}
      /\ IF writer[lock[t]] = t
         THEN writer' = [writer EXCEPT ![lock[t]] = Nobody] /\ readers' = readers
         ELSE readers' = [readers EXCEPT ![lock[t]] = @ - 1] /\ writer' = writer
  BY DEF Unlock, Operating
<1>2. PICK own \in Keys : own = key[t]
  BY <1>1, AtOwnLock
<1>3. /\ lock[t] \in Locks
      /\ \A u \in Threads : writer[lock[t]] = u <=> held[u][own] = "write"
      /\ readers[lock[t]] = Cardinality(Readers(own))
      /\ Proper(t, operation[t], own)
  BY <1>1, <1>2, AtOwnLock
<1>4. \A u \in Threads : held'[u][own] = IF u = t THEN "no" ELSE held[u][own]
  BY <1>1, <1>2 DEF Hold, LockInv, Shape, TypeOK
<1>5. LockInv' /\ held[t][own] # "no"
  <2>1. CASE writer[lock[t]] = t
    <3>1. held[t][own] = "write"
      BY <1>3, <2>1
    <3>2. Readers(own)' = Readers(own)
      BY <1>4, <3>1 DEF Readers
    <3>3. /\ writer' \in [Locks -> Threads \cup {Nobody}]
          /\ \A l \in Locks : writer'[l] = IF l = lock[t] THEN Nobody ELSE writer[l]
          /\ readers' \in [Locks -> Nat] /\ "no" \in Modes
      BY <1>1, <1>3, <2>1 DEF LockInv, Shape, TypeOK, Modes
    <3>4. \A u \in Threads : writer'[lock[t]] = u <=> held'[u][own] = "write"
      BY <1>3, <1>4, <2>1, <3>3, MutexAssumption
    <3>5. readers'[lock[t]] = Cardinality(Readers(own)') /\ readers' = readers
      BY <1>1, <1>3, <2>1, <3>2
    <3>. QED
      BY <1>1, <1>2, <3>1, <3>3, <3>4, <3>5, SuccessKeeps
  <2>2. CASE writer[lock[t]] # t
    <3>1. held[t][own] = "read"
      BY <1>1, <1>3, <2>2 DEF Proper
    <3>2. /\ Cardinality(Readers(own)') = Cardinality(Readers(own)) - 1
          /\ Cardinality(Readers(own)) \in Nat \ {0}
      <4>1. Readers(own)' = Readers(own) \ {t} /\ t \in Readers(own)
        BY <1>4, <3>1 DEF Readers
      <4>. QED
        BY <4>1, ReadersFinite, FS_RemoveElement
    <3>3. /\ readers' = [readers EXCEPT ![lock[t]] = @ - 1] /\ writer' = writer
          /\ readers[lock[t]] - 1 \in Nat
      <4>1. readers[lock[t]] \in Nat \ {0}
        BY <1>3, <3>2
      <4>2. readers[lock[t]] - 1 \in Nat
        BY <4>1
      <4>. QED
        BY <1>1, <2>2, <4>2
    <3>4. /\ readers' \in [Locks -> Nat]
          /\ \A l \in Locks : readers'[l] = IF l = lock[t] THEN readers[l] - 1 ELSE readers[l]
          /\ writer' \in [Locks -> Threads \cup {Nobody}] /\ "no" \in Modes
      BY <1>3, <3>3 DEF LockInv, Shape, TypeOK, Modes
    <3>5. /\ \A u \in Threads : writer'[lock[t]] = u <=> held'[u][own] = "write"
          /\ readers'[lock[t]] = Cardinality(Readers(own)')
      BY <1>3, <1>4, <2>2, <3>2, <3>3, <3>4
    <3>. QED
      BY <1>1, <1>2, <3>1, <3>3, <3>4, <3>5, SuccessKeeps
  <2>. QED
    BY <2>1, <2>2
<1>6. Locking!Release(t, own)
  BY <1>1, <1>2, <1>5 DEF Hold, Locking!Release, Locking!Hold
<1>. QED
  BY <1>5, <1>6

-----------------------------------------------------------------------------
(* One step: the invariant is kept, and the promise too.                   *)
LEMMA StepKeeps ==
  ASSUME LockInv, [Next]_vars
  PROVE  LockInv' /\ [Locking!Next]_held
<1>1. CASE UNCHANGED vars
  <2>1. TypeOK' /\ Registered' /\ Cached'
    BY <1>1 DEF LockInv, Shape, TypeOK, Registered, Cached, vars, shared, local
  <2>2. Placed'
    BY <1>1, BystanderPlaced DEF LockInv, Shape, Placed, vars, shared, local
  <2>. QED
    BY <1>1, <2>1, <2>2, UntouchedKeeps DEF Shape, vars, shared
<1>2. ASSUME NEW t \in Threads, Call(t) \/ Resolve(t) \/ Operate(t)
      PROVE  LockInv' /\ [Locking!Next]_held
  <2>1. CASE Call(t)
    BY <2>1, CallKeeps DEF Call
  <2>2. CASE Enter(t)
    BY <2>2, EnterKeeps DEF Enter
  <2>3. CASE Find(t)
    BY <2>3, FindKeeps DEF Find
  <2>4. CASE Emplace(t)
    BY <2>4, EmplaceKeeps DEF Emplace
  <2>5. CASE EmplaceFails(t)
    BY <2>5, EmplaceFailsKeeps DEF EmplaceFails
  <2>6. CASE Leave(t)
    BY <2>6, LeaveKeeps DEF Leave
  <2>7. CASE WriteLock(t)
    BY <2>7, WriteLockKeeps DEF Locking!Next
  <2>8. CASE ReadLock(t)
    BY <2>8, ReadLockKeeps DEF Locking!Next
  <2>9. CASE TryLockFails(t)
    BY <2>9, FailureKeeps DEF TryLockFails, Operating
  <2>10. CASE TryLockReaderFails(t)
    BY <2>10, FailureKeeps DEF TryLockReaderFails, Operating
  <2>11. CASE LockThrows(t)
    BY <2>11, FailureKeeps DEF LockThrows, Operating
  <2>12. CASE Unlock(t)
    BY <2>12, UnlockKeeps DEF Locking!Next
  <2>. QED
    BY <1>2, <2>1, <2>2, <2>3, <2>4, <2>5, <2>6, <2>7, <2>8, <2>9, <2>10,
       <2>11, <2>12 DEF Resolve, Operate
<1>. QED
  BY <1>1, <1>2 DEF Next

THEOREM LockInvariant == Spec => []LockInv
BY InitHolds, StepKeeps, PTL DEF Spec

-----------------------------------------------------------------------------
(* Every variable keeps its type.                                          *)
THEOREM MutexTypeCorrect == Spec => []TypeOK
<1>1. LockInv => TypeOK
  BY DEF LockInv, Shape
<1>. QED
  BY <1>1, LockInvariant, PTL

(* For every number of threads, addresses and entries, every way to a lock *)
(* of an address leads to the same one: through the cache, through the     *)
(* registry, or with a lock just made.                                     *)
THEOREM LockAlwaysUnique == Spec => []OneLockPerKey
<1>1. ASSUME LockInv PROVE OneLockPerKey
  <2>1. ASSUME NEW t \in Threads, NEW s \in Slots, cache[t][s] # NoEntry
        PROVE  /\ cache[t][s].lock # NoLock
               /\ registry[cache[t][s].key] = cache[t][s].lock
    BY <1>1, <2>1 DEF LockInv, Shape, Cached
  <2>2. ASSUME NEW t \in Threads, pc[t] \in {"leave", "operate"}
        PROVE  lock[t] = registry[key[t]]
    BY <1>1, <2>2 DEF LockInv, Shape, Placed, PlacedAt
  <2>3. ASSUME NEW k \in Keys, NEW m \in Keys,
               registry[k] = registry[m], registry[k] # NoLock
        PROVE  k = m
    BY <1>1, <2>3 DEF LockInv, Shape, Registered
  <2>. QED
    BY <2>1, <2>2, <2>3 DEF OneLockPerKey
<1>. QED
  BY <1>1, LockInvariant, PTL

(* The pthread locks always know exactly who holds what.                   *)
THEOREM LockAlwaysKnows == Spec => []LockKnowsHolders
<1>1. LockInv => LockKnowsHolders
  BY KnownEverywhere DEF LockInv
<1>. QED
  BY <1>1, LockInvariant, PTL

(* To its callers, the replacement is a reader-writer lock per address.    *)
THEOREM MutexImplementsLocks == Spec => ImplementsLocks
<1>1. Init => Locking!Init
  BY DEF Init, Locking!Init
<1>2. LockInv /\ [Next]_vars => [Locking!Next]_held
  BY StepKeeps
<1>. QED
  BY <1>1, <1>2, LockInvariant, PTL DEF Spec, ImplementsLocks, Locking!Spec
=============================================================================
