---------------------------- MODULE SharedMutex ----------------------------
(***************************************************************************)
(* The replacement of the server's shared mutexes                          *)
(* (synchronization/shared_mutex): an address is resolved to a pthread     *)
(* lock, through a cache per thread or through a registry behind a mutex,  *)
(* and the lock does the rest.  Nothing is ever evicted.                   *)
(*                                                                         *)
(* The callers are the server's: a thread unlocks what it holds, and locks *)
(* a mutex only when it does not hold it.  It may hold several mutexes,    *)
(* and callers that take two in different orders may wait for each other   *)
(* for ever, as they would with the server's own.                          *)
(*                                                                         *)
(* A definition whose comment starts with "Slip:" is no part of the model. *)
(***************************************************************************)
EXTENDS Integers, FiniteSets

CONSTANTS
  Threads,      \* the server's threads
  Keys,         \* the addresses of its shared mutexes
  Slots,        \* the entries of a thread's cache
  SlotOf,       \* the entry for an address
  NoKey,        \* a null address
  NoLock,       \* a null Lock*
  Nobody        \* no thread

ASSUME MutexAssumption ==
  /\ IsFiniteSet(Threads)
  /\ Nobody \notin Threads
  /\ SlotOf \in [Keys -> Slots]
  /\ NoKey \notin Keys
  /\ NoLock \notin Keys \X Threads

(* A Lock is known by the address and the thread it was allocated for.     *)
Locks == Keys \X Threads

Modes == {"no", "read", "write"}

(* The six functions, by what they ask of the lock.                        *)
Operations == {"lock", "try lock", "lock reader", "try lock reader",
               "unlock", "unlock reader"}

CacheEntry == [key : Keys \cup {NoKey}, lock : Locks \cup {NoLock}]
NoEntry == [key |-> NoKey, lock |-> NoLock]

VARIABLES
  registry,     \* the Lock of each address
  owner,        \* the thread that has locked registry_mutex
  writer,       \* each pthread lock's current writer
  readers,      \* and the number of its readers
  cache,        \* each thread's cache
  held,         \* how each thread holds each mutex
  pc,           \* where each thread is
  operation,    \* the function it is in
  key,          \* the address it was given
  lock          \* its local result

shared == <<registry, owner, writer, readers>>
local == <<operation, key, lock>>
vars == <<shared, cache, held, pc, local>>

Places == {"idle", "registry", "find", "emplace", "leave", "operate"}

TypeOK ==
  /\ registry \in [Keys -> Locks \cup {NoLock}]
  /\ owner \in Threads \cup {Nobody}
  /\ writer \in [Locks -> Threads \cup {Nobody}]
  /\ readers \in [Locks -> Nat]
  /\ cache \in [Threads -> [Slots -> CacheEntry]]
  /\ held \in [Threads -> [Keys -> Modes]]
  /\ pc \in [Threads -> Places]
  /\ operation \in [Threads -> Operations]
  /\ key \in [Threads -> Keys \cup {NoKey}]
  /\ lock \in [Threads -> Locks \cup {NoLock}]

Init ==
  /\ registry = [k \in Keys |-> NoLock]
  /\ owner = Nobody
  /\ writer = [l \in Locks |-> Nobody]
  /\ readers = [l \in Locks |-> 0]
  /\ cache = [t \in Threads |-> [s \in Slots |-> NoEntry]]
  /\ held = [t \in Threads |-> [k \in Keys |-> "no"]]
  /\ pc = [t \in Threads |-> "idle"]
  /\ operation = [t \in Threads |-> "lock"]
  /\ key = [t \in Threads |-> NoKey]
  /\ lock = [t \in Threads |-> NoLock]

Goto(t, place) == pc' = [pc EXCEPT ![t] = place]

-----------------------------------------------------------------------------
(* What a caller may ask for.                                              *)
Proper(t, op, k) ==
  CASE op = "unlock" -> held[t][k] = "write"
    [] op = "unlock reader" -> held[t][k] = "read"
    [] OTHER -> held[t][k] = "no"

(* Slip: whatever the entry holds is taken for the address's own.          *)
HitAnything(t, k) ==
  LET cached == cache[t][SlotOf[k]] IN
  IF cached # NoEntry
  THEN lock' = [lock EXCEPT ![t] = cached.lock] /\ Goto(t, "operate")
  ELSE Goto(t, "registry") /\ UNCHANGED lock

(* The cache is the thread's own: a look at it is no step of its own.      *)
LookInCache(t, k) ==
  LET cached == cache[t][SlotOf[k]] IN
  IF cached.key = k
  THEN lock' = [lock EXCEPT ![t] = cached.lock] /\ Goto(t, "operate")
  ELSE Goto(t, "registry") /\ UNCHANGED lock

Call(t) ==
  /\ pc[t] = "idle"
  /\ \E op \in Operations, k \in Keys :
       /\ Proper(t, op, k)
       /\ operation' = [operation EXCEPT ![t] = op]
       /\ key' = [key EXCEPT ![t] = k]
       /\ LookInCache(t, k)
  /\ UNCHANGED <<shared, cache, held>>

(* The call ends, and its locals with it.                                  *)
End(t) ==
  /\ Goto(t, "idle")
  /\ operation' = [operation EXCEPT ![t] = "lock"]
  /\ key' = [key EXCEPT ![t] = NoKey]
  /\ lock' = [lock EXCEPT ![t] = NoLock]

(* Slip: the registry is searched without its mutex.                       *)
EnterUnlocked(t) ==
  /\ pc[t] = "registry"
  /\ owner' = t
  /\ Goto(t, "find")
  /\ UNCHANGED <<registry, writer, readers, cache, held, local>>

(* pthread_mutex_lock of registry_mutex                                    *)
Enter(t) ==
  /\ pc[t] = "registry"
  /\ owner = Nobody
  /\ owner' = t
  /\ Goto(t, "find")
  /\ UNCHANGED <<registry, writer, readers, cache, held, local>>

Find(t) ==
  /\ pc[t] = "find"
  /\ lock' = [lock EXCEPT ![t] = registry[key[t]]]
  /\ Goto(t, IF registry[key[t]] = NoLock THEN "emplace" ELSE "leave")
  /\ UNCHANGED <<shared, cache, held, operation, key>>

Emplace(t) ==
  /\ pc[t] = "emplace"
  /\ registry' = [registry EXCEPT ![key[t]] = <<key[t], t>>]
  /\ lock' = [lock EXCEPT ![t] = <<key[t], t>>]
  /\ Goto(t, "leave")
  /\ UNCHANGED <<owner, writer, readers, cache, held, operation, key>>

(* The allocation, or pthread_rwlock_init, fails: the mutex is unlocked    *)
(* and the call throws.                                                    *)
EmplaceFails(t) ==
  /\ pc[t] = "emplace"
  /\ owner' = Nobody
  /\ End(t)
  /\ UNCHANGED <<registry, writer, readers, cache, held>>

Leave(t) ==
  /\ pc[t] = "leave"
  /\ owner' = Nobody
  /\ cache' = [cache EXCEPT ![t][SlotOf[key[t]]] = [key |-> key[t], lock |-> lock[t]]]
  /\ Goto(t, "operate")
  /\ UNCHANGED <<registry, writer, readers, held, local>>

-----------------------------------------------------------------------------
(* The pthread lock, and what the caller makes of it.                      *)

Operating(t, ops) == pc[t] = "operate" /\ operation[t] \in ops
Free(l) == writer[l] = Nobody /\ readers[l] = 0
Hold(t, mode) == held' = [held EXCEPT ![t][key[t]] = mode]
Return(t) == End(t) /\ UNCHANGED <<registry, owner, cache>>

WriteLock(t) ==
  /\ Operating(t, {"lock", "try lock"})
  /\ Free(lock[t])
  /\ writer' = [writer EXCEPT ![lock[t]] = t]
  /\ Hold(t, "write")
  /\ Return(t)
  /\ UNCHANGED readers

ReadLock(t) ==
  /\ Operating(t, {"lock reader", "try lock reader"})
  /\ writer[lock[t]] = Nobody
  /\ readers' = [readers EXCEPT ![lock[t]] = @ + 1]
  /\ Hold(t, "read")
  /\ Return(t)
  /\ UNCHANGED writer

(* Slip: EBUSY is taken for success.                                       *)
TryAnyway(t) ==
  /\ Operating(t, {"try lock"})
  /\ ~Free(lock[t])
  /\ Hold(t, "write")
  /\ Return(t)
  /\ UNCHANGED <<writer, readers>>

(* EBUSY                                                                   *)
TryLockFails(t) ==
  /\ Operating(t, {"try lock"})
  /\ ~Free(lock[t])
  /\ Return(t)
  /\ UNCHANGED <<writer, readers, held>>

(* EBUSY, or EAGAIN at the greatest number of readers                      *)
TryLockReaderFails(t) ==
  /\ Operating(t, {"try lock reader"})
  /\ Return(t)
  /\ UNCHANGED <<writer, readers, held>>

(* lock_reader throws on EAGAIN.                                           *)
LockThrows(t) ==
  /\ Operating(t, {"lock reader"})
  /\ Return(t)
  /\ UNCHANGED <<writer, readers, held>>

(* One pthread function unlocks both: a writer first, else a reader.       *)
Unlock(t) ==
  /\ Operating(t, {"unlock", "unlock reader"})
  /\ IF writer[lock[t]] = t
     THEN writer' = [writer EXCEPT ![lock[t]] = Nobody] /\ UNCHANGED readers
     ELSE readers' = [readers EXCEPT ![lock[t]] = @ - 1] /\ UNCHANGED writer
  /\ Hold(t, "no")
  /\ Return(t)

-----------------------------------------------------------------------------
Resolve(t) ==
  \/ Enter(t)
  \/ Find(t)
  \/ Emplace(t)
  \/ EmplaceFails(t)
  \/ Leave(t)

Operate(t) ==
  \/ WriteLock(t)
  \/ ReadLock(t)
  \/ TryLockFails(t)
  \/ TryLockReaderFails(t)
  \/ LockThrows(t)
  \/ Unlock(t)

Next == \E t \in Threads : Call(t) \/ Resolve(t) \/ Operate(t)
Spec == Init /\ [][Next]_vars

-----------------------------------------------------------------------------
(* Whichever way a thread reaches the lock of an address, it is the one    *)
(* every other thread reaches.                                             *)
OneLockPerKey ==
  /\ \A t \in Threads, s \in Slots :
       LET cached == cache[t][s] IN
       cached # NoEntry => /\ cached.lock # NoLock
                           /\ registry[cached.key] = cached.lock
  /\ \A t \in Threads :
       pc[t] \in {"leave", "operate"} => lock[t] = registry[key[t]]
  /\ \A k, m \in Keys :
       registry[k] = registry[m] /\ registry[k] # NoLock => k = m

(* The pthread locks know exactly who holds what, though the threads find  *)
(* them anew for each call and may have lost them from their caches.       *)
LockKnowsHolders ==
  \A k \in Keys :
    IF registry[k] = NoLock
    THEN \A t \in Threads : held[t][k] = "no"
    ELSE /\ \A t \in Threads : writer[registry[k]] = t <=> held[t][k] = "write"
         /\ readers[registry[k]] =
              Cardinality({t \in Threads : held[t][k] = "read"})

(* To the server's threads every shared mutex is a reader-writer lock.     *)
Locking == INSTANCE ReaderWriterLocks
ImplementsLocks == Locking!Spec
=============================================================================
