CONSTANTS
  Threads = {t1, t2, t3}
  Keys = {k1, k2}
  Slots = {0}
  SlotOf <- MCSlotOf
  NoKey = NoKey
  NoLock = NoLock
  Nobody = Nobody
SPECIFICATION Spec
SYMMETRY Interchangeable
CHECK_DEADLOCK FALSE
INVARIANTS
  OneLockPerKey
  LockKnowsHolders
PROPERTY ImplementsLocks
