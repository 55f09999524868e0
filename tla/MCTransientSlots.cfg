CONSTANTS
  a = a
  b = b
  c = c
  d = d
  Threads <- MCThreads
  SlotCount = 3
  Home <- MCHome
  Nobody = Nobody
SPECIFICATION FairSpec
INVARIANTS
  UniqueSlot
  ExclusiveUse
  AbortOnlyWhenFull
PROPERTY SearchEnds
