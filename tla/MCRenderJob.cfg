CONSTANTS
  Columns <- MCColumns
  Frontier <- MCFrontier
  Visited <- MCVisited
  Plans <- MCPlans
  Faults = {"null", "throw", "early", "crash"}
  FlushBatch = 2
  NoJob = NoJob
SPECIFICATION Spec
INVARIANTS
  TypeOK
  CompleteIsDurable
  LeasesHeld
  CountIsExact
  PendingCoversBatch
  NeverStranded
PROPERTIES
  OnlyFinishedStored
  SerializedOnce
  KeepsPromise
