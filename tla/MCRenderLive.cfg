CONSTANTS
  Columns <- MCColumns
  Frontier <- MCFrontier
  Visited <- MCVisited
  Plans <- MCPlans
  Faults = {}
  FlushBatch = 2
  NoJob = NoJob
SPECIFICATION FairSpec
INVARIANT NoFailureWithoutFault
PROPERTIES
  RenderEnds
