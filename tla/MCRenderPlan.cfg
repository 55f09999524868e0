CONSTANTS
  ChunkSize = 3
  Halo = 2
  MaxActive = 20
  TargetLimit = 9
  CoordinateSpan = 16
  Centers <- MCCenters
  Radii <- MCRadii
  Rendered <- Known
  Generated <- MCGenerated
  Odd <- MCOdd
  OddSquares <- MCOddSquares
  HeightEntries = 3
  SectionBlocks = 7
SPECIFICATION Spec
INVARIANTS
  TargetsAreTouched
  FrontierPlannedOnce
  QuadrantsTogether
  NearestFirst
  KeysDistinct
  RenderPassesInspection
  VerdictAsDocumented
