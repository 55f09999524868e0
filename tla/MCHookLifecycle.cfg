SPECIFICATION Spec
INVARIANTS
  AllOrNothing
  BackedUnlessForgotten
  AllocatorReady
