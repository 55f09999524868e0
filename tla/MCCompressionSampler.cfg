CONSTANTS
  Threads = {t1, t2, t3}
  SampleLimit = 2
SPECIFICATION Spec
SYMMETRY Interchangeable
INVARIANTS
  SlotsExact
  BadOnlyWhenTrusted
  UncheckedOnlyWhenTrusted
