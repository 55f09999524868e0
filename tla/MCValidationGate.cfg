CONSTANTS
  Threads = {t1, t2, t3}
  Required = 2
  Allowed = 1
SPECIFICATION Spec
SYMMETRY Interchangeable
INVARIANTS
  TypeOK
  TrustedAfterValidation
  MismatchCloses
  VerdictIsFinal
  MaximumCovers
  TablesPrepared
PROPERTY NeverReopens
