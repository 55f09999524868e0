CONSTANTS
  Billion = 5
  Word = 128
  Rates <- MCRates
SPECIFICATION Spec
CHECK_DEADLOCK FALSE
INVARIANTS
  Exact
PROPERTY NeverBack
