SPECIFICATION Spec
CONSTANTS
  Procs = {p1, p2, p3}
  MOD = 6
  BIG_STRIDE = 2
  Priorities = {0, 2}
  MAX_TIME_SLICE = 2
  MAX_PASS = 7
  NULL = NULL
INVARIANTS
  SpreadBounded
PROPERTIES
  PicksMinimum
