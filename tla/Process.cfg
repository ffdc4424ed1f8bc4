SPECIFICATION Spec
CONSTANTS
  Procs = {idle, init, p1, p2, p3}
  idleproc = idle
  initproc = init
  NULL = NULL
  MAX_PROCESS = 5
  MAX_TIME = 1
  MAX_SEM = 1
SYMMETRY Interchangeable
INVARIANTS
  RunQueueExact
  NothingWakesTheDead
  SemaphoreSleepIsUninterrupted
  ChildrenAreReaped
