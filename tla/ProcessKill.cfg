SPECIFICATION FairSpec
CONSTANTS
  Procs = {idle, init, p1, p2}
  idleproc = idle
  initproc = init
  NULL = NULL
  MAX_PROCESS = 4
  MAX_TIME = 1
  MAX_SEM = 1
PROPERTIES
  KilledDies
