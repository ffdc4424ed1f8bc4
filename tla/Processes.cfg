SPECIFICATION PartsSpec
CONSTANTS
  Procs = {idle, init, p1, p2, p3}
  idleproc = idle
  initproc = init
  NULL = NULL
  MAX_PROCESS = 5
  MAX_PID = 6
  Sleeping = {p1, p2, p3}
  MAX_TIME = 4
  Readers = {r1, r2}
  STDIN_BUFSIZE = 2
  MAX_LEN = 2
  MAX_KEYS = 5
  MAX_THREADS = 4
  MAX_YIELDS = 3
INVARIANTS
  PidsAreUnique
  IntervalIsFree
  TablesAgree
  InputIsDelivered
  TurnsAreFair
PROPERTIES
  ImplementsTree
  GetPidReturns
  KilledReaderDies
  ImplementsDeadlines
CHECK_DEADLOCK FALSE
