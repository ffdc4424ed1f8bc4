SPECIFICATION AllSpec
SYMMETRY Interchangeable
CONSTANTS
  Procs = {p1, p2}
  Calls = {"exit", "fork", "wait", "exec", "yield", "sleep", "kill", "gettime", "getpid",
           "putc", "pgdir", "open", "close", "read", "write", "seek", "fstat", "fsync",
           "getcwd", "getdirentry", "dup", "lab6_set_priority"}
  Openers = {q1, q2}
  SECTSIZE = 2
  ELFHDR = 0
  Images <- SomeImages
  f = f
  sub = sub
  root = root
  NULL = NULL
INVARIANTS
  StartsInOrder
  ProgramIsLoaded
  ResultsReachTheirCaller
  InodesAreSound
  RunsWhatWasTyped

  
