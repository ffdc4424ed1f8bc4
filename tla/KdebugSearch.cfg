SPECIFICATION AllSpec
CONSTANTS
  Memory = {0, 1, 2, 3, 4, 5, 6, 7, 8, 9, 10, 11, 12, 13, 14, 15, 16, 17}
  Requests = {1, 2, 3}
  NULL = NULL
  Edges = {0, 3, 29, 31, 37}
  PGSIZE = 2
  KMEMSIZE = 36
  FREEMEM = 3
  NFRAMES = 4
  NVPAGES = 5
  MAXFAULTS = 10
  Procs = {p1, p2}
  Mms = {x1, x2}
INVARIANT SearchAsDocumented
CHECK_DEADLOCK FALSE
