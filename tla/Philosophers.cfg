SPECIFICATION BothSpec
CONSTANTS
  N = 3
  TIMES = 2
  Idle = Idle
INVARIANTS
  NeighboursNeverDineTogether
  MutualExclusion
  MonitorIsSound
PROPERTIES
  EveryoneFinishes
