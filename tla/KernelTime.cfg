SPECIFICATION FairSpec
CONSTANTS
  NPROC = 3
  NSEM = 0
  QUANTUM = 2
  INITPRIO = 1
  Prios = {1}
  NewPrios = {}
  Counts = {}
  Delays = {1, 2, 3}
  MaxCount = 0
PROPERTIES
  ReadyRuns
  SleepersWake
