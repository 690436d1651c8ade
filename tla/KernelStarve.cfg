SPECIFICATION FairSpec
CONSTANTS
  NPROC = 3
  NSEM = 0
  QUANTUM = 2
  INITPRIO = 1
  Prios = {1}
  NewPrios = {}
  Counts = {}
  Delays = {0, 2}
  MaxCount = 0
PROPERTY
  SleepersWake
