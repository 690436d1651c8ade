SPECIFICATION SleepSpec
CONSTANTS
  NPROC = 4
  NSEM = 0
  QUANTUM = 1
  INITPRIO = 1
  Prios = {1}
  NewPrios = {}
  Counts = {}
  Delays = {1, 2}
  MaxCount = 0
INVARIANTS
  PlacedOnce
  DeferBracket
PROPERTY
  SleepIsAlarm
VIEW View
