SPECIFICATION Spec
CONSTANTS
  NPROC = 3
  NSEM = 0
  QUANTUM = 2
  INITPRIO = 1
  Prios = {1}
  NewPrios = {}
  Counts = {}
  Delays = {}
  MaxCount = 0
INVARIANT
  HaltOnlyAtLast
