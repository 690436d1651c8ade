SPECIFICATION Spec
CONSTANTS
  NPROC = 4
  NSEM = 1
  QUANTUM = 1
  INITPRIO = 1
  Prios = {1}
  NewPrios = {}
  Counts = {0, 1}
  Delays = {}
  MaxCount = 1
INVARIANTS
  SemCount
PROPERTY
  SemtabIsSemaphore
VIEW View
