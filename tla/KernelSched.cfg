SPECIFICATION Spec
CONSTANTS
  NPROC = 4
  NSEM = 0
  QUANTUM = 2
  INITPRIO = 1
  Prios = {2}
  NewPrios = {2}
  Counts = {}
  Delays = {}
  MaxCount = 0
INVARIANTS
  NullEligible
  MessageWaiting
  ShutdownNotMissed
PROPERTY
  DispatchFirst
VIEW View
