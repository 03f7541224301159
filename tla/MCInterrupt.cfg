CONSTANTS
  p1 = p1
  p2 = p2
  p3 = p3
  x = x
  nl = nl
  ctrl_d = ctrl_d
  Procs = {p1, p2}
  Locks = {l1, l2}
  SCHED = SCHED
  NULL = NULL
SPECIFICATION FairSpec
INVARIANTS
  RequestsExact
  NoLostInterrupt
  NoLockPanic
  InterruptsMatched
PROPERTIES
  ConsoleIsLineQueue
  NoStarvation
