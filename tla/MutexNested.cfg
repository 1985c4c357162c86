SPECIFICATION MutexSpec
CONSTANTS
  e = e
  f = f
  g = g
  h = h
  M = M
  R = R
  Tasks = {e, f, g, h}
  Idle = Idle
  NoTask = NoTask
  Mutexes = {M, R}
  RecursiveMutexes = {}
  uxBasePriority <- Base
  TakeCalls <- Nested
  MaxRecursion = 2
INVARIANTS
  HighestPriorityFirst
CHECK_DEADLOCK FALSE
