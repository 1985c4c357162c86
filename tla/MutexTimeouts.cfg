SPECIFICATION MutexSpec
CONSTANTS
  e = e
  f = f
  g = g
  h = h
  M = M
  R = R
  Tasks = {e, f, g, h}
  Idle = Idle
  NoTask = NoTask
  Mutexes = {M, R}
  RecursiveMutexes = {}
  uxBasePriority <- Base
  TakeCalls <- Timed
  MaxRecursion = 2
INVARIANTS
  SelectsFromReady
CHECK_DEADLOCK FALSE
