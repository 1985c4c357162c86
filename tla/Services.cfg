SPECIFICATION ServicesSpec
CONSTANTS
  t1 = t1
  t2 = t2
  t3 = t3
  A = A
  B = B
  X = X
  Y = Y
  Tasks = {t1, t2, t3}
  EventBits = {A, B, X, Y}
  Calls <- MeetingCalls
  IsrCalls <- SetOrClear
  MaxPended = 1
  MaxSyncs = 2
  Timers = {once, again}
  Autoreload = {again}
  Periods = {1, 2, 3}
  portMAX_DELAY = 3
  configTIMER_QUEUE_LENGTH = 1
  MaxAge = 1
  xLength = 5
  sbBYTES_TO_STORE_MESSAGE_LENGTH = 1
  SendLengths = {1, 3, 5}
  ReceiveLengths = {2}
  TriggerLevels = {0, 3}
  Interrupts = TRUE
  Bytes = 2
  M = M
  R = R
  Idle = Idle
  NoTask = NoTask
  Mutexes = {M, R}
  RecursiveMutexes = {R}
  uxBasePriority <- Ascending
  TakeCalls <- Taking
  MaxRecursion = 2
  ResumeWaiters = FALSE
INVARIANTS
  NoSatisfiedWaiter
  Rendezvous
  CallbacksExact
  ActiveIsListed
  SentIsReceived
  NoLostNotification
  ReadyTasksFound
  InheritanceEnds
  HolderInherits
  SuspendedExactly
CHECK_DEADLOCK FALSE
