SPECIFICATION Spec
CONSTANTS
  a = a
  b = b
  theQueue = theQueue
  Tasks = {a, b}
  Idle = Idle
  Created <- InOrder
  Priority <- SharesWithIdle
  Queues = {theQueue}
  uxLength <- OnePlace
  Calls <- SendCalls
  IsrSends = {}
  IsrReceives = {theQueue}
  portMAX_DELAY = 3
  OverflowRange = 2
  IsrYields = TRUE
  MaxPended = 1
  MaxLock = 2
INVARIANTS
  NoLostWakeup
  ItemsOnOneList
  TopReadyPriorityExact
PROPERTIES
  ImplementsTimeBase
