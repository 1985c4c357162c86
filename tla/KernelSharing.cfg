SPECIFICATION FairSpec
CONSTANTS
  a = a
  b = b
  theQueue = theQueue
  Tasks = {a, b}
  Idle = Idle
  Created <- InOrder
  Priority <- Equal
  Queues = {theQueue}
  uxLength <- OnePlace
  Calls <- SharingCalls
  IsrSends = {}
  IsrReceives = {}
  portMAX_DELAY = 3
  OverflowRange = 2
  IsrYields = TRUE
  MaxPended = 1
  MaxLock = 2
PROPERTIES
  TimeSlicing
  TimedCallsReturn
