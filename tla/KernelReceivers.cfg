SPECIFICATION Spec
CONSTANTS
  a = a
  b = b
  theQueue = theQueue
  Tasks = {a, b}
  Idle = Idle
  Created <- InOrder
  Priority <- AboveAndBelow
  Queues = {theQueue}
  uxLength <- TwoPlaces
  Calls <- ReceiveCalls
  IsrSends = {theQueue}
  IsrReceives = {}
  portMAX_DELAY = 3
  OverflowRange = 2
  IsrYields = FALSE
  MaxPended = 1
  MaxLock = 2
INVARIANTS
  NoLostWakeup
  PreemptionNotLost
  BlockTimeExact
