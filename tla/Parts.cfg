SPECIFICATION Spec
CONSTANTS
  a = a
  b = b
  c = c
  ready = ready
  delayed = delayed
  NoNode = NoNode
  Items = {a, b, c}
  Rotating = {ready}
  SortedLists = {delayed}
  portMAX_DELAY = 2
  Message = {m1, m2, m3}
  Lengths = {1, 2, 3}
  uxItemSize = 2
  ucHeap = 3
  configTOTAL_HEAP_SIZE = 120
  portBYTE_ALIGNMENT = 8
  xHeapStructSize = 8
  xBlockAllocatedBit = 256
  Sizes <- Requests
  display = display
  top = top
  Callers = {display, top}
  Numbers <- Both
  QUEUE_SIZE = 1
  N_MAX = 3
  Temperatures <- TwoTemperatures
  FilterValues <- UpToBeyond
  Bytes <- Allocated
  xWantedMemory <- ForTop
  HeapBytes = 6984
  ClockRange = 4
  MaxTicks = 5
INVARIANTS
  ReadyBeforeInterrupts
  RunTimeExact
  Rings
  BlocksTile
  FreeListExact
  RefusedOnlyIfTooLarge
  NumberIsShown
  MeanWhenSettled
PROPERTIES
  ImplementsLists
  ImplementsFifo
