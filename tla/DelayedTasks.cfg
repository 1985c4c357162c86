SPECIFICATION FairSpec
CONSTANTS
  t1 = t1
  t2 = t2
  t3 = t3
  Tasks = {t1, t2, t3}
  Idle = Idle
  portMAX_DELAY = 3
  MaxNesting = 1
  MaxPended = 2
INVARIANTS
  TypeOK
  WakeTimes
  UnblockTimeIsEarly
  NoLostTask
  ListMembership
  TickCountDoesNotSlip
PROPERTIES
  TickReadiesExactlyTheDue
  DelaysEnd
