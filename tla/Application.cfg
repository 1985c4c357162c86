SPECIFICATION FairSpec
CONSTANTS
  QUEUE_SIZE = 1
  N_MAX = 2
  Temperatures <- TwoTemperatures
  FilterValues = {1}
  Columns = 4
INVARIANTS
  GraphIsHistory
PROPERTIES
  ImplementsFilter
  TasksGetOn
