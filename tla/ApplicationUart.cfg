SPECIFICATION FairSpec
CONSTANTS
  QUEUE_SIZE = 1
  N_MAX = 2
  Temperatures <- LeastTemperature
  FilterValues = {0, 1}
  Columns = 4
PROPERTIES
  FilterValueReceived
