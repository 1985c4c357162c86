SPECIFICATION FilterSpec
CONSTANTS
  QUEUE_SIZE = 1
  N_MAX = 4
  Temperatures <- TwoTemperatures
  FilterValues <- UpToBeyond
INVARIANTS
  MeanOfLastN
