SPECIFICATION FairSpec
CONSTANTS
  NUM_LOG_BUFF = 2
  MAX_ENTRIES_PER_LOG_BUFF = 1
  Capacity = 1
  BatchSize = 1
  QueueSize = 2
INVARIANTS StampsInOrder LossIsZeroDifference ServerFileComplete
PROPERTY ServerEnds
CHECK_DEADLOCK FALSE
