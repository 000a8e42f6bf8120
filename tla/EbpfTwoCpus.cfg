SPECIFICATION FairSpec
CONSTANTS
  NUM_LOG_BUFF = 2
  MAX_ENTRIES_PER_LOG_BUFF = 1
  Cpus = {c1, c2}
  MaxArrivals = 3
INVARIANTS TypeOK LogsArrivedPrefix KernelStampedFirst FilesAgree
PROPERTIES OnlyZeroRestamped EventuallyPast
CHECK_DEADLOCK FALSE
