SPECIFICATION Spec
CONSTANTS
  NUM_FRAMES = 4
  FQ_SIZE = 2
  RX_SIZE = 2
  RX_BATCH_SIZE = 1
  MaxPackets = 5
  MAX_LOG_ENTRY = 3
  Settings <- MCKept
INVARIANT AlwaysEnough
CHECK_DEADLOCK FALSE
