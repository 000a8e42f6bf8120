CONSTANTS
  MaxPackets = 3
  Uid <- MCUid
  MAX_PKT = 2
  PKTS_PER_BUFFER = 2
  NUM_LOG_BUFF = 3
  MAX_ENTRIES_PER_LOG_BUFF = 1
  Cpus = {c1, c2}
  Readers = {r1}
  UserFaults = FALSE
SPECIFICATION Spec
INVARIANTS AtMostOnce ShortReadComplete DeliveredIsStamped
