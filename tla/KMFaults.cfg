CONSTANTS
  MaxPackets = 4
  Uid <- MCUid
  MAX_PKT = 3
  PKTS_PER_BUFFER = 2
  NUM_LOG_BUFF = 3
  MAX_ENTRIES_PER_LOG_BUFF = 1
  Cpus = {c1}
  Readers = {r1}
  UserFaults = TRUE
SPECIFICATION Spec
INVARIANTS NoSilentLoss NoTornDelivery DeliveredIsStamped
PROPERTY FreedIsDelivered
