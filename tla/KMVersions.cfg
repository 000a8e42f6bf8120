SPECIFICATION VersionsSpec
CONSTANTS
  Procs = {"p1", "p2"}
  NUM_LOG_BUFF = 2
  MaxLoads = 2
  Modules <- MCModules
  Programs <- MCPrograms
  Drafts = {"legacy", "temp"}
  MAX_PKT = 2
  PKTS_PER_BUFFER = 2
  MAX_LOG_ENTRY = 2
  Uids = {0, 1, 2}
INVARIANTS MemoryOutlivesUse LeaksExplained OnlyMappingsStray StampsOwn LostOnlyWhenFull
PROPERTY RmmodEnds
CHECK_DEADLOCK FALSE
