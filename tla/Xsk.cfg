SPECIFICATION FairSpec
CONSTANTS
  NUM_FRAMES = 4
  FQ_SIZE = 2
  RX_SIZE = 2
  RX_BATCH_SIZE = 2
  MaxPackets = 5
  MAX_LOG_ENTRY = 3
  Settings <- MCBoth
INVARIANTS OnlyFramesPosted CountsAgree FilesAgree FrameInOnePlace NeverDeaf KernelStampedFirst
PROPERTY EventuallyReceived
CHECK_DEADLOCK FALSE
