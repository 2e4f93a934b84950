CONSTANTS
  NSlots = 3
  FrameLen = 2
  FifoDepth = 2
  FifoLevel = 1
  RingMax = 2
  MaxRequests = 2
  MaxSends = 2
  MaxErrors = 1
  MaxPushes = 3
SPECIFICATION FairSpec
INVARIANTS TypeOK ResponseHasSlot NothingOlderThanSeen
           ExecutedOncePerRecovery
PROPERTIES FramesWhole LineOrder ResponseLeaves
           FrameLeaves
