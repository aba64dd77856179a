SPECIFICATION FairSpec
CONSTANTS
  Sizes = {8, 16}
  InitSize = 8
  VirtualAllocSize = 16
  Pad = 2
  CmdSizes = {2, 5}
  NumIds = 6
  ByteCountMod = 1
  MaxKicks = 2
INVARIANTS TypeOK RoomForPadding GrowsOnce UnreadIntact CmdOffsetRight
PROPERTIES DeliveredInOrder KickedCommandsExecuted RetryServed
