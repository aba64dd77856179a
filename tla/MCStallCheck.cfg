SPECIFICATION StallSpec
CONSTANTS
  Sizes = {4, 8}
  InitSize = 4
  VirtualAllocSize = 8
  Pad = 1
  CmdSizes = {2}
  NumIds = 1
  ByteCountMod = 16
  MaxKicks = 1
INVARIANTS SampledOffsetsValid StuckIsFound
