SPECIFICATION FairSpec
CONSTANTS
  Writers = {w1, w2}
  None = none
  Size = 15
  DataSizes = {6, 7}
  NumIds = 3
  Modes = {"dropNewer", "dropOldest", "block"}
  NoWrap = FALSE
  Opens <- SafeOpens
PROPERTIES ReserveReturns
