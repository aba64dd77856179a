SPECIFICATION Spec
CONSTANTS
  Writers = {w1, w2}
  None = none
  Size = 15
  DataSizes = {5, 6, 7}
  NumIds = 3
  Modes = {"dropNewer", "dropOldest", "block"}
  NoWrap = FALSE
  Opens <- SafeOpens
INVARIANTS TypeOK UnreadWhole
PROPERTIES HeldOffsetStays HeldUntouched Delivery
SYMMETRY Alike
