SPECIFICATION FairSpec
CONSTANTS
  a = a
  b = b
  c = c
  gpu0 = gpu0
  None = none
  Host = host
  Items = {a, b, c}
  DeviceList <- MCDevices
  Placements <- MCPlacements
  HwItems = {a}
  MaxRetries = 1
  UnloadRetry = 0
  FlushTimesOut = TRUE
INVARIANTS TypeOK
PROPERTIES EverythingHandled
CHECK_DEADLOCK FALSE
