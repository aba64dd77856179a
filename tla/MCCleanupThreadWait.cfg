SPECIFICATION Spec
CONSTANTS
  a = a
  b = b
  c = c
  gpu0 = gpu0
  None = none
  Host = host
  Items = {a, b, c}
  DeviceList <- MCDevices
  Placements <- MCOneList
  HwItems = {a}
  MaxRetries = 1
  UnloadRetry = 1
  FlushTimesOut = FALSE
INVARIANTS DeviceItemsCleaned
CHECK_DEADLOCK FALSE
