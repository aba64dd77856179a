SPECIFICATION FairSpec
CONSTANTS
  k1 = k1
  k2 = k2
  t1 = t1
  t2 = t2
  t3 = t3
  dataset = dataset
  freelist = freelist
  block = block
  pmr = pmr
  import = import
  Conns = {k1, k2}
  First = k1
  Threads = {t1, t2, t3}
  Handles = {dataset, freelist, block, pmr, import}
  None = none
  Process = process
  ConnOf <- MCConnOf
  Base <- MCBase
  SubOf <- MCSubOf
  Needs <- MCNeeds
  Pins <- MCPins
  Rank <- MCRank
  Kicked = {dataset}
  Failing = {dataset}
  MaxErrors = 1
INVARIANTS TypeOK HeldLives UsedOutlives
PROPERTIES ClosedReleased
CHECK_DEADLOCK FALSE
