SPECIFICATION FairSpec
CONSTANTS
  Checkpoints = {c1, c2}
  Kickers = {k1}
  Misr = misr
  Unbind = unbind
  None = none
  PoolSize = 1
  MaxCmds = 2
  MaxEnqueued = 2
  MaxLate = 1
INVARIANTS TypeOK HeldInUse OnePlace ContextOutlives
PROPERTIES QuietContextFreed
CHECK_DEADLOCK FALSE
