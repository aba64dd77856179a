SPECIFICATION FairSpec
CONSTANTS
  Clients = {c1}
  Pingers = {c1}
  None = none
  NumSlots = 4
  MaxDeferred = 1
  NumIds = 1
  ApmChoices = {TRUE, FALSE}
  PollTimesOut = FALSE
INVARIANTS PowerOffDrained
PROPERTIES DeferredSent
