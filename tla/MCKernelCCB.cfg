SPECIFICATION Spec
CONSTANTS
  Clients = {c1, c2}
  Pingers = {}
  None = none
  NumSlots = 2
  MaxDeferred = 1
  NumIds = 4
  ApmChoices = {TRUE}
  PollTimesOut = TRUE
INVARIANTS TypeOK FreedAsAnswered
PROPERTIES AcceptedInOrder
