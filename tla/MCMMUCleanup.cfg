SPECIFICATION Spec
CONSTANTS
  Tables = {t1, t2}
  Clients = {c1}
  None = none
  Modulus = 8
  Far = 5
  FirstUpdate = 7
  MaxQueue = 2
  SendFails = TRUE
  GivesUp = TRUE
SYMMETRY Alike
INVARIANTS TypeOK StaleIsCovered KickSeesNoStale GivenValueExecuted
