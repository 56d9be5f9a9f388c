\* Concurrent Sign calls: does Sign return a signature?
SPECIFICATION Spec
CONSTANTS
  Callers = {a, b}
  Ids <- MCIds
  Participants <- MCParticipants
  Requests <- RaceRequests
  ForeignLists <- RaceForeign
  Msgs = {"m1", "m2"}
  Threshold = 2
  Configs <- RaceConfigs
  MaxViolations <- MCMaxViolations
  MaxCalls = 2
INVARIANTS
  SignReturnsSignature
CHECK_DEADLOCK FALSE
