\* Two goroutines share one coordinator: every constructor and error path.
SPECIFICATION Spec
CONSTANTS
  Callers = {a, b}
  Ids <- MCIds
  Participants <- MCParticipants
  Requests <- AllRequests
  ForeignLists <- AllForeign
  Msgs = {"m1"}
  Threshold = 2
  Configs <- AllConfigs
  MaxViolations <- MCMaxViolations
  MaxCalls = 3
SYMMETRY Symmetry
INVARIANTS
  NonceUsedOnce
  CleanCallsKeepNonces
  ExcludedStaysOut
  ThresholdRespected
PROPERTIES
  ImplementsLedger
CHECK_DEADLOCK FALSE
