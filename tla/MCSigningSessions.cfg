\* Two sessions; two workers act for one participant, one for another.
SPECIFICATION Spec
CONSTANTS
  Workers = {"a", "b", "c"}
  Ids = {1, 2}
  Actor <- MCActor
  Requests <- MCRequests
  Count = 2
  MaxSessions = 2
  MaxNonces = 4
INVARIANTS
  ListStable
  SharesFit
PROPERTIES
  ImplementsLedger
CHECK_DEADLOCK FALSE
