\* Commands that overlap and are killed.
SPECIFICATION Spec
CONSTANTS
  Procs = {p, q}
  Ids = {1, 2}
  GlobOrder <- MCGlobOrder
  Msgs = {"m1"}
  KeygenArgs <- MCKeygenArgs
  SignerPairs <- MCSignerPairs
  MaxRuns = 4
  MaxOverlaps = 2
  MaxFaults = 1
SYMMETRY Symmetry
INVARIANTS
  RoundVerifies
  WorkflowUsesNonceOnce
CHECK_DEADLOCK FALSE
