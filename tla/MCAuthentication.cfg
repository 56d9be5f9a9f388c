SPECIFICATION Spec
CONSTANTS
  Procs = {p, q}
  Signers = {s, t}
  NumSlices = 1
  Devices <- AllDevices
  Ids = {1, 2}
  Tokens = {"a"}
  MaxKeys = 2
  MaxCalls = 6
  MaxPurges = 1
SYMMETRY Symmetry
INVARIANTS
  ErasedStaysErased
  SignersStayUsable
  AcceptedWasSigned
CHECK_DEADLOCK FALSE
