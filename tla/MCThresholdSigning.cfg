\* Three participants, threshold 2: every list, up to three shares.
SPECIFICATION Spec
CONSTANTS
  Q = 5
  G = 2
  N = 3
  MinSigners = 2
  Polynomials <- MCPolynomials
  Shapes <- MCShapes
  Thresholds <- OneLost
  Nonces <- MCNonces
  Oracles <- MCOracles
  Randomizers = {3}
  Blinds = {1, 3}
  Errors <- MCErrors
  MaxReceived = 3
INVARIANTS
  QuorumSigns
  BlameIsExact
  NoSignatureBelowThreshold
  BatchAgrees
CHECK_DEADLOCK FALSE
