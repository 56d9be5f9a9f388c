\* Two goroutines, two sessions and two participants whose keys overlap, two
\* commitments to pair up.
SPECIFICATION Spec
CONSTANTS
  Callers = {a, b}
  Sessions <- MCSessions
  Ids = {2, 12}
  Digits <- MCDigits
  Data = {"x", "y"}
  TTLs = {0, 1}
  MaxTime = 3
  MaxCalls = 2
SYMMETRY Symmetry
INVARIANTS
  IndexConsistent
  ReuseReported
  PairsForgottenTogether
