\* Nobody or one participant is faulty; round one is broadcast, or the faulty
\* participant tells everybody something else.
SPECIFICATION DkgSpec
CONSTANTS
  Q = 5
  G = 2
  N = 3
  MinSigners = 2
  Polynomials <- MCPolynomials
  FaultySets <- NobodyOrThree
  Malformed <- MCMalformed
  Dealt = {0, 3}
  Channels = {TRUE, FALSE}
INVARIANTS
  KeyPackagesAgree
  QuorumHoldsSecret
  ContributionsAreOwn
  OnlyFaultyBlamed
