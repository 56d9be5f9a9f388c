\* Refreshes that are lost, late, repeated or for some participants only,
\* and repair meanwhile, with enough and with too few helpers.
SPECIFICATION MaintenanceSpec
CONSTANTS
  Q = 5
  G = 2
  N = 4
  MinSigners = 3
  Polynomials <- MCPolynomials
  RefreshPolynomials <- MCRefreshPolynomials
  RefreshIds <- MCRefreshIds
  Deltas = {1}
  Helpers <- MCHelpers
  MaxRefreshes = 1
  MaxApplied = 2
INVARIANTS
  PublicSharesCurrent
  SecretSurvives
CHECK_DEADLOCK FALSE
