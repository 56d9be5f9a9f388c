SPECIFICATION Spec
CONSTANTS
  Base = 2
  NumLen = 4
  IdLen = 2
  Order = 5
  Cofactor = 2
  FieldSize = 12
  Alphabet = {"c", "o", "0"}
  MaxFaults = 1
INVARIANTS
  ReadAsSent
  RelayKeepsValue
  IdentifiersKeepTheirNumber
  VerifiersAgree
  DomainsSeparated
CHECK_DEADLOCK FALSE
