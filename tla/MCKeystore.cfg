\* Two goroutines, failed writes, a crash.
SPECIFICATION FairSpec
CONSTANTS
  Callers = {a, b}
  Ids <- KeysAndGroup
  Shares = {"s1", "s2"}
  GroupIDs = {"g", "h"}
  Packages <- TwoPackages
  MinSigners = 2
  Backends = {"file", "memory"}
  OnDisk <- OldKeys
  MaxCalls = 3
  MaxCrashes = 1
INVARIANTS
  SharesIntact
  ListComplete
  WritesMatchChecks
PROPERTIES
  CallsReturn
CHECK_DEADLOCK FALSE
