\* One participant (entries are independent of each other), four violations:
\* enough to cross a threshold of 2 or 3, be pardoned and cross it again.
\* Three clock values and ages 1 and 2 put records before, at and after the
\* cutoff of a cleanup.
CONSTANTS
  Ids = {1}
  MaxViolations <- MCMaxViolations
  MaxAges <- MCMaxAges
  MaxTime = 3
  MaxRecords = 4
SPECIFICATION Spec
INVARIANTS ExclusionJustified PardonIsNarrow CountsNeverForget HistoryComplete
