\* Loss, duplication and a restart are all possible.
SPECIFICATION FairSpec
CONSTANTS
  MaxCalls = 3
  MaxLoss = 1
  MaxDup = 1
  MaxOpens = 2
  AllocFails = TRUE
INVARIANTS TypeOK OwnAnswer NoNullRx
PROPERTIES InitEnds CallReturns
CHECK_DEADLOCK FALSE
