\* A table of two functions besides the base function, and four creations.
SPECIFICATION Spec
CONSTANTS
  MaxFunctions = 3
  MaxCreates = 4
  AllocFails = TRUE
INVARIANTS TypeOK ServedByOwn 
PROPERTY FailedCreateUndone
CHECK_DEADLOCK FALSE
