\* All arrays of five words over three values, all sort requests: they start at
\* an element and one, two and three bytes off.
SPECIFICATION Spec
CONSTANTS
  array_size = 5
  Byte = {0, 1}
  Vals <- MCVals
  AllocFails = TRUE
INVARIANTS SortsFromZero SortPermutes
PROPERTIES ArraySpec
