\* Additions, expansions and two loops over one iterator slot.
SPECIFICATION Spec
CONSTANTS
  k1 = k1
  k2 = k2
  k3 = k3
  Keys <- MCKeys
  Hash <- MCHash
  Vals = {v1, v2}
  Buckets = 1
  Thresh = 3
  MaxIters = 1
  Clients = {c1, c2}
  NoVal = NoVal
  MaxItems = 4
INVARIANTS BucketsSound KeyNeverLost LastWriteUnexpanded IterComplete
SYMMETRY MCSymmetry
CHECK_DEADLOCK FALSE
