\* The code's own table sizes: the tenth write of a key expands the buckets.
SPECIFICATION Spec
CONSTANTS
  k1 = k1
  k2 = k2
  k3 = k3
  Keys <- MCOneKey
  Hash <- MCOneHash
  Vals = {1, 2}
  Buckets = 32
  Thresh = 10
  MaxIters = 4
  Clients = {}
  NoVal = 0
  MaxItems = 10
INVARIANT LastWriteWins
CHECK_DEADLOCK FALSE
