\* Two objects that are constructed, used and destroyed repeatedly.
SPECIFICATION Spec
CONSTANTS
  Objs = {o1, o2}
  Sizes = {0, 6, 8}
  Offsets = {0, 4}
  Counts = {0, 2}
  Indices = {0, 1, 2}
  Values = {1, 2}
  MaxStores = 2
  MaxAdds = 2
  MaxFail = 1
  None = None
INVARIANTS TypeOK ReadyHasData HoldsWritten InBounds
CHECK_DEADLOCK FALSE
