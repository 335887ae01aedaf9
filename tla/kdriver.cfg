\* Two processes that load, use and unload the driver, with one failure.
SPECIFICATION Spec
CONSTANTS
  Procs = {p1, p2}
  Types = {"flat", "assca", "list"}
  Values = {v1, v2}
  MaxMinor = 2
  MaxFail = 1
  Junk = Junk
  None = None
INVARIANTS TypeOK ToldIsServed OwnWord GoodHasAnswer UnloadComplete
SYMMETRY Symmetry
CHECK_DEADLOCK FALSE
