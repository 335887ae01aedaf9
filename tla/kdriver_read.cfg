\* One process, its reads and writes by ioctl, no failures.
SPECIFICATION Spec
CONSTANTS
  Procs = {p1}
  Types = {"flat", "assca"}
  Values = {v1, v2}
  MaxMinor = 1
  MaxFail = 0
  Junk = Junk
  None = None
INVARIANTS WordKept
CHECK_DEADLOCK FALSE
