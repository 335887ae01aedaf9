\* Two opens of the device, at any time relative to each other; the counters
\* wrap around past the start values.
SPECIFICATION FairSpec
CONSTANTS
  Sessions = {s1, s2}
  Mod = 3
  PI_START = 2
  CI_START = 1
  PiText = 0
  CiText = 2
  SyncRetry = 2
  MaxCmds = 2
  NoPage = NoPage
INVARIANTS TypeOK CallAtomic NeverWaitsServed NoModeMix NoUseAfterFree
PROPERTIES CallReturns OpenEnds
CHECK_DEADLOCK FALSE
