\* Default build: two threads, more datagrams than slots.
SPECIFICATION FairSpec
CONSTANTS
  Size = 3
  PackSize = 4
  WrapSize = 2
  WireLens = {1, 2, 5}
  MaxCmds = 5
  SingleThread = FALSE
INVARIANTS TypeOK ShouldNotGetHere NeverEmptySlot FirstLapOrder FirstLapReplies
PROPERTY EveryCommandServed
CHECK_DEADLOCK FALSE
