\* SINGLE_THREAD_TARGET build: the ring wraps twice.
SPECIFICATION Spec
CONSTANTS
  Size = 3
  PackSize = 4
  WrapSize = 2
  WireLens = {0, 1, 2, 5}
  MaxCmds = 7
  SingleThread = TRUE
INVARIANTS RepliesMatch
PROPERTY ServerSpec
CHECK_DEADLOCK FALSE
