\* Default build: a command of the earlier lap is executed again.
SPECIFICATION Spec
CONSTANTS
  Size = 3
  PackSize = 4
  WrapSize = 2
  WireLens = {2}
  MaxCmds = 3
  SingleThread = FALSE
PROPERTY NeverOlder
