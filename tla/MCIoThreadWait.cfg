SPECIFICATION Spec
CONSTANTS
  MaxFd = 3
  MaxInbox = 2
INVARIANT WaitsToReconnect
CHECK_DEADLOCK FALSE
