SPECIFICATION FairSpec
CONSTANTS
  MaxFd = 4
  MaxInbox = 2
INVARIANTS TypeOK UsesOwnSocket LeakPerFailure
PROPERTIES QuitEnds Recovers
CHECK_DEADLOCK FALSE
