SPECIFICATION FairSpec
CONSTANTS
  Messages <- MCMessages
  KnownIds <- MCKnownIds
  QueueBound = 2
  MaxReceived = 3
INVARIANTS TypeOK NoMapRace CountsAddUp StatusFollows HandledInOrder
PROPERTIES QuitReturns QueueDrains
CHECK_DEADLOCK FALSE
