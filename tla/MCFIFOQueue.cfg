SPECIFICATION FairSpec
CONSTANTS
  c1 = c1
  c2 = c2
  Consumers <- MCConsumers
  NumLoops = 4
INVARIANTS TypeOK InOrder NoLostWakeup EmptyAtEnd
PROPERTY TestEnds
CHECK_DEADLOCK FALSE
