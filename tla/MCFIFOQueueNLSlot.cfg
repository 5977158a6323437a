SPECIFICATION FairSpec
CONSTANTS
  m1 = m1
  m2 = m2
  none = none
  Items <- MCItems
  NoItem <- none
  Capacity = 3
  MaxAccept = 3
PROPERTY HoldsRequestedCapacity
