SPECIFICATION FairSpec
CONSTANTS
  m1 = m1
  m2 = m2
  none = none
  Items <- MCItems
  NoItem <- none
  Capacity = 3
  MaxAccept = 5
INVARIANTS TypeOK FifoDelivery NoDataRace
PROPERTIES RefusedOnlyWhenFull EmptyOnlyWhenDrained ImplementsFifo
