SPECIFICATION Spec
CONSTANTS
  t1 = t1
  t2 = t2
  none = none
  md = md
  zero = zero
  Threads <- MCThreads
  NoThread <- none
  Items <- MCItems
  Blank <- zero
  TableSize = 3
  Keys <- MCAllKeys
  MaxCrashes = 0
PROPERTY ResetOnlyOnMismatch
