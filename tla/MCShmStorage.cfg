SPECIFICATION Spec
CONSTANTS
  t1 = t1
  t2 = t2
  none = none
  md = md
  zero = zero
  Threads <- MCThreads
  NoThread <- none
  Items <- MCItems
  Blank <- zero
  TableSize = 3
  Keys <- MCAllKeys
  MaxCrashes = 2
SYMMETRY MCSymmetry
INVARIANTS TypeOK ListSound EveryRecordListed NoBlankServed
PROPERTIES ForEachSeesAll RestartKeepsTable
