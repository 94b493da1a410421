CONSTANTS
  t1 = t1
  t2 = t2
  Thread = {t1, t2}
  Row = {0, 1, 2}
  NoThread = NoThread
  MayConflict = TRUE
  MaxSwaps = 2
SPECIFICATION FairSpec
INVARIANTS TypeOK Permutation
PROPERTIES SwapAtomic SwapsReturn
