CONSTANTS
  t1 = t1
  t2 = t2
  Thread = {t1, t2}
  n1 = n1
  n2 = n2
  n3 = n3
  Node = {n1, n2, n3}
  Dummy = Dummy
  Empty = Empty
  Pending = Pending
  Void = Void
  NoThread = NoThread
  MayConflict = TRUE
  Reread = TRUE
SPECIFICATION FairSpec
INVARIANTS LinksOK
PROPERTIES DequeLinearizable OperationsReturn
