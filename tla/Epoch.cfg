CONSTANTS
  n1 = n1
  n2 = n2
  n3 = n3
  workers = 2
  Node = {n1, n2, n3}
  NoNode = NoNode
  MaxEpoch = 4
SPECIFICATION Spec
SYMMETRY Symmetry
INVARIANTS TypeOK PinnedEpoch InUseNotFreed
