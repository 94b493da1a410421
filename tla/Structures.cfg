CONSTANTS
  Thread = {t1, t2}
  Key <- Keys
  WordSize = 3
  Apply <- Outcomes
  Structures <- AllStructures
SPECIFICATION SSpec
SYMMETRY Symmetry
INVARIANTS Linearizable ContentsAgree WellFormed NodesLive NoCircle
PROPERTY ListKeeps
