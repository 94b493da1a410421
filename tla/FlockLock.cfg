CONSTANTS
  Thread = {t1, t2}
  Survivor = t1
  Slot = {1, 2, 3}
  Values = 2
  CountBits = 2
  FirstTag = 2
  Ops <- MCOps
  MaxCalls = 3
SPECIFICATION Spec
INVARIANT RunsLiveDescriptor
PROPERTIES SectionsAtomic SurvivorReturns
CHECK_DEADLOCK FALSE
