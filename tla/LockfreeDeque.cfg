CONSTANTS
  s1 = s1
  s2 = s2
  Stealer = {s1, s2}
  StealerList <- TwoStealers
  Owner = Owner
  Nothing = Nothing
  Empty = Empty
  log_initial_size = 0
  MaxPush = 4
  MaxSteal = 2
SPECIFICATION Spec
INVARIANTS BuffersOK StolenFromLiveBuffer
PROPERTY WonOnce
