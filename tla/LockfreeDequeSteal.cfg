CONSTANTS
  s1 = s1
  s2 = s2
  Stealer = {s1}
  StealerList <- OneStealer
  Owner = Owner
  Nothing = Nothing
  Empty = Empty
  log_initial_size = 0
  MaxPush = 3
  MaxSteal = 1
SPECIFICATION Spec
INVARIANT NotStolenEarly
