CONSTANTS
  Main = main
  Spawned = {s1, s2}
  Configs <- AllConfigs
  Ops = {2, 5}
  Prefill = 1
  ValueRange = 1
SPECIFICATION FairSpec
INVARIANTS MWObjectExact MeasuredWindow BarrierLive IdsInRange
PROPERTY Terminates
