CONSTANTS
  t1 = t1
  t2 = t2
  Thread = {t1, t2}
  r0 = r0
  r1 = r1
  r2 = r2
  Addr = {r0, r1, r2}
  Value = {r0, r1, r2}
  InitMem <- MCInitMem
  Pairs <- MCPairs
  None = None
  MAX_RETRIES = 2
  MaxCalls = 1
SPECIFICATION SFairSpec
INVARIANTS SectionsOK FallbackExclusive FallbackIsolated EndTakesTheRightPath FallbackCounted
PROPERTIES SwapAtomic SwapsReturn
