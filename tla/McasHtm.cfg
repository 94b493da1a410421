CONSTANTS
  t1 = t1
  t2 = t2
  Thread = {t1, t2}
  a1 = a1
  a2 = a2
  Addr = {a1, a2}
  Value = {0, 1}
  InitMem <- MCInitMem
  None = None
  MAX_RETRIES = 1
  MaxCalls = 2
  Ops <- MCOps
  ShortCircuit = {TRUE, FALSE}
SPECIFICATION MSpec
SYMMETRY Symmetry
PROPERTY McasAtomic
