CONSTANTS
  t1 = t1
  t2 = t2
  Thread = {t1, t2}
  n1 = n1
  n2 = n2
  n3 = n3
  Node = {n1, n2, n3}
  ListHead = ListHead
  ListTail = ListTail
  Null = Null
  NoThread = NoThread
  Key = {1, 2}
  Value = {0, 1}
  NotFound = NotFound
  Prefill <- MCPrefill
  ShortCircuit = TRUE
  MaxOps = 3
SPECIFICATION Spec
SYMMETRY Symmetry
INVARIANT Sorted
