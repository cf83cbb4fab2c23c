SPECIFICATION Spec
CONSTANTS
  Streams = {s1}
  Results = {r1, r2}
  Scans = {c1}
  None = None
  MaxOpens = 2
CHECK_DEADLOCK FALSE
INVARIANTS TypeOK LateResultRefused StateNeedsCom Released
PROPERTIES CloseReturnsUnlessStuck
