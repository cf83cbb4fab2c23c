SPECIFICATION Spec
CONSTANTS
  Base = 2
  MaxLen = 2
  Values = {v1}
  Nil = Nil
  Callers = {t1, t2}
  Bounds <- MCBounds
SYMMETRY CallerSymmetry
INVARIANTS TypeOK ScanExact Durable DeletesPrefix
