SPECIFICATION Spec
CONSTANTS
  m1 = m1 m2 = m2 o1 = o1 o2 = o2
  Members = {m1, m2}
  Bootstrap = {m1}
  Observers = {o1, o2}
  None = None
  Capacity = 1
  MaxConfigs = 3
SYMMETRY ObserverSymmetry
INVARIANTS TypeOK RegisteredAgree FollowsLog
CHECK_DEADLOCK FALSE
