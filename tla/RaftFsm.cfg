SPECIFICATION FairSpec
CONSTANTS
  k1 = k1 v1 = v1 o1 = o1 o2 = o2
  Keys = {k1}
  Values = {v1}
  NoValue = NoValue
  Observers = {o1, o2}
  Capacity = 1
  MaxApplies = 2
  MaxRestores = 1
INVARIANTS TypeOK ObserverInSync ApplySendsOpen SnapshotIsPrefix
PROPERTIES CancelClosesUnlessStuck ApplyReturns
CHECK_DEADLOCK FALSE
