SPECIFICATION Spec
CONSTANTS
  s1 = s1 s2 = s2 t1 = t1 g1 = g1
  Subs = {s1, s2}
  Pubs = {p1}
  Topics = {t1}
  Shares = {g1}
  NoShare = NoShare
  TopicOf <- MCTopicOne
  ShareOf <- MCMixed
  Requests = {s1, s2}
  MaxCalls = 3
  MaxDrops = 2
INVARIANTS TypeOK CallKeepsConn RoutedCovered
CHECK_DEADLOCK FALSE
