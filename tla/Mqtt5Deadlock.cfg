SPECIFICATION FairSpec
CONSTANTS
  s1 = s1 s2 = s2 t1 = t1 g1 = g1
  Subs = {s1}
  Pubs = {}
  Topics = {t1}
  Shares = {g1}
  NoShare = NoShare
  TopicOf <- MCTopicOne
  ShareOf <- MCPlain
  Requests = {}
  MaxCalls = 2
  MaxDrops = 0
PROPERTIES CallsReturn
CHECK_DEADLOCK FALSE
