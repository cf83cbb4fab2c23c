SPECIFICATION FairSpec
CONSTANTS
  s1 = s1 s2 = s2 s3 = s3 t1 = t1 t2 = t2 c1 = c1 c2 = c2
  Subs = {s1, s2}
  Topics = {t1}
  Cids = {}
  NoCid = NoCid
  TopicOf <- MCTopicOne
  CidOf <- MCCidOne
  Dispatchers = {d1}
  BufferSize = 1
  MaxMessages = 3
INVARIANTS NoLostMessage
PROPERTIES CancelCloses AddReturns
CHECK_DEADLOCK FALSE
