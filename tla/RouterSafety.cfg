SPECIFICATION Spec
CONSTANTS
  s1 = s1 s2 = s2 s3 = s3 t1 = t1 t2 = t2 c1 = c1 c2 = c2
  Subs = {s1, s2, s3}
  Topics = {t1, t2}
  Cids = {c1, c2}
  NoCid = NoCid
  TopicOf <- MCTopicResponses
  CidOf <- MCCidResponses
  Dispatchers = {d1}
  BufferSize = 1
  MaxMessages = 2
INVARIANTS TypeOK NoSendOnClosed NoLostMessage RoutedSubscribed NoFlowAfterCancel
CHECK_DEADLOCK FALSE
