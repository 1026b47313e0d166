SPECIFICATION FairSpec
CONSTANTS
  s1 = s1
  w1 = w1
  h1 = h1
  e1 = e1
  e2 = e2
  e3 = e3
  NoConn = NoConn
  Conn = {s1, w1, h1}
  Event = {e1, e2, e3}
  ConnType <- MixedType
  QueuedEventsPerSocket = 1
  MaxDone = 2
CHECK_DEADLOCK FALSE
INVARIANTS
  RecordsAgree
  QueueBounded
PROPERTIES
  ImplementsProtocol
  EventuallyCheckedOut
