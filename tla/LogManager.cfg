SPECIFICATION FairSpec
CONSTANTS
  l1 = l1
  l2 = l2
  l3 = l3
  d1 = d1
  d2 = d2
  NoCall = NoCall
  Log = {l1, l2, l3}
  Call = {d1, d2}
  MaxMessages = 3
CHECK_DEADLOCK FALSE
INVARIANTS
  WrittenBeforeClose
  DisposedClosed
PROPERTY DisposeEnds
