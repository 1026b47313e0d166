SPECIFICATION Spec
CONSTANTS
  c1 = c1
  c2 = c2
  main = main
  side = side
  NoConn = NoConn
  Conn = {c1, c2}
  Channel = {main, side}
  SubId = {c1, c2}
  Limit <- AnyLimit
  FirstLimit = 2
  MaxMessages = 3
SYMMETRY Symmetry
CHECK_DEADLOCK FALSE
INVARIANTS
  TimersOfEmpty
  OwnSubscribersLive
  NoGap
