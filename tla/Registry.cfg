SPECIFICATION Spec
CONSTANTS
  a1 = a1
  a2 = a2
  c1 = c1
  c2 = c2
  c3 = c3
  x = x
  App = {a1, a2}
  Conn = {c1, c2, c3}
  Account = {x}
  NoApp = NoApp
  NoConn = NoConn
  MaxUsers = 1
  MaxWire = 2
SYMMETRY Symmetry
CHECK_DEADLOCK FALSE
INVARIANTS
  RegistryAgrees
  ForwardHasTarget
  LocationResolves
  CountNotAbove
