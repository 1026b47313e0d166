SPECIFICATION FairAdvSpec
CONSTANTS
  x1 = x1
  x2 = x2
  x3 = x3
  x4 = x4
  Item = {x1, x2, x3, x4}
  Outcome <- AnyOutcome
  Reentrant = TRUE
CHECK_DEADLOCK FALSE
PROPERTIES ImplementsWorkQueue EverythingServed
