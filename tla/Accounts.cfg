SPECIFICATION Spec
CONSTANTS
  n1 = n1
  Name = {n1}
  MaxCalls = 3
  MaxRestarts = 1
  None = None
CHECK_DEADLOCK FALSE
INVARIANTS
  UniqueUid
  ArrayStored
  MapperInArray
  AcknowledgedStored
PROPERTY
  CallsAnswered
