SPECIFICATION FairSpec
CONSTANTS
  r1 = r1
  q1 = q1
  t1 = t1
  t2 = t2
  Request = {r1}
  Query = {q1}
  Type = {t1, t2}
  MaxSize = 2
  Elsewhere = {r1}
  MaxServers = 1
  Pm2 = TRUE
  Overload = TRUE
CHECK_DEADLOCK FALSE
INVARIANTS
  RunsAsAsked
  TasksServed
  AnswersHold
PROPERTIES
  EventuallyAnswered
