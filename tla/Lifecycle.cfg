SPECIFICATION LifecycleSpec
CONSTANTS
  Connector = 2
  Timed = TRUE
  Late = TRUE
  MaxJobs = 4
  MaxReports = 1
  MaxStopReports = 2
CHECK_DEADLOCK FALSE
INVARIANTS
  StopReachesStarted
PROPERTIES
  OnStartAfterCalls
  AddedInTimeStarts
