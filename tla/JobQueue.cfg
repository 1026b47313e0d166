SPECIFICATION FairSpec
CONSTANTS
  Timed = TRUE
  Late = FALSE
  MaxJobs = 4
  MaxReports = 1
CHECK_DEADLOCK FALSE
PROPERTIES
  RunEnds
  ImplementsSequence
