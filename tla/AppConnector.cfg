SPECIFICATION FairConnectorSpec
CONSTANTS
  s1 = s1
  s2 = s2
  s3 = s3
  NoSocket = NoSocket
  Socket = {s1, s2, s3}
  MaxTimers = 2
CHECK_DEADLOCK FALSE
INVARIANTS
  NeverStranded
  OneLink
  CrashInShutdownOnly
PROPERTIES
  Starts
  ShutdownCloses
