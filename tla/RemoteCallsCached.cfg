SPECIFICATION Spec
CONSTANTS
  plain = plain
  watched = watched
  Api <- MCApi
  Watched <- MCWatched
  Pre = 2
  AutoReconnect = TRUE
  MaxCalls = 2
  MaxLinks = 4
  None = None
CHECK_DEADLOCK FALSE
INVARIANT
  CachedSent
