SPECIFICATION Spec
CONSTANTS
  MaxFrames = 5
  MaxSpawns = 1
  MaxContexts = 1
  Scopes = {s1, s2, s3}
  MaxApplications = 1
  MaxFutures = 4
  MaxClock = 1
  MaxOut = 1
  MaxTests = 3
  MaxHandlers = 2
  MaxSends = 2
  MaxReads = 2
INVARIANTS SameThread LocalsFollow RunningIsKept NoStrayCancel ReachesAll
PROPERTIES CallsReturn
CHECK_DEADLOCK FALSE
