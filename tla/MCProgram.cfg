SPECIFICATION ProgramSpec
CONSTANTS
  Callers = {hubLoop, http1}
  Hub = hubLoop
  NoCaller = none
  Shards = {s1}
  QueueSize = 1
  IngestSize = 1
  Burst = 1
  CommandSize = 1
  RequestSize = 2
  ResponseSize = 1
INVARIANT TypeOK
INVARIANT OwnAnswer
INVARIANT NeverBlockedByCaller
PROPERTY SnapshotReturns
PROPERTY Exits
CHECK_DEADLOCK FALSE
