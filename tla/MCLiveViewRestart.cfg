SPECIFICATION Spec
CONSTANTS
  Browsers = {tab}
  Text = {a}
  Filters = {{a}}
  NoFilter = {a}
  Rows = {}
  MaxStats = 1
  MaxLogBatch = 2
  MaxClientLines = 2
  Capacity = 2
  FullEvery = 2
  WireSize = 1
  Attempts = 2
  MaxTroubles = 2
  MaxSeq = 4
  None = None
INVARIANT ConvergesAfterRestart
CHECK_DEADLOCK FALSE
