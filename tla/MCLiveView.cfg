SPECIFICATION Spec
CONSTANTS
  Browsers = {tab}
  Text = {a}
  Filters = {{a}, {}}
  NoFilter = {a}
  Rows = {r1, r2}
  MaxStats = 1
  MaxLogBatch = 1
  MaxClientLines = 2
  Capacity = 2
  FullEvery = 2
  WireSize = 1
  Attempts = 2
  MaxTroubles = 2
  MaxSeq = 4
  None = None
SYMMETRY Symmetry
CONSTRAINT Followed
INVARIANT TypeOK
INVARIANT GapFreeIsExact
INVARIANT ConvergesWhenCalm
CHECK_DEADLOCK FALSE
