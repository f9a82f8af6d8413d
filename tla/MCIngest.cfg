SPECIFICATION FairSpec
CONSTANTS
  a = a
  b = b
  c = c
  Conns = {a, b, c}
  NumShards = 2
  ShardOf <- MCShardOf
  QueueSize = 5
  IngestSize = 1
  Burst = 1
  Batch = 1
  MaxLines = 3
CONSTRAINT Traffic
INVARIANT TypeOK
INVARIANT AppliedInOrder
INVARIANT EveryLineAccounted
INVARIANT RateAccounts
PROPERTY DeliversPerConnection
PROPERTY AcceptedIsApplied
CHECK_DEADLOCK FALSE
