SPECIFICATION FairSpec
CONSTANTS
  l1 = l1
  c1 = c1
  c2 = c2
  h1 = h1
  Listeners = {l1}
  Conns = {c1, c2}
  ListenerOf <- MCListenerOf
  SourceOf <- MCSourceOf
  ShardOf <- MCShardOf
  QueueSize = 1
  MaxStarts = 2
  MaxDrops = 2
  MaxErrors = 1
  None = None
INVARIANT TypeOK
INVARIANT EveryDropAccounted
PROPERTY ShownNeverFalls
PROPERTY AcceptedIsCounted
CHECK_DEADLOCK FALSE
