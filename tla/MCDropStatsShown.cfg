SPECIFICATION Spec
CONSTANTS
  l1 = l1
  c1 = c1
  c2 = c2
  h1 = h1
  Listeners = {l1}
  Conns = {c1, c2}
  ListenerOf <- MCListenerOf
  SourceOf <- MCSourceOf
  ShardOf <- MCShardOf
  QueueSize = 1
  MaxStarts = 2
  MaxDrops = 2
  MaxErrors = 0
  None = None
INVARIANT DropsShownOnce
CHECK_DEADLOCK FALSE
