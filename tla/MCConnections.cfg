SPECIFICATION LiveSpec
CONSTANTS
  c1 = c1
  c2 = c2
  c3 = c3
  hostA = hostA
  hostB = hostB
  Listeners = {l1, l2}
  Conns <- MCConns
  Sources = {hostA, hostB}
  SourceOf <- MCSourceOf
  MaxConnsGlobal = 1
  MaxConnsPerListener = 2
  MaxLate = 2
  None = None
INVARIANT TypeOK
INVARIANT WithinListenerLimit
INVARIANT WithinGlobalLimit
INVARIANT CountersAgree
INVARIANT AtMostOneLateLine
PROPERTY RejectsOnlyWhenFull
PROPERTY StopEndsLoop
CHECK_DEADLOCK FALSE
