SPECIFICATION Spec
CONSTANTS
  name = name
  number = number
  home = home
  Requests = {r1, r2, r3, r4}
  Ids = {name, number}
  Addresses = {home}
  AddressOf <- MCAddressOf
  Filters = {f1, f2}
  FirstFilter = f1
  QueueSize = 2
  None = None
SYMMETRY RequestSymmetry
INVARIANT TypeOK
INVARIANT NoOrphanSocket
INVARIANT StatusIsTrue
INVARIANT FiltersAgree
CHECK_DEADLOCK FALSE
