SPECIFICATION Spec
CONSTANTS
  BucketCount = 3
  Step = 2
  MaxNow = 6
  MaxCount = 1
INVARIANT SteadyStreamShows
CHECK_DEADLOCK FALSE
