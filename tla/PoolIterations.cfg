\* Three partitions in a line with a global barrier in every tick, two iterations, two
\* persons.  A teleported leg may end in a partition that is no neighbour, in the last tick
\* of an iteration or before, and its message may be taken in the next iteration.  One
\* worker thread may panic, and then the others may be blocked for ever.
SPECIFICATION PoolFairSpec
CONSTANTS
  Ranks <- Line3
  Nbr <- LineNbr
  Reach <- ReachAll
  Vehicles = {p1, p2}
  StartTick = 0
  EndTick = 1
  GlobalSync = TRUE
  Home <- HomeZero
  FirstIteration = 0
  LastIteration = 1
  MayPanic = TRUE
INVARIANTS
  LeftoversTraced
  WorkersInStep
  PanicNotIgnored
PROPERTIES
  RunFinishes
CHECK_DEADLOCK FALSE
