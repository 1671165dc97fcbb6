\* Three partitions in a line; a teleported leg may end in a partition that is no
\* neighbour.
SPECIFICATION PoolSpec
CONSTANTS
  Ranks <- Line3
  Nbr <- LineNbr
  Reach <- ReachAll
  Vehicles = {p1}
  StartTick = 0
  EndTick = 0
  GlobalSync = FALSE
  Home <- HomeZero
  FirstIteration = 0
  LastIteration = 1
  MayPanic = FALSE
INVARIANTS
  PopulationConserved
