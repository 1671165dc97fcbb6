\* Three partitions in a line, teleported legs end in any of them.
SPECIFICATION FairSpec
CONSTANTS
  Ranks <- Line3
  Nbr <- LineNbr
  Reach <- ReachAll
  Vehicles = {v1}
  StartTick = 0
  EndTick = 2
  GlobalSync = FALSE
INVARIANTS
  NeighbourMessagesOnTime
  WaitJustified
  NothingLeftBehind
  VehiclesConserved
PROPERTIES
  Termination
  ImplementsTickSync
