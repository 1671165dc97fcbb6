\* The same partitions with qsim.global_sync.
SPECIFICATION FairSpec
CONSTANTS
  Ranks <- Line3
  Nbr <- LineNbr
  Reach <- ReachAll
  Vehicles = {v1}
  StartTick = 0
  EndTick = 2
  GlobalSync = TRUE
INVARIANTS
  GlobalSyncLateness
