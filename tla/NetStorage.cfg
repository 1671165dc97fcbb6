\* Legs of different length, cars and a truck, links of low capacity, no vehicle
\* ever stuck.
SPECIFICATION NetSpec
CONSTANTS
  v1 = v1
  v2 = v2
  v3 = v3
  v4 = v4
  Vehicles = {v1, v2, v3}
  Links <- Ring
  Nodes <- RingNodes
  Ranks = {0, 1}
  From <- RingFrom
  To <- RingTo
  Part <- RingPart
  Route <- Mixed
  Pce <- CarAndTruck
  Storage <- RoomForTruck
  FlowPerTick <- SlowFlow
  Duration <- ShortBc
  Threshold = 20
  EndTick = 10
  LastDeparture = 2
INVARIANTS
  StorageAccounted
  CachesCover
  FlowBalance
  VehiclesOnce
