SPECIFICATION Spec
CONSTANTS
  Never = 100
  Net <- NetworkLinks
  MainModes = {"car"}
  TeleportedModes = {"walk"}
  BeelineFactor <- OfWalk
  TeleportSpeed <- OfWalk
  AccessEgressMode = "walk"
  LeastCostPath <- PathTable
  Coords <- OnAndAboveTheLine
  AtGround <- MCAtGround
  Distance <- MCDistance
  NearestPoint <- MCNearestPoint
  Middle <- MCMiddle
  DefaultSubpopulation = "person"
  StrategyWeights <- Weights
  MaxMemory = 2
  Remover = "WorstScore"
  NoScore = NoScore
  FirstIteration = 0
  LastIteration = 2
  WritePlansInterval = 1
  FractionToDisableInnovation = 50
  NumParts = 2
  MetisPartition <- Parts
  DefaultCellSize = 75
  DefaultMaxV = 999
  DefaultNetMode = "car"
  Inputs <- AllInputs
INVARIANTS
  AcceptedRunsComplete
  TripsKept
  RestartUnchanged
PROPERTIES
  PreparedStaysPrepared
  RemovalKeepsBest
