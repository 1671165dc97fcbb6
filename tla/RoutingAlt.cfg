\* ALT on a network with a one-way detour.
SPECIFICATION AStarSpec
CONSTANTS
  any = any
  AnyMode = any
  NoVehicle = NoVehicle
  Inf = 1000
  Networks <- Detour
  Requests <- OneRequest
  Heuristics = {"alt"}
INVARIANTS
  AltFindsLeastCost
