\* Dijkstra and ALT on networks of three and four nodes.
SPECIFICATION AStarSpec
CONSTANTS
  any = any
  AnyMode = any
  NoVehicle = NoVehicle
  Inf = 1000
  Networks <- AllNetworks
  Requests <- CarRequests
  Heuristics = {"zero", "alt"}
INVARIANTS
  GraphOfNetwork
  SettledIsFinal
  RouteIsLeastCost
