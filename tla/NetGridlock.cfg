\* Two pairs of vehicles block each other on a loop of links with room for one.
SPECIFICATION NetSpec
CONSTANTS
  v1 = v1
  v2 = v2
  v3 = v3
  v4 = v4
  Vehicles = {v1, v2, v3, v4}
  Links <- Loop
  Nodes <- LoopNodes
  Ranks = {0, 1}
  From <- LoopFrom
  To <- LoopTo
  Part <- LoopPart
  Route <- Rounds
  Pce <- Cars
  Storage <- RoomForOne
  FlowPerTick <- HalfACar
  Duration <- OneTick
  Threshold = 2
  EndTick = 18
  LastDeparture = 1
INVARIANTS
  GridlockDissolves
  StuckTimerSound
  QueueServedOnTime
