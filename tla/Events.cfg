SPECIFICATION Spec
CONSTANTS
  TicksPerSecond = 16
  FractionDigits = 3
  Ranks = {0, 1}
  Agents = {1, 2}
  Plans <- MCPlans
  Owner <- MCOwner
  Duration <- MCDuration
  MainModes = {"car"}
  EndTick = 5
  FirstIteration = 1
  LastIteration = 2
  WriteEventsInterval = 1
  Formats = {"xml", "binpb"}
INVARIANTS
  FilesTellTheRun
  TravelTimesAreStays
  CrossingsPaired
  VerdictSound
