\* Three agents on two ranks whose activities end in the same tick; the ranks share
\* a channel with room for one request.  Calls of the service may fail, and then
\* threads may be blocked for ever.
SPECIFICATION PreFairSpec
CONSTANTS
  a1 = a1
  a2 = a2
  a3 = a3
  Agents = {a1, a2, a3}
  Ranks = {0, 1}
  Home <- ThreeOnTwo
  Plan <- ThreeAgents
  Responses <- Changes
  Capacity = 1
  MayFail = TRUE
  EndTick = 3
  Never = 10
INVARIANTS
  LeavesOnTime
  AskedInTime
  OneRequestPerTrip
  MainActivitiesKept
  ChannelOutlivesWorkers
PROPERTIES
  RunCompletes
CHECK_DEADLOCK FALSE
