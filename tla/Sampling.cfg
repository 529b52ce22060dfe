CONSTANTS
  Valves <- MCValves
  Order <- MCOrder
  Zones <- MCZones
  None = None
  BootMap <- MCBootMap
  Requests = {r1, r2}
  Scheduler = Scheduler
  Limit = 2
  MaxBatch = 2
  MaxRequests = 3
  MaxDays = 2
  MaxRestarts = 1

SPECIFICATION Spec

INVARIANTS
  TypeOK
  UsageAccounted
  HardLimit
  SwitchReachesSamples

PROPERTY WindowFollowsDay

\* Requests, restarts and days are bounded.
CHECK_DEADLOCK FALSE
