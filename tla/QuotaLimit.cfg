CONSTANTS
  Valves <- MCValves
  Order <- MCOrder
  Zones <- MCZones
  None = None
  BootMap <- MCBootMap
  Requests = {r1, r2}
  Scheduler = Scheduler
  Limit = 1
  MaxBatch = 2
  MaxRequests = 3
  MaxDays = 2
  MaxRestarts = 0

SPECIFICATION Spec

INVARIANT QuotaIsHard

\* Requests, restarts and days are bounded.
CHECK_DEADLOCK FALSE
