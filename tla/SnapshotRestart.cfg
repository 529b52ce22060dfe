CONSTANTS
  Order <- MCOrder
  Zones <- MCZones
  None = None
  StationZone = "north"
  BootZone <- MCBootZone
  BootMap <- MCBootMap
  Requests = {r1, r2}
  MaxRequests = 2
  MaxStarts = 3
  MaxSecond = 1

SPECIFICATION Spec

INVARIANT RecoveryFindsLatest

\* The starts are bounded, and the process may end for good.
CHECK_DEADLOCK FALSE
