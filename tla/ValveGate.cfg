CONSTANTS
  Valves <- MCValves
  Zones <- MCZones
  None = None
  BootZone <- MCBootZone
  Requests = {r1, r2}
  Nobody = Nobody
  Full = 4
  MaxRequests = 2
  MaxRestarts = 0

SPECIFICATION Spec

INVARIANT
  EngagedWhileClosing


\* The requests are bounded, and the process may end for good.
CHECK_DEADLOCK FALSE
