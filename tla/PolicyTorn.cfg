CONSTANTS
  Requests = {r1, r2}
  Nobody = Nobody
  None = None
  Missing = Missing
  Torn = Torn
  Targets <- MCTargets
  DefaultTarget = "day"
  MaxRequests = 3
  MaxRestarts = 0

SPECIFICATION Spec

INVARIANT PolicyNeverTorn

\* The requests are bounded, and the process may end for good.
CHECK_DEADLOCK FALSE
