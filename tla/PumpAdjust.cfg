CONSTANTS
  NumUnits = 2
  Setpoints = {0}
  Requests = {r1, r2}
  Scheduler = cycle
  OperatorStatuses = {"maintenance"}
  PolicyTarget = 0
  MaxRequests = 3
  MaxRestarts = 0

SPECIFICATION Spec

PROPERTY
  AdjustTripsVibratingUnit

\* The process may end for good once its restarts are used up.
CHECK_DEADLOCK FALSE
