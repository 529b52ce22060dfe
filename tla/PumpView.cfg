CONSTANTS
  NumUnits = 2
  Setpoints = {0}
  Requests = {r1}
  Scheduler = cycle
  OperatorStatuses = {"maintenance"}
  PolicyTarget = 0
  MaxRequests = 2
  MaxRestarts = 0

SPECIFICATION Spec

PROPERTY
  FailoverReadsLive

\* The process may end for good once its restarts are used up.
CHECK_DEADLOCK FALSE
