CONSTANTS
  NumUnits = 2
  Setpoints <- MCSetpoints
  Requests = {r1, r2}
  Scheduler = cycle
  OperatorStatuses <- MCOperatorStatuses
  PolicyTarget = 1
  MaxRequests = 2
  MaxRestarts = 1

SPECIFICATION Spec

INVARIANTS
  TypeOK
  RunningIsActive
  BackupLockout
  ActiveServes

PROPERTIES
  FailoverConverges
  DurableConverges

\* The process may end for good once its restarts are used up.
CHECK_DEADLOCK FALSE
