CONSTANTS
  Requests = {r1, r2}
  Nobody = Nobody
  None = None
  Missing = Missing
  Torn = Torn
  Targets <- MCTargets
  DefaultTarget = "day"
  MaxRequests = 5
  MaxRestarts = 1

SPECIFICATION Spec

INVARIANTS
  TypeOK
  AckedFlowSaved
  SegmentRunsOneWay
  PolicyFileCurrent
  PolicyWhole

PROPERTIES
  RefinesDurableLedger
  RequestsFinish

\* The requests are bounded, and the process may end for good.
CHECK_DEADLOCK FALSE
