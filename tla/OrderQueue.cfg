CONSTANTS
  Issuers = {i1, i2}
  Drainers = {d1, d2}
  MaxOrders = 4

SPECIFICATION Spec

INVARIANTS
  TypeOK
  EveryOrderOnce
  OnlyRacesInvert

PROPERTIES
  RefinesIssueQueue
  DrainReachesOrders
