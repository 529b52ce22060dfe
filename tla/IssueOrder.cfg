CONSTANTS
  Issuers = {i1}
  Drainers = {d1, d2}
  MaxOrders = 2

SPECIFICATION Spec

INVARIANT
  AppliedInIssueOrder
