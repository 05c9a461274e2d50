SPECIFICATION Spec
CONSTANTS
  h1 = h1
  t1 = t1
  c1 = c1
  HxOrders <- OneHx
  TickFlowOrders <- OneTickFlow
  Cancels <- OneCancel
  MaxReports = 3
CHECK_DEADLOCK FALSE
INVARIANTS OneOwner RecordedOnRetirement
PROPERTIES ReportsReachLiveContexts EndedOrdersAreRetired
