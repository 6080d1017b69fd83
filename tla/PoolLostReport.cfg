SPECIFICATION Spec
CONSTANTS
  PoolSize = 2
  MaxRequests = 2
  MaxFaults = 1
  MaxLostReports = 1
CHECK_DEADLOCK FALSE
INVARIANTS
  NeverStranded
