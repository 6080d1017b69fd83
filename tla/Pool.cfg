SPECIFICATION FairSpec
CONSTANTS
  PoolSize = 2
  MaxRequests = 4
  MaxFaults = 2
  MaxLostReports = 1
CHECK_DEADLOCK FALSE
INVARIANTS
  ExactlyOneAnswer
  MalformedBlamesItsRequest
  StrandedByLostReportsOnly
PROPERTIES
  EveryRequestAnswered
  KeepsPromise
