CONSTANTS
  NumThreads = 3
  MaxFds = 8
  TableSize = 4
  Services <- MCServices
  Requests <- MCRequests
  Workloads <- MCWorkloads
SPECIFICATION FairSpec
CHECK_DEADLOCK FALSE
INVARIANTS
  TypeOK
  OwnEvent
  RequestReachesMethod
PROPERTIES
  EveryClientServed
