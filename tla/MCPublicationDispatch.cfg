SPECIFICATION FairSpec
CONSTANTS
  Sites <- MCSites
  Assignments <- MCOneOrTwoSites
  Calls <- MCCalls
  WorkerOf <- MCTwoWorkers
  MaxFaults <- MCOnceWithOneSite
  MaxDirect <- MCOnceWithOneSite
  a = a
  b = b
  first = first
  second = second
  MaxRequests = 1
  SettleLimit = 2
  Limit = 1
  MaxOperations = 4
INVARIANTS
  TypeOK
  PlansAgree
PROPERTIES
  EveryPlanEnds
CHECK_DEADLOCK FALSE
