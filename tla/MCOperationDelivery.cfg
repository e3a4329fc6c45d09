SPECIFICATION Spec
CONSTANTS
  Jobs <- MCJobs
  Ledgered <- MCOperations
  Workers <- MCWorkers
  BatchSize = 1
  MaxAttempts = 2
  RetryLimit = 3
  MaxFaults = 3
  a = a
  e = e
  w1 = w1
  w2 = w2
INVARIANTS
  TypeOK
  OperationsAgree
PROPERTIES
  TerminalIsFinal
  EveryOperationEnds
CHECK_DEADLOCK FALSE
