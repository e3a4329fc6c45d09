SPECIFICATION Spec
CONSTANTS
  Sites = {a, b}
  Calls = {c1, c2}
  Workers = {w1, w2}
  w1 = w1
  w2 = w2
  Names = {"first", "second"}
  Plots <- MCPlots
  MaxJobs = 3
  MaxAttempts = 2
  RetryLimit = 1
INVARIANTS
  TypeOK
  RoutesAreTheList
PROPERTIES
  RoutingMovesToServedSites
CHECK_DEADLOCK FALSE
