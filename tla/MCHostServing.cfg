SPECIFICATION Spec
CONSTANTS
  Sites = {"a"}
  Hosts = {"one", "two"}
  Paths = {"/page", "file"}
  Plots <- MCPlots
  Built <- MCBuilt
  Routing <- MCRouting
  Requests = {1, 2}
INVARIANTS
  TypeOK
  AnswersAreTrue
PROPERTIES
  RefusedForAReason
CHECK_DEADLOCK FALSE
