SPECIFICATION Spec
CONSTANTS
  Releases <- MCReleases
  Builds <- MCBuilds
  Bodies <- MCBodies
  BodyOf <- MCBodyOf
  Workers <- MCWorkers
  ObjectCount = 2
  MaxRollbacks = 1
  Absent = Absent
  None = None
  full = full
  short = short
  page = page
  routesFull = routesFull
  routesShort = routesShort
  r1 = r1
  r2 = r2
  w1 = w1
  w2 = w2
SYMMETRY MCSymmetry
INVARIANTS
  TypeOK
  ManifestIsCommitRecord
  PointerNamesCompleteRelease
  ReceiptsNameHeldReleases
PROPERTIES
  RollbackLeavesExpectedRelease
  ImplementsServing
