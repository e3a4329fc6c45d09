SPECIFICATION FairSpec
CONSTANTS
  Bounds <- MCBounds
  Workers = {w1}
  MaxJobs = 2
  MaxRemotes = 3
INVARIANTS
  CrawlTypeOK
  JobsAgree

  
CHECK_DEADLOCK FALSE
