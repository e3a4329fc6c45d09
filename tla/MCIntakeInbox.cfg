SPECIFICATION FairSpec
CONSTANTS
  Entries <- MCEntries
  Texts <- MCTexts
  Plots <- MCPlots
  link = link
  body = body
  Calls = {c1}
  Fetchers = {w1}
  MaxItems = 3
  MaxAttempts = 2
  RetryLimit = 1
INVARIANTS
  IntakeTypeOK
  NothingIsForgotten
PROPERTIES
  EveryFetchEnds
CHECK_DEADLOCK FALSE
