CONSTANTS
  r1 = r1
  r2 = r2
  r3 = r3
  Requests = {r1, r2, r3}
  a1 = a1
  a2 = a2
  Attempts = {a1, a2}

SPECIFICATION Spec
SYMMETRY Symmetry
INVARIANTS
  TypeOK
  NothingAcceptedIsLost
  DecisionsFollowWhatWasSeen
PROPERTIES
  RetryIsReplayed
CHECK_DEADLOCK FALSE
