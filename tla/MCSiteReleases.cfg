SPECIFICATION Spec
CONSTANTS
  Editions <- MCTwoEditions
  SoleSite <- MCTwoEditions
  MaxVersions <- MCOneRevised
  e1 = e1
  e2 = e2
  MaxOperations = 4
  Slots = 1
  MaxAttempts = 1
  MaxUpsets = 1
INVARIANTS
  TypeOK
  CurrentReleaseIsServed
  TakedownReleaseOmits
PROPERTIES
  PublishNeverRestoresRemoved
  RollbackAfterTakedownReleased
CHECK_DEADLOCK FALSE
