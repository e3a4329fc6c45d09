SPECIFICATION Spec
CONSTANTS
  Editions = {"e1", "e2"}
  Sites = {"s1", "s2"}
  Texts = {"t1", "t2", "t3"}
  Flawed = {"t3"}
  PerEdition = 4
  MaxAttempts = 2
  BodyLikeness <- BodiesAlike
  TitleLikeness <- TitlesAlike
  Review <- ReviewAt
  TitleBlock <- TitleBlockAt
  OverallMin <- OverallMinAt
  FirstText <- BothTexts
  Plots <- MCPlots
INVARIANTS
  TypeOK
  NoTwinsPassed
  QualityRowIsGate
PROPERTIES
  ReleasedOnOwnCycle
CHECK_DEADLOCK FALSE
