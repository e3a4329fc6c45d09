SPECIFICATION Spec
CONSTANTS
  Editions = {"e1", "e2"}
  Sites = {"s1", "s2"}
  Texts = {"t1", "t2", "t3"}
  Flawed = {}
  PerEdition = 4
  MaxAttempts = 2
  BodyLikeness <- BodiesAlike
  TitleLikeness <- TitlesAlike
  Review <- ReviewAt
  TitleBlock <- TitleBlockAt
  OverallMin <- OverallMinAt
  FirstText <- BothTexts
  Plots <- MCSaved
INVARIANT
  ShownTextPassed
CHECK_DEADLOCK FALSE
