SPECIFICATION MCSpec
CONSTANTS
  Callers = {c1, c2}
  Stores = {s1, s2}
  LastDate = 2
  MaxStarts = 3
  MaxAborts = 1
  Sources = {src1, src2}
  Names = {n1, n2}
  MaxMoment = 2
  MaxWrites = 2
  Nobody = Nobody
  Nothing = Nothing
SYMMETRY Symmetry
CHECK_DEADLOCK FALSE
INVARIANTS
  MarkIsStored
  EmittedIsCovered
  RegressionMeansOvertaken
  AsOfReadsHold
  FeaturesSeeThePast
  ToolsAgree
PROPERTY
  MarkedRowsStand
