SPECIFICATION Spec
CONSTANTS
  Callers = {c1, c2}
  Versions = {v1, v2}
  ApprovalIds = {a1}
  None = None
  MaxMoves = 5
  MaxCrashes = 1
SYMMETRY Symmetry
INVARIANT RowHasArtifact
INVARIANT ForecastIsApproved
INVARIANT TwoLiveMeansRace
PROPERTY ImplementsLifecycle
CHECK_DEADLOCK FALSE
