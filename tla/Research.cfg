SPECIFICATION Spec
CONSTANTS
  v1 = v1
  v2 = v2
  Versions = {v1, v2}
  Moves <- MCMoves
  Horizons = {1, 2}
  MaxDays = 2
  MaxPredictions = 2
  MinSample = 2
  RecentN = 2
  None = None
  FactorIds = {f1, f2, f3}
  Labels = {a}
  Days <- MCDays
  Dates = {1, 3, 6}
  TrainMin = 2
  Horizon = 2
  FoldStep = 2
  MaxEvents = 4
SYMMETRY Symmetry
CHECK_DEADLOCK FALSE
INVARIANTS
  TrackRecordIsHonest
  DroppedStaysOut
  FoldsArePointInTime
  StatisticsAreSound
  ModelsAreMonotone
  ChangesAreExplained
  TrainingDoesNotSeeTest
  GateNeedsFolds
PROPERTY VerdictsFollowLifecycle
