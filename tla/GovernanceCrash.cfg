SPECIFICATION FairSpec
CONSTANTS
  Callers = {c1, c2}
  ActorTypes = {"service"}
  Versions = {v1}
  Requests = {r1}
  Params = {p1}
  ValidParams = {p1}
  ApprovalIds = {a1}
  None = None
  MaxRuns = 1
  MaxCrashes = 1
INVARIANT HistoryExplainsState
PROPERTY ImplementsLifecycle
PROPERTY EveryMoveIsRecorded
CHECK_DEADLOCK FALSE
