SPECIFICATION Spec
CONSTANTS
  Callers = {c1, c2}
  Versions = {v1, v2}
  ApprovalIds = {a1}
  None = None
  MaxMoves = 6
  MaxCrashes = 0
INVARIANT OneProductionVersion
CHECK_DEADLOCK FALSE
