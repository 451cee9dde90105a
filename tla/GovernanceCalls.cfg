SPECIFICATION Spec
CONSTANTS
  Callers = {c1, c2}
  ActorTypes = {"service"}
  Versions = {v1, v2}
  Requests = {r1, r2}
  Params = {p1, bad}
  ValidParams = {p1}
  ApprovalIds = {a1}
  None = None
  MaxRuns = 2
  MaxCrashes = 0
SYMMETRY Symmetry
INVARIANT OneMovePerState
INVARIANT EvidenceOnRecord
INVARIANT DecisionNamesItsEvidence
INVARIANT LineageAcyclic
CONSTRAINT Focus
CHECK_DEADLOCK FALSE
