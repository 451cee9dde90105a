SPECIFICATION MCSpec
CONSTANTS
  i1 = i1
  i2 = i2
  i3 = i3
  None = None
  Instruments <- MCInstruments
  US <- MCUS
  Prices = {1, 2}
  Deposits = {3}
  Weight = 2
  MaxSlip = 1
  MaxFee = 1
  MaxOps = 3
  MaxQuantity = 1
SYMMETRY Symmetry
CHECK_DEADLOCK FALSE
INVARIANTS
  ProposalsRespectLimits
  ValueIsConserved
  FillsFollowDecisions
  JournalExplainsPositions
  SellsStayCovered
  OverdraftBounded
