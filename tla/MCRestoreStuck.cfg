SPECIFICATION FSpec
CONSTANTS
  e1 = e1
  e2 = e2
  NumRows = 1
  Edits = {}
  ByHand = {}
  MayRefuse = FALSE
INVARIANT RecoveryConcludes
CHECK_DEADLOCK FALSE
