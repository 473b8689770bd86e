CONSTANTS
  r1 = r1
  r2 = r2
  e1 = e1
  Requests <- MCRequests
  MaxTokens <- MCMaxTokens
  Most = 2
  Encoders <- MCEncoders
  CanClose = TRUE
  CoalesceTarget = 2
  StepMayRaise = TRUE
SYMMETRY MCSymmetry
SPECIFICATION SafeSpec
INVARIANTS
  WorkerInv
PROPERTIES
  StreamsIntact
CHECK_DEADLOCK FALSE
