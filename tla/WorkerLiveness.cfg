CONSTANTS
  r1 = r1
  r2 = r2
  e1 = e1
  Requests <- MCRequests
  MaxTokens <- MCMaxTokens
  Most = 1
  Encoders <- MCEncoders
  CanClose = TRUE
  CoalesceTarget = 2
  StepMayRaise = FALSE
SPECIFICATION Spec
PROPERTIES
  CallersServed
  AbandonedIsCancelled
  CloseStops
CHECK_DEADLOCK FALSE
