CONSTANTS
  Packets = {"q"}
  Outbound = {"q"}
  HeldLimit = 1
  Sequences = {"a", "b"}
  StepCount <- MCStepCount
  Lag <- MCLag
  Target <- MCTarget
  None = none
  Other = other
  Connections = {"c", "d"}
  LateApproval = TRUE
SPECIFICATION Spec
INVARIANT IdleHostAgrees
CHECK_DEADLOCK FALSE
