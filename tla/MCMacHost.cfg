CONSTANTS
  Packets = {"p", "q"}
  Outbound = {"q"}
  HeldLimit = 1
  Sequences = {"a", "b"}
  StepCount <- MCStepCount
  Lag <- MCLag
  Target <- MCTarget
  None = none
  Other = other
  Connections = {"c"}
  LateApproval = FALSE
SPECIFICATION FairSpec
INVARIANTS IdleHostAgrees StopIsFlushed
PROPERTIES AbsentHostLetsGo HostLearns PacketsComeOut
