CONSTANTS
  Packets = {p1, p2}
  Targets = {any, native}
  SupportedTargets = {any}
  Settings <- MCSettings
  KernelMax = 2
  DrainPasses = 3
  LagMaxMs = 1
  LagDefaultMs = 1
SPECIFICATION FairSpec
INVARIANTS SessionExclusive CleanSessionLosesNothing FailuresAreReported
  OwnedTableNeverForgotten
PROPERTIES ImplementsContract CallsReturn EndedCaptureLetsGo AcceptedLagGoverns
