CONSTANTS
  Ids = {1, 2, 3}
  Settings <- MCSettings
  Capacity = 2
  MaxPushes = 3
  LagMaxMs = 2
  LagDefaultMs = 1
SPECIFICATION FairSpec
INVARIANTS FifoPerDirection WaitIsExact
PROPERTIES HeldEventuallyReleased ImplementsLagQueue
