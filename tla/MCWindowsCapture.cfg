CONSTANTS
  Settings <- MCSettings
  KeepAtMost = 2
  FlushWhenFull = 1
  MaxPackets = 3
  LagMaxMs = 1
  LagDefaultMs = 1
SPECIFICATION FairSpec
INVARIANTS NothingIsLost HeldLeaveInOrder AssertionsHold
PROPERTY CallsReturn
