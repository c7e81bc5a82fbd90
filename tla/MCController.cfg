CONSTANTS
  Targets <- MCTargets
  Settings <- MCSettings
  Presets <- MCPresets
  Baselines <- MCBaselines
  LagMaxMs = 1
  LagDefaultMs = 1
  PingMaxMs = 3
  PresetMaxSteps = 2
SPECIFICATION Spec
INVARIANTS
  CaptureIsAccepted CaptureIsOldOrNew SequenceIsConsistent HotkeysNeverSurprise
  AnsweredStopIsFinal EstimateIsReached DelayedIsCaptured
