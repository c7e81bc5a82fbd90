CONSTANTS
  Keys = {"LCtrl", "RCtrl", "Q"}
  normalize <- MCNormalize
  Actions = {"toggle", "next"}
  NoAction = none
  Loaded <- MCLoaded
  Desks <- MCDesks
  Edited = {"toggle"}
SPECIFICATION HistorySpec
INVARIANTS NeverRepeats
PROPERTIES HeldKeysNeverAct RecordedIsPressed ShortcutsComeBack
