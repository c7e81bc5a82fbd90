SPECIFICATION FilesSpec
CONSTANTS
  starter1 = starter1
  starter2 = starter2
  StarterList <- MCStarterList
  Own = {own}
  Bindings = bindings
  Documents = {bundled, edited}
  Bundled = bundled
  Defaults = Defaults
  Nothing = Nothing
  Unreadable = Unreadable
  MaxFaults = 0
PROPERTY UnreadableIsLeftAlone
