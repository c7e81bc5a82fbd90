SPECIFICATION Spec
CONSTANTS
  plain = plain
  ping = ping
  noDelay = noDelay
  delay = delay
  None = None
  i1 = i1
  i2 = i2
  p1 = p1
  p2 = p2
  b1 = b1
  b2 = b2
  Ids = {i1, i2}
  Contents = {plain, ping}
  Quick = {noDelay, delay}
  Traffic <- MCTraffic
  Steps <- MCSteps
  Targeted = {ping}
  Profiles = {p1, p2}
  Baselines = {b1, b2}
  StaleStarts = TRUE
INVARIANTS
  ShownGoverns
