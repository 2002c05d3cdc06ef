SPECIFICATION FairSpec
CONSTANTS
  lights = lights
  lamps = lamps
  one = one
  two = two
  a = a
  b = b
  bulb = bulb
  plug = plug
  ghost = ghost
  None = None
  Groups = {lights}
  Ids = {one, two}
  Names = {a, b}
  Devices = {bulb, plug}
  Strangers = {ghost}
  Specs <- MCOne
  Environments = {{"create", "unready", "stale", "unlisted", "timeout", "options"}, {"edit", "timeout"}}
CHECK_DEADLOCK FALSE
PROPERTIES
  SyncedIsTrue
  Converges
