SPECIFICATION FairSpec
CONSTANTS
  bulb = bulb
  plug = plug
  a = a
  b = b
  None = None
  Devices = {bulb, plug}
  Names = {a, b}
  Specs <- MCSpecs
  FirstList <- MCFirstList
  Environments = {{"edit", "timeout"}, {"delay", "garble"}, {"fitness"}, {"unready", "subscribe", "lag"}, {"late", "timeout"}}
  Fickle = {plug}
  MaxPatches = 1
CHECK_DEADLOCK FALSE
INVARIANTS
  TypeOK
  CapabilitiesReachTheDevice
PROPERTIES
  SyncedIsTrue
  Converges
