SPECIFICATION FairSpec
CONSTANTS
  lights = lights
  lamps = lamps
  one = one
  two = two
  a = a
  b = b
  bulb = bulb
  plug = plug
  ghost = ghost
  None = None
  Groups = {lights, lamps}
  Ids = {one, two}
  Names = {a, b}
  Devices = {bulb}
  Strangers = {}
  Specs <- MCSingle
  Environments = {{"delete", "unready", "unmanaged"}}
CHECK_DEADLOCK FALSE
INVARIANTS
  TypeOK
PROPERTIES
  OnlyUnmanagedDeleted
  CleanupDeletesOwn
  DeletionEnds
