SPECIFICATION FairSpec
CONSTANTS
  home = home
  garage = garage
  m1 = m1
  m2 = m2
  device = device
  group = group
  NoOne = NoOne
  Instances = {home}
  Resources = {device}
  InstanceOf <- MCInstanceOf
  Managers = {m1}
  Emitted = {"HealthOk"}
  EventBound = 0
  Environment = {"apart", "delete", "no_api", "edit", "shutdown", "no_broker"}
CHECK_DEADLOCK FALSE
INVARIANTS
  RunningIsHeld
PROPERTIES
  DeletionCompletes
  MissingResolves
