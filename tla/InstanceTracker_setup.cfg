SPECIFICATION Spec
CONSTANTS
  home = home
  garage = garage
  m1 = m1
  m2 = m2
  device = device
  group = group
  NoOne = NoOne
  Instances = {home}
  Resources = {}
  InstanceOf <- MCInstanceOf
  Managers = {m1, m2}
  Emitted = {"HealthOk", "HealthError"}
  EventBound = 1
  Environment = {"create", "delete", "edit", "bad_secret", "no_broker", "shutdown"}
CHECK_DEADLOCK FALSE
INVARIANTS
  TypeOK
  RunningIsHeld
  ClosedIsNotListed
  GoneHasNoManager
