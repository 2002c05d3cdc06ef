SPECIFICATION Spec
CONSTANTS
  info = info
  groups = groups
  caller = caller
  health = health
  publisher = publisher
  main = main
  controller = controller
  valid = valid
  edited = edited
  broken = broken
  moved = moved
  NoOne = NoOne
  Topics = {groups}
  Subscribers = {health, caller}
  Publishers = {}
  HealthTask = health
  Main = main
  Controller = controller
  TopicOf <- MCTopicOf
  IdentityOf <- MCIdentityOf
  Options = {valid, edited, broken, moved}
  BadOptions = {broken}
  RequestCapacity = 1
  Environment = {"close", "update", "release", "lag", "drop", "session_loss"}
CHECK_DEADLOCK FALSE
INVARIANTS
  AckForHolder
  ListenersAreSubscribed
  TypeOK
  OptionsApplied
PROPERTIES
  IsLockableNotify
  ShutdownIsFinal
