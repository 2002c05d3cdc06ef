SPECIFICATION FairSpec
CONSTANTS
  info = info
  groups = groups
  caller = caller
  health = health
  publisher = publisher
  main = main
  controller = controller
  valid = valid
  edited = edited
  broken = broken
  moved = moved
  NoOne = NoOne
  Topics = {info, groups}
  Subscribers = {health, caller}
  Publishers = {publisher}
  HealthTask = health
  Main = main
  Controller = controller
  TopicOf <- MCTopicOf
  IdentityOf <- MCIdentityOf
  Options = {valid}
  BadOptions = {}
  RequestCapacity = 1
  Environment = {"close", "drop"}
CHECK_DEADLOCK FALSE
INVARIANTS
  NoCyclicWait
  ShutdownIsDriven
PROPERTIES
  ShutdownCompletes
  SubscribeReturns
