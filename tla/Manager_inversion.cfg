SPECIFICATION FairSpec
CONSTANTS
  info = info
  groups = groups
  caller = caller
  health = health
  publisher = publisher
  main = main
  controller = controller
  valid = valid
  edited = edited
  broken = broken
  moved = moved
  NoOne = NoOne
  Topics = {info, groups}
  Subscribers = {health, caller}
  Publishers = {}
  HealthTask = health
  Main = main
  Controller = controller
  TopicOf <- MCTopicOf
  IdentityOf <- MCIdentityOf
  Options = {valid}
  BadOptions = {}
  RequestCapacity = 2
  Environment = {"release"}
CHECK_DEADLOCK FALSE
PROPERTIES
  SubscribeReturns
