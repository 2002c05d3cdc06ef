SPECIFICATION ConnectSpec
CONSTANTS
  groups = groups
  caller = caller
  health = health
  main = main
  controller = controller
  valid = valid
  edited = edited
  broken = broken
  moved = moved
  NoOne = NoOne
  Topics = {groups}
  Subscribers = {health, caller}
  Publishers = {}
  HealthTask = health
  Main = main
  Controller = controller
  TopicOf <- MCTopicOf
  IdentityOf <- MCIdentityOf
  Options = {valid}
  BadOptions = {}
  RequestCapacity = 1
  Environment = {"close", "drop", "session_loss"}
  Trouble = {"loss", "refuse", "forget", "timeout"}
CHECK_DEADLOCK FALSE
INVARIANTS
  LeftoversDoNotMatter
PROPERTIES
  IsManager
