SPECIFICATION Spec
CONSTANTS
  Patterns <- MCTopics
  Topics <- MCTopics
INVARIANTS
  MatchFollowsRules
