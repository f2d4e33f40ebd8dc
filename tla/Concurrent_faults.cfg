SPECIFICATION FairSpec
CONSTANTS
  NumItems = 3
  Limit = 3
  Capacity = 1
  Faults = {"panic", "consumer_gone", "dlq_dead"}
INVARIANTS
  Complete
  ReleasedInOrder
  NothingSwallowed
  OnlyErrorsDelay
PROPERTIES
  CallsNode
  StageIsOver
