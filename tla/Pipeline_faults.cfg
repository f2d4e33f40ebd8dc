SPECIFICATION FairSpec
CONSTANTS
  N = 2
  Kind <- PipeValidate
  NumItems = 3
  Capacity <- Ones
  WithToken = TRUE
  Faults = {"panic", "node_flush", "dlq_write", "dlq_panic", "dlq_flush", "grace", "abandon"}
INVARIANTS
  IInv
  NoSilentLoss
  ExactErrorCount
  QuiescentReturn
PROPERTIES
  Delivers
  WindsDown
