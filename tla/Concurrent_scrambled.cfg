SPECIFICATION Spec
CONSTANTS
  NumItems = 3
  Limit = 2
  Capacity = 1
  Faults = {}
INVARIANTS
  DeliveredInOrder
