SPECIFICATION Spec
CONSTANTS
  Runners = {r1}
  Nodes = {"draft", "review", "publish"}
  Start = "draft"
  End = "end"
  Edges <- MCEdges
  Interrupts = {"review"}
  Strategies = {"always"}
  EveryN = 2
  MaxSteps = 5
  Faults = {"crash"}
INVARIANTS
  InterruptHonoured
CHECK_DEADLOCK FALSE
