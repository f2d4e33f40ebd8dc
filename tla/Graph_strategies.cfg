SPECIFICATION FairSpec
CONSTANTS
  Runners = {r1, r2}
  Nodes = {"draft", "review", "publish"}
  Start = "draft"
  End = "end"
  Edges <- MCEdges
  Interrupts = {"review"}
  Strategies = {"suspend_only", "every", "always"}
  EveryN = 2
  MaxSteps = 4
  Faults = {"crash", "save", "node"}
INVARIANTS
  CheckpointCoherent
  InterruptSuspends
  RepeatBound
PROPERTIES
  HistoryOnlyGrows
  CallsReturn
CHECK_DEADLOCK FALSE
