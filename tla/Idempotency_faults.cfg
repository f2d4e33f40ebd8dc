SPECIFICATION FairSpec
CONSTANTS
  Workers = {w1, w2, w3}
  TTL = 2
  MaxLag = 1
  Faults = {"crash", "store"}
  MaxFaults = 2
INVARIANTS
  WorksAlone
  ProcessedOnce
  NeverFalselyDone
PROPERTIES
  PermanentlySuccessful
  OrphanTakenOver
