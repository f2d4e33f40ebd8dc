SPECIFICATION Spec
CONSTANTS
  Cost = 5
  Rate = 2
  Minute = 5
  Strategies = {"reject", "sleep"}
  MaxTime = 10
  MaxAdmitted = 6
INVARIANTS
  RateBound
  SleepersSpaced
PROPERTIES
  RejectsOnlyExcess
CHECK_DEADLOCK FALSE
