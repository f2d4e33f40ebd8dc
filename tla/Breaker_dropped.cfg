SPECIFICATION FairSpec
CONSTANTS
  Callers = {c1, c2}
  Allowed = 2
  ResetAfter = 2
  MaxTime = 5
PROPERTIES
  HalfOpenEnds
