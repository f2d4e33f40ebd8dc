SPECIFICATION FairSpec
CONSTANTS
  Callers = {c1, c2, c3}
  Allowed = 2
  ResetAfter = 2
  MaxTime = 9
INVARIANTS
  OneProbe
PROPERTIES
  OnlyProbeResolves
  ProbesSpaced
  HalfOpenAnswered
