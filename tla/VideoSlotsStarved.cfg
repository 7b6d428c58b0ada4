SPECIFICATION FairSpec
CONSTANTS
  Request = {r1, r2, r3, r4}
  Permits = 2
  Workers = 2
PROPERTY EveryRequestEnds
CHECK_DEADLOCK FALSE
