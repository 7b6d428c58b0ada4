SPECIFICATION FairSpec
CONSTANTS
  Request = {r1, r2, r3, r4}
  Permits = 2
  Workers = 3
INVARIANTS TypeOK PermitsConserved
PROPERTY EveryRequestEnds
