SPECIFICATION FairSpec
CONSTANTS
  Call = {c1, c2, c3}
  Size = 2
  Limit = 2
  Retries = 1
  MaxLoops = 2
INVARIANTS TypeOK LimitKept CallsAreHeld ShutdownLeavesNothing
PROPERTIES EveryCallAnswered ShutdownEnds
CHECK_DEADLOCK FALSE
