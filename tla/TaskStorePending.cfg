SPECIFICATION Spec
CONSTANTS
  None = None
  Task = {t1}
  Parent <- Alone
  Segment = {s1}
  Object = {o1, o2, o3}
  Coroutine = {c1, c2}
  MaxRequests = 1
  MaxCrashes = 1
  UseCelery = FALSE
  Faults = FALSE
  BrokerFails = FALSE
SYMMETRY Symmetry
INVARIANT PendingIsParsed
CHECK_DEADLOCK FALSE
