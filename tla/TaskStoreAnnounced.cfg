SPECIFICATION Spec
CONSTANTS
  None = None
  Task = {t1}
  Parent <- Alone
  Segment = {s1}
  Object = {o1, o2, o3}
  Coroutine = {c1}
  MaxRequests = 2
  MaxCrashes = 0
  UseCelery = FALSE
  Faults = FALSE
  BrokerFails = FALSE
SYMMETRY Symmetry
INVARIANT AnnouncedIsStored
CHECK_DEADLOCK FALSE
