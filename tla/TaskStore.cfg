SPECIFICATION Spec
CONSTANTS
  None = None
  Task = {t1}
  Parent <- Alone
  Segment = {s1}
  Object = {o1, o2, o3}
  Coroutine = {c1, c2}
  MaxRequests = 4
  MaxCrashes = 1
  UseCelery = FALSE
  Faults = TRUE
  BrokerFails = FALSE
SYMMETRY Symmetry
INVARIANTS TypeOK KeysHaveHolders NoDuplicateWork StagesHaveScripts
PROPERTY DeadStaysDead
CHECK_DEADLOCK FALSE
