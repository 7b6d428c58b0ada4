SPECIFICATION Spec
CONSTANTS
  None = None
  Task = {t1, t2}
  Parent <- Series
  Segment = {s1}
  Object = {o1, o2, o3}
  Coroutine = {c1, c2}
  MaxRequests = 4
  MaxCrashes = 1
  UseCelery = TRUE
  Faults = FALSE
  BrokerFails = TRUE
SYMMETRY Symmetry
INVARIANTS AckedTasksHaveRows 
PROPERTY DeadStaysDead
CHECK_DEADLOCK FALSE
