SPECIFICATION FairSpec
CONSTANTS
  Task = {a, b}
  Segments = 2
  Wanted = {1}
  Process = {w1, w2}
  Orphan = {o}
  None = None
  Broken = Broken
  Retries = 1
  Requests = 2
  Crashes = 1
INVARIANTS TypeOK FilmIsOwn
PROPERTIES DeliveredVideosPlay EveryRequestEnds
CHECK_DEADLOCK FALSE
