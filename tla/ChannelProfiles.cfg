SPECIFICATION FairSpec
CONSTANTS
  Tab = {t1, t2}
  Task = {t, u}
  Job = {j1, j2}
  Custom = {"generic_http"}
  Key = {k, l}
  Blank = Blank
  Mask = Mask
  NoProfile = NoProfile
  NoTask = NoTask
  Polls = 1
  Waits = 1
  Saves = 2
INVARIANTS TypeOK  RoundTrip PolledWhereSubmitted
PROPERTY EveryJobEnds
CHECK_DEADLOCK FALSE
