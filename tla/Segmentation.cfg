SPECIFICATION FairSpec
CONSTANTS
  Scenes = {inn}
  NoScene = NoScene
  Answers = {0, 5, 9, 14}
  Unreadable = Unreadable
  MaxShots = 4
  DurMin = 3
  DurMax = 13
  SegMax = 12
  ShotLimit = 3
INVARIANTS TypeOK Partition WithinLimits NothingLeftToCut MergedFirst
PROPERTY EveryScriptDecided
