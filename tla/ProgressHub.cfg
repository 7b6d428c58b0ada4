SPECIFICATION FairSpec
CONSTANTS
  Stream = {k1, k2}
  MaxHistory = 2
  MaxEvents = 4
INVARIANT TypeOK
PROPERTIES SeqRises FeedSpec EventsArrive
