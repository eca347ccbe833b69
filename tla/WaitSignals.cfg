SPECIFICATION FairSpec
CONSTANTS
  p1 = p1
  p2 = p2
  a = a
  b = b
  w1 = w1
  w2 = w2
  Posts <- TwoPosts
  Ids <- TwoIds
  Statuses <- AnyStatus
  Conds <- TwoConds
  MaxCount = 2
INVARIANTS TypeOK EnoughSignals SignalsKept NoneMissing
PROPERTIES WaitEnds EnoughCompletes
CHECK_DEADLOCK FALSE
