SPECIFICATION FairSpec
CONSTANTS
  Capacities <- UpToFour
  Services <- UpToSeven
  Batches <- AnySize
  PauseTimes <- NoOrOne
  Timeout = 4
  InPlace <- Either
INVARIANTS TypeOK EnoughInService BatchBounded AllReplaced PausesInTime
PROPERTY Ends
CONSTRAINT OnCourse
CHECK_DEADLOCK FALSE
