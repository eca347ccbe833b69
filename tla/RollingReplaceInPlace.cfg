SPECIFICATION Spec
CONSTANTS
  Capacities <- UpToFour
  Services <- UpToSeven
  Batches <- UpToSeven
  PauseTimes <- NoOrOne
  Timeout = 4
  InPlace <- Either
INVARIANT MinimumInService
CHECK_DEADLOCK FALSE
