SPECIFICATION Spec
CONSTANTS
  NoEngine = NoEngine
  e1 = e1
  e2 = e2
  e3 = e3
  o1 = o1
  o2 = o2
  o3 = o3
  d1 = d1
  Engines <- TwoEngines
  Ops <- TwoOps
  Deletes <- OneDelete
  SlowReplies = FALSE
INVARIANT LockedUntilFinished
CHECK_DEADLOCK FALSE
