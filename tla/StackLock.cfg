SPECIFICATION FairSpec
CONSTANTS
  NoEngine = NoEngine
  e1 = e1
  e2 = e2
  e3 = e3
  o1 = o1
  o2 = o2
  o3 = o3
  d1 = d1
  Engines <- ThreeEngines
  Ops <- OneOp
  Deletes <- OneDelete
  SlowReplies = TRUE
INVARIANTS TypeOK Exclusive OwnerWorks
PROPERTIES Answered LockReturned StaleLockYields
CHECK_DEADLOCK FALSE
