SPECIFICATION Spec
CONSTANTS
  c = c
  r1 = r1
  r2 = r2
  e1 = e1
  e2 = e2
  Engines <- TwoEngines
  Creator = c
  Requests <- TwoRequests
SYMMETRY Symmetric
CONSTRAINT OnCourse
INVARIANTS TypeOK RuleFollowsStack 
CHECK_DEADLOCK FALSE
VIEW Relevant
