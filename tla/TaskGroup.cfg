SPECIFICATION FairSpec
CONSTANTS
  Tasks <- TaskSet
  Plain <- SomePlain
  Graphs <- AllGraphs
INVARIANTS TypeOK CircularIffCyclic AfterRequirements AllTried
PROPERTIES RefinesOrder Terminates
CHECK_DEADLOCK FALSE
