SPECIFICATION FairSpec
CONSTANTS
  Names <- TwoNames
  Templates <- FewTemplates
  Ids <- FiveIds
  Nothing = Nothing
  Faults <- AllFaults
  Rollbacks <- Either
  MaxOps = 3
INVARIANTS TypeOK OneRowEach TemplateTells NothingLost BackupEmptied
PROPERTIES CleanUpLast OperationEnds
CHECK_DEADLOCK FALSE
