SPECIFICATION Spec
CONSTANTS
  Names <- TwoNames
  Templates <- FewTemplates
  Ids <- FiveIds
  Nothing = Nothing
  Faults <- CreateFault
  Rollbacks <- Either
  MaxOps = 3
INVARIANT DeletedWithStack
CHECK_DEADLOCK FALSE
