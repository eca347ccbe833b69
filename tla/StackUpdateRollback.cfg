SPECIFICATION Spec
CONSTANTS
  Names <- TwoNames
  Templates <- FewTemplates
  Ids <- FiveIds
  Nothing = Nothing
  Faults <- UpdateFault
  Rollbacks <- Either
  MaxOps = 2
INVARIANT RolledBack
CHECK_DEADLOCK FALSE
