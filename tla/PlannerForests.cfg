CONSTANT Forests <- GraphAndTreeForests
SPECIFICATION Spec
INVARIANTS
  StagedAfterPrerequisites
  EachTargetPlannedOnce
  StagedExactlyWhenReachable
  SequentialScopesAreSerial
  PlanIsWellFormed
CHECK_DEADLOCK FALSE
