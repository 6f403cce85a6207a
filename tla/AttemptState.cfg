SPECIFICATION Spec
CONSTANTS
  Targets <- SomeTargets
  Plans <- SomePlans
  MaxOps = 5
  MaxDepth = 2
  MaxRuns = 2
INVARIANTS
  AttemptStateIsLocal
  FailureKindIsTrue
  PlanIsKept
  AttemptIsWellNested
CHECK_DEADLOCK FALSE
