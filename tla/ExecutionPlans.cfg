CONSTANTS
  Plans <- BailAndBlockedPlans
  NoScope = 0
SPECIFICATION Spec
INVARIANTS
  TypeOK
  FailureBlocksDependents
  BlockedNeverRuns
  BailStopsScope
  RunAgreesWithEvaluation
PROPERTIES
  ImplementsPromise
  Terminates
CHECK_DEADLOCK FALSE
