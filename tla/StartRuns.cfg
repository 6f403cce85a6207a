CONSTANT Guests <- DiscoveryAndPlanGuests
SPECIFICATION Spec
INVARIANTS
  BranchesAreComplete
  GreenRunRanEverything
  RedRunHasCulprit
CHECK_DEADLOCK FALSE
