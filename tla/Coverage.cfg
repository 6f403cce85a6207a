SPECIFICATION Spec
CONSTANTS
  Hash <- SharedHash
  Programs <- SomePrograms
  Options <- SomeOptions
INVARIANTS
  CoverageIsExact
  EventsAreLocated
CHECK_DEADLOCK FALSE
