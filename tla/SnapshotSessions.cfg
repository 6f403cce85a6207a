SPECIFICATION Spec
CONSTANTS
  Paths <- MCPaths
  Programs <- MCPrograms
  Disks <- MCDisks
  Fallback <- MCFallback
  MaxSessions = 3
INVARIANTS
  UpdatedSnapshotsPass
  GreenRunIsExact
PROPERTIES
  CallsTouchTheirOwn
CHECK_DEADLOCK FALSE
