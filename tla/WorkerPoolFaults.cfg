CONSTANTS
  TaskCount = 4
  WorkerCount = 2
  LaneCount = 1
  Faults = {"taskError", "crash", "exit", "laneThrow"}
SPECIFICATION Spec
INVARIANTS
  EachTaskInOnePlace
PROPERTIES
  ImplementsBatch
  Settles
  WorkersStop
CHECK_DEADLOCK FALSE
