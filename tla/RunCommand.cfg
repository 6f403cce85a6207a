SPECIFICATION Spec
CONSTANTS
  ArgumentLists <- SomeArguments
  Files = {"a.ts"}
  MaxFaults = 2
INVARIANTS
  NothingLeftBehind
  ExitCodeTellsTheRun
CHECK_DEADLOCK FALSE
