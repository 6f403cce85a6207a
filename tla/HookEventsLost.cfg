SPECIFICATION Spec
CONSTANTS
  GuestEvents <- SomeEvents
  Traces <- TraceCalls
  Observed <- Listening
  MaxEvents = 2
  MaxCalls = 2
INVARIANT HookEventsArrive
CHECK_DEADLOCK FALSE
