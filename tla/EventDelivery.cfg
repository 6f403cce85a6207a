SPECIFICATION Spec
CONSTANTS
  GuestEvents <- SomeEvents
  Traces <- TraceCalls
  Observed <- Listening
  MaxEvents = 2
  MaxCalls = 2
INVARIANTS
  CallbacksSeeTheCall
  HeadedEventsIntactOrLost
CHECK_DEADLOCK FALSE
