CONSTANTS
  Guests <- Programs
  MaxFaults = 2
  MaxCalls = 3
SPECIFICATION Spec
INVARIANTS
  ReplayStateEndsWithCall
  StableIdentity
  AnswersMatchSlots
  RepeatedCallsAgree
CHECK_DEADLOCK FALSE
