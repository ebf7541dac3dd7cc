\* Requests of a broken or interrupted attempt are not counted.
CONSTANTS
  MaxAttempts = 2
  MaxSteps = 3
  HttpAttempts = 2
  HasTools = TRUE
  MaxToolCalls = 1
SPECIFICATION Spec
INVARIANT ApiCallsAreReal
CHECK_DEADLOCK FALSE
