\* An agent with tools: two attempts of three steps, three requests each; under
\* fairness of the controller's own steps the call ends.
CONSTANTS
  MaxAttempts = 2
  MaxSteps = 3
  HttpAttempts = 3
  HasTools = TRUE
  MaxToolCalls = 2
SPECIFICATION FairSpec
INVARIANTS
  TypeOK
  EveryAttemptRecorded
  OnlyInvalidAnswersRepeat
  RequestsCounted
  ToolsAudited
PROPERTIES
  Termination
  LastStepIsForTheAnswer
CHECK_DEADLOCK FALSE
