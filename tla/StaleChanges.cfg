\* changes.patch is older than the interface report of a finished run.
CONSTANTS
  Agent1Rounds = 2
  Agent2Rounds = 2
  Verify = FALSE
  Scope = {"message_capture", "message_injection", "time_control"}
  Undecided = {"message_capture", "message_injection", "time_control"}
  Verdicts = {"PATCHABLE", "PARTIAL"}
  Reports <- MCReports
  Changes <- MCChanges
  Issues <- MCIssues
  Checks <- MCChecks
SPECIFICATION Spec
INVARIANT ChangesAreFinal
CHECK_DEADLOCK FALSE
