\* The command run: baseline, review and deterministic verification, with a
\* reanalysis.  time_control is outside the scope, and message_injection has
\* a check in MCChecks, but not the required one.
CONSTANTS
  Agent1Rounds = 2
  Agent2Rounds = 2
  Verify = TRUE
  Scope = {"message_capture", "message_injection"}
  Undecided = {"message_capture", "message_injection", "time_control"}
  Verdicts = {"PATCHABLE", "PARTIAL"}
  Reports <- MCReports
  Changes <- MCChanges
  Issues <- MCIssues
  Checks <- MCChecks
SPECIFICATION FairSpec
INVARIANTS
  PassIsVetted
  PassAccountsForAll
PROPERTIES
  StepsAdvance
  Termination
CHECK_DEADLOCK FALSE
