\* The command patch: one reanalysis, two patch rounds each.
CONSTANTS
  Agent1Rounds = 2
  Agent2Rounds = 2
  Verify = FALSE
  Scope = {"message_capture", "message_injection", "time_control"}
  Undecided = {"message_capture", "message_injection", "time_control"}
  Verdicts = {"SUPPORTED", "PATCHABLE", "PARTIAL"}
  Reports <- MCReports
  Changes <- MCChanges
  Issues <- MCIssues
  Checks <- MCChecks
SPECIFICATION Spec
INVARIANTS
  TypeOK
  DiscardedStaysOut
  ExistingTestsUntouched
  UsageMatchesInterface
  CandidateWithinReport
  MessageControlIsJoint
  FeedbackMatchesWorktree
PROPERTIES
  RevisionStartsFromLast
  CandidateRefined
CHECK_DEADLOCK FALSE
