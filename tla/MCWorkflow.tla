----------------------------- MODULE MCWorkflow -----------------------------
(***************************************************************************)
(* Small instances of the patch loop: the Analyzer decides on message      *)
(* capture, message injection and time control; the other capabilities are *)
(* not applicable.                                                         *)
(***************************************************************************)
EXTENDS WorkflowProperties

CONSTANTS Undecided,  \* the capabilities the Analyzer decides on
          Verdicts    \* the statuses it may give them

MCReports ==
  {r \in {[c \in CapabilityNames |-> IF c \in Undecided THEN f[c] ELSE "NOT_APPLICABLE"] :
            f \in [Undecided -> Verdicts]} : ValidReport(r)}

\* A call makes edits of one kind, or none.
MCChanges == {kinds \in SUBSET EditKind : \A k, l \in kinds : k = l}

MCIssues == SUBSET Undecided

MCChecks ==
  { [capability |-> "message_capture", code |-> "MESSAGE_CAPTURE_FAILED"],
    [capability |-> "message_capture", code |-> "MESSAGE_SUPPRESSION_FAILED"],
    [capability |-> "message_injection", code |-> "MESSAGE_INJECTION_RETENTION_FAILED"],
    [capability |-> "time_control", code |-> "TIME_CONTROL_FAILED"] }
=============================================================================
