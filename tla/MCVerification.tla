--------------------------- MODULE MCVerification ---------------------------
EXTENDS VerificationProperties

\* Two checks of one capability, an additional one without the required one,
\* and capabilities without any.
MCCheckList ==
  << [capability |-> "message_capture", code |-> "MESSAGE_SUPPRESSION_FAILED"],
     [capability |-> "time_control", code |-> "TIME_CONTROL_FAILED"],
     [capability |-> "message_injection", code |-> "MESSAGE_INJECTION_RETENTION_FAILED"],
     [capability |-> "message_capture", code |-> "MESSAGE_CAPTURE_FAILED"] >>

MCFixtureList == << "oracle", "driver", "trace" >>
=============================================================================
