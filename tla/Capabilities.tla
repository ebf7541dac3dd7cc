---------------------------- MODULE Capabilities ----------------------------
(***************************************************************************)
(* The seven testability capabilities of ConsensusSeam, the statuses the   *)
(* Analyzer may give them, and the pure functions of the controller that   *)
(* work on capability sets: which ones a report lets Agent 2 change, how   *)
(* a review narrows a revision, in which units Agent 2 is called, what is  *)
(* left unresolved, and where a deterministic failure is routed.           *)
(*                                                                         *)
(* A capability report is a function from capability to status; evidence,  *)
(* wording and obligations are abstracted.                                 *)
(*                                                                         *)
(* X_Variant is X with a plausible mistake; only mutants use it.           *)
(***************************************************************************)
EXTENDS Naturals, Sequences

MessageControl == {"message_capture", "message_injection"}

\* The order in which Agent 2 is called for single capabilities.
TransformPriority ==
  << "message_capture", "message_injection", "randomness_control",
     "time_control", "observation", "lifecycle_control" >>

\* What an interface report can describe: every capability but external_input.
Transformable == {TransformPriority[i] : i \in 1..6}

CapabilityNames == Transformable \cup {"external_input"}

Status ==
  {"SUPPORTED", "PATCHABLE", "PARTIAL", "INVASIVE", "UNKNOWN", "NOT_APPLICABLE"}

-----------------------------------------------------------------------------
(* Capability reports *)

\* The cross-field rules a capability report is validated against.
ValidReport(report) ==
  /\ report["external_input"] # "PATCHABLE"
  /\ report["message_injection"] = "SUPPORTED"
       => report["message_capture"] = "SUPPORTED"
  /\ report["message_injection"] = "PATCHABLE"
       => report["message_capture"] \in {"SUPPORTED", "PATCHABLE"}

\* What Agent 2 may be asked to change, within an allowlist.
Patchable(report, allowlist) ==
  {c \in allowlist \cap CapabilityNames : report[c] = "PATCHABLE"}

\* Agent 2 found, while implementing, that these need invasive changes.
ApplyRediscovered(report, names) ==
  [c \in CapabilityNames |-> IF c \in names THEN "INVASIVE" ELSE report[c]]

Unresolved_NoScope(report, allowlist) ==
  {c \in CapabilityNames : report[c] \in {"PARTIAL", "INVASIVE", "UNKNOWN"}}

\* The capabilities unresolved.json lists.
Unresolved(report, allowlist) ==
  {c \in CapabilityNames :
     \/ report[c] \in {"PARTIAL", "INVASIVE", "UNKNOWN"}
     \/ report[c] = "PATCHABLE" /\ c \notin allowlist}

-----------------------------------------------------------------------------
(* Which capabilities a round works on, and in which order *)

\* A review names capabilities; only the available ones are revised, message
\* capture and injection together, and all of them if it names none.
ReviewRevision(named, available) ==
  LET implicated == named \cap available
  IN IF implicated = {} THEN available
     ELSE IF implicated \cap MessageControl # {}
          THEN implicated \cup (available \cap MessageControl)
          ELSE implicated

NextUnit_Alone(remaining) ==
  {TransformPriority[i] : i \in
     {k \in 1..6 : /\ TransformPriority[k] \in remaining
                   /\ \A j \in 1..(k-1) : TransformPriority[j] \notin remaining}}

\* The next unit Agent 2 is called for: capture and injection jointly when
\* both remain, else the first remaining capability in priority order.
NextUnit(remaining) ==
  IF MessageControl \subseteq remaining THEN MessageControl
  ELSE {TransformPriority[i] : i \in
         {k \in 1..6 : /\ TransformPriority[k] \in remaining
                       /\ \A j \in 1..(k-1) : TransformPriority[j] \notin remaining}}

-----------------------------------------------------------------------------
(* Failure codes and their route *)

RequiredCheck ==
  [message_capture    |-> "MESSAGE_CAPTURE_FAILED",
   message_injection  |-> "MESSAGE_INJECTION_FAILED",
   time_control       |-> "TIME_CONTROL_FAILED",
   randomness_control |-> "RANDOMNESS_CONTROL_FAILED",
   lifecycle_control  |-> "LIFECYCLE_CONTROL_FAILED",
   observation        |-> "OBSERVATION_FAILED"]

CapabilityFailure ==
  {RequiredCheck[c] : c \in Transformable}
    \cup {"MESSAGE_SUPPRESSION_FAILED", "MESSAGE_INJECTION_RETENTION_FAILED"}

\* The capability checks a manifest may configure.
AllowedChecks ==
  {[capability |-> c, code |-> RequiredCheck[c]] : c \in Transformable}
    \cup { [capability |-> "message_capture", code |-> "MESSAGE_SUPPRESSION_FAILED"],
           [capability |-> "message_injection",
            code |-> "MESSAGE_INJECTION_RETENTION_FAILED"] }

FailureCode ==
  CapabilityFailure \cup
    {"BASELINE_FAILED", "BUILD_FAILED", "REGRESSION_FAILED", "SEMANTIC_AMBIGUITY"}

RouteFailure(code) ==
  IF code \in CapabilityFailure \cup {"BUILD_FAILED", "REGRESSION_FAILED"}
  THEN "AGENT2" ELSE "NEEDS_HUMAN"

-----------------------------------------------------------------------------
(* Verdicts of the deterministic verifier *)

MissingChecks_AnyCode(required, checks) ==
  {c \in required : ~ \E k \in checks : k.capability = c}

\* The implemented capabilities whose required check the manifest lacks.
MissingChecks(required, checks) ==
  {c \in required :
     ~ \E k \in checks : k.capability = c /\ k.code = RequiredCheck[c]}

\* The failures the verifier can meet first: the build, the original tests, a
\* missing check, or a check of an implemented capability.
VerifierFailures(required, checks) ==
  {[code |-> code, about |-> {}] : code \in {"BUILD_FAILED", "REGRESSION_FAILED"}}
  \cup IF MissingChecks(required, checks) # {}
       THEN {[code |-> "SEMANTIC_AMBIGUITY", about |-> {}]}
       ELSE {[code |-> k.code, about |-> {k.capability}] :
               k \in {check \in checks : check.capability \in required}}
=============================================================================
