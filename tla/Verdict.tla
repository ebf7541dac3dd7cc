------------------------------ MODULE Verdict -------------------------------
(***************************************************************************)
(* What the patch loop relies on when it calls the deterministic verifier: *)
(* one of the verdicts that Workflow's VerificationPasses and              *)
(* VerificationFails allow, decided once; or none, when the call raises.   *)
(***************************************************************************)
EXTENDS Capabilities

CONSTANT Checks     \* the manifest's capability checks

VARIABLES required, \* the implemented capabilities
          verdict   \* "none", "passed" or a failure code

Verdicts ==
  {f.code : f \in VerifierFailures(required, Checks)}
    \cup (IF MissingChecks(required, Checks) = {} THEN {"passed"} ELSE {})

Init == required \in SUBSET Transformable /\ verdict = "none"

Decide ==
  /\ verdict = "none"
  /\ verdict' \in Verdicts
  /\ UNCHANGED required

Spec == Init /\ [][Decide]_<< required, verdict >>
=============================================================================
