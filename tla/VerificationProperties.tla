----------------------- MODULE VerificationProperties -----------------------
(***************************************************************************)
(* What the deterministic verification promises: to the target's files, to *)
(* the hidden oracle and to the patch loop that acts on its report.        *)
(***************************************************************************)
EXTENDS Verification

\* Every variable has its type.
TypeOK ==
  /\ pc \in {"build", "tests", "place", "check", "clean", "done"}
  /\ required \subseteq Transformable
  /\ own \subseteq Destinations
  /\ disk \in [Destinations -> {"nothing", "candidate", "fixture", "stray", "other"}]
  /\ placed \in 0..Len(FixtureList)
  /\ ran \subseteq Selected
  /\ report \in {"none", "passed"} \cup FailureCode
  /\ raised \in {"none", "command", "copy", "cleanup"}

\* No hidden file outlives the verification, nor what the checks put in its place,
\* whichever command fails or raises and whichever copy is refused; only a removal that
\* breaks off leaves files, and a copy that breaks off what it wrote of one.
OracleLeavesWithVerifier ==
  pc = "done" =>
    \A d \in Destinations :
      /\ disk[d] \in {"fixture", "other"} => raised = "cleanup"
      /\ disk[d] = "stray" => raised \in {"copy", "cleanup"}

\* A file that the candidate has where a hidden one goes stays there to the end: no
\* copy replaces it, the cleanup after the copy that was refused for it leaves it, and
\* no check runs that could change it.
CandidateKept ==
  \A d \in own : disk[d] = "candidate"

\* The first capability check sees every one of the evaluator's files; the later ones
\* see those that the checks before left, but never a file that the candidate brought
\* along or a part of a copy.
ChecksSeeOracle ==
  pc = "check" =>
    /\ ran = {} => \A d \in Destinations : disk[d] = "fixture"
    /\ \A d \in Destinations : disk[d] \notin {"candidate", "stray"} /\ d \notin own

\* A pass means that every implemented capability had the check it requires
\* executed, and that nothing raised, not even while the oracle was removed.
VerdictIsEarned ==
  report = "passed" =>
    /\ raised = "none"
    /\ \A c \in required : \E i \in ran :
         CheckList[i] = [capability |-> c, code |-> RequiredCheck[c]]

\* The verifier implements what the patch loop relies on: it decides at most
\* once, and on a verdict that the manifest's checks allow.
Abstract ==
  INSTANCE Verdict WITH verdict <- IF pc = "done" THEN report ELSE "none"
VerdictRefined == Abstract!Spec
=============================================================================
