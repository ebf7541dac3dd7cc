--------------------------- MODULE WorkflowProofs ---------------------------
(***************************************************************************)
(* Proofs, for all limits, scopes, reports, changes, issues and checks, that the    *)
(* patch loop has the properties of WorkflowProperties.                    *)
(***************************************************************************)
EXTENDS WorkflowProperties, TLAPS

\* It only names what a call asks for.
USE DEF Asked

-----------------------------------------------------------------------------
(* Types *)

LEMMA RoundTypes ==
  ASSUME TypeOK
  PROVE  /\ ThisRound \in Round
         /\ ThisRound # NoRound
         /\ Round \subseteq Round0
         /\ NoRound \in Round0
         /\ NoInterface \in Interface
         /\ \A unit \in SUBSET CapabilityNames :
              << ThisRound, unit >> \in Call /\ << ThisRound, unit >> # NoCall
         /\ NoPrior \in [held : BOOLEAN, patch : SUBSET Edit, iface : Interface]
         /\ MergeInterface \in Interface
BY DEF TypeOK, ThisRound, Round, Round0, NoRound, NoInterface, Interface, Call, NoCall,
       NoPrior, MergeInterface

LEMMA CapabilityTypes ==
  /\ \A rep, s : Patchable(rep, s) \subseteq CapabilityNames
  /\ \A rep : Available(rep) \subseteq CapabilityNames
  /\ \A rep, s : Unresolved(rep, s) \subseteq CapabilityNames
  /\ \A rep, s : rep \in [CapabilityNames -> Status] =>
       ApplyRediscovered(rep, s) \in [CapabilityNames -> Status]
  /\ \A n \in SUBSET CapabilityNames, a \in SUBSET CapabilityNames :
       ReviewRevision(n, a) \subseteq CapabilityNames
BY DEF Patchable, Available, Unresolved, ApplyRediscovered, ReviewRevision, Status


\* How a round ends: by one more patch round or by the end of the run.
LEMMA EndTypes ==
  ASSUME TypeOK
  PROVE  /\ \A o \in Outcome : \A rep : Conclude(o, rep) =>
              /\ pc' = "done" /\ result' = o
              /\ unresolved' \in SUBSET CapabilityNames
              /\ analysisRound' = analysisRound /\ patchRound' = patchRound
         /\ \A rep : NextPatchRound(rep) =>
              /\ analysisRound' = analysisRound /\ patchRound' \in 1..Agent2Rounds
              /\ \/ pc' = "worktree" /\ unresolved' = unresolved /\ result' = result
                 \/ /\ pc' = "done" /\ result' = "FAILED"
                    /\ unresolved' \in SUBSET CapabilityNames
<1>1. ASSUME NEW o \in Outcome, NEW rep, Conclude(o, rep)
      PROVE  /\ pc' = "done" /\ result' = o
             /\ unresolved' \in SUBSET CapabilityNames
             /\ analysisRound' = analysisRound /\ patchRound' = patchRound
  BY <1>1, CapabilityTypes DEF Conclude, loopVars
<1>2. ASSUME NEW rep, NextPatchRound(rep)
      PROVE  /\ analysisRound' = analysisRound /\ patchRound' \in 1..Agent2Rounds
             /\ \/ pc' = "worktree" /\ unresolved' = unresolved /\ result' = result
                \/ /\ pc' = "done" /\ result' = "FAILED"
                   /\ unresolved' \in SUBSET CapabilityNames
  <2>1. "FAILED" \in Outcome
    BY DEF Outcome
  <2>2. CASE ~ LastPatchRound /\ patchRound' = patchRound + 1 /\ pc' = "worktree"
             /\ UNCHANGED << analysisRound, endVars >>
    BY <2>2, LimitsAssumption DEF TypeOK, LastPatchRound, endVars
  <2>3. CASE LastPatchRound /\ Conclude("FAILED", rep)
    BY <2>1, <2>3, <1>1 DEF TypeOK
  <2>. QED
    BY <1>2, <2>2, <2>3 DEF NextPatchRound
<1>. QED
  BY <1>1, <1>2

\* The types of the parts of the state are kept by every step: the rounds never
\* leave the limits of the profile, and the report keeps one status each.
THEOREM TypeCorrect == Spec => []TypeOK
<1>. USE DEF loopVars, roundVars, endVars
<1>1. Init => TypeOK
  BY LimitsAssumption
  DEF Init, TypeOK, Round, Round0, NoRound, NoInterface, Interface, NoPrior,
      NoFeedback, Failure, NoArtifacts, Overall, Outcome, Status, Edit
<1>2. TypeOK /\ [Next]_vars => TypeOK'
  <2> SUFFICES ASSUME TypeOK, [Next]_vars PROVE TypeOK'
    OBVIOUS
  <2>a. /\ NoArtifacts \in [patch : Round0, interface : Interface, review : Round0,
                            verdict : Overall \cup {"none"}, verification : Round0,
                            verified : BOOLEAN]
        /\ NoFeedback \in [failure : Failure, about : SUBSET CapabilityNames]
    BY RoundTypes DEF NoArtifacts, NoFeedback, Failure
  <2>1. CASE Baseline
    BY <2>1 DEF Baseline, TypeOK, Outcome
  <2>2. CASE FirstAnalysis
    BY <2>2, <2>a, RoundTypes, EndTypes, CapabilityTypes, ReportsAssumption
    DEF FirstAnalysis, TypeOK, Outcome
  <2>3. CASE ReanalysisFindsNothing
    BY <2>3, <2>a, RoundTypes, EndTypes, CapabilityTypes, ReportsAssumption
    DEF ReanalysisFindsNothing, Discard, TypeOK, Outcome
  <2>4. CASE ReanalysisDropsCandidate
    BY <2>4, <2>a, RoundTypes, CapabilityTypes, ReportsAssumption
    DEF ReanalysisDropsCandidate, Discard, TypeOK
  <2>5. CASE ReanalysisKeepsCandidate
    BY <2>5, <2>a, RoundTypes, CapabilityTypes, ReportsAssumption
    DEF ReanalysisKeepsCandidate, Feedback, Failure, TypeOK
  <2>6. CASE CreateWorktree
    BY <2>6, RoundTypes DEF CreateWorktree, TypeOK
  <2>7. CASE ReplayEmptyCandidate
    BY <2>7 DEF ReplayEmptyCandidate, TypeOK, Outcome
  <2>8. CASE TransformUnit
    <3>. DEFINE unit == NextUnit(todo)
                asked == Patchable(report, unit)
    <3>1. unit \subseteq CapabilityNames
      BY DEF NextUnit, TypeOK
    <3>2. revised' \in Interface
      BY <2>8, <3>1, RoundTypes DEF TransformUnit, Interface, TypeOK
    <3>3. PICK undone \in SUBSET worktree, kinds \in Changes, bad \in SUBSET asked :
            /\ worktree' = (worktree \ undone) \cup ({ThisRound} \X kinds)
            /\ invasive' = bad
            /\ todo' = IF bad = {} THEN todo \ unit ELSE {}
            /\ pc' = IF bad = {} /\ todo # unit THEN "transform" ELSE "inspect"
      BY <2>8 DEF TransformUnit
    <3>4. /\ worktree' \subseteq Edit /\ invasive' \subseteq CapabilityNames
          /\ todo' \subseteq CapabilityNames
      BY <3>3, RoundTypes, CapabilityTypes, ChangesAssumption DEF Edit, TypeOK
    <3>. QED
      BY <2>8, <3>2, <3>3, <3>4 DEF TransformUnit, TypeOK
  <2>9. CASE DiscardInvasive \/ DiscardModifiedTests \/ AdmitCandidate
    BY <2>9, RoundTypes, CapabilityTypes
    DEF DiscardInvasive, DiscardModifiedTests, AdmitCandidate, Discard, TypeOK
  <2>10. CASE RemoveFile \/ DescribeNothing
    BY <2>10, RoundTypes DEF RemoveFile, DescribeNothing, TypeOK
  <2>11. CASE WriteInterface \/ DescribeInterface
    BY <2>11, RoundTypes DEF WriteInterface, DescribeInterface, TypeOK
  <2>23. CASE PlanAfresh
    BY <2>23, <2>a, EndTypes, CapabilityTypes DEF PlanAfresh, Outcome, TypeOK
  <2>24. CASE RetryWithoutInvasive
    BY <2>24, EndTypes, CapabilityTypes
    DEF RetryWithoutInvasive, Feedback, Failure, Outcome, TypeOK
  <2>25. CASE RetryWithoutTests
    BY <2>25, EndTypes, CapabilityTypes
    DEF RetryWithoutTests, Feedback, Failure, Outcome, TypeOK
  <2>12. CASE FormatAndBuildPass
    BY <2>12 DEF FormatAndBuildPass, TypeOK
  <2>13. CASE FormatOrBuildFail
    BY <2>13, EndTypes
    DEF FormatOrBuildFail, KeepCandidate, Feedback, Failure, Outcome, TypeOK
  <2>14. CASE RecordCandidate
    BY <2>14, RoundTypes DEF RecordCandidate, TypeOK
  <2>15. CASE ReviseAgent1
    <3>1. reanalysisReview' \subseteq CapabilityNames
      BY <2>15, IssuesAssumption DEF ReviseAgent1
    <3>2. /\ artifacts' = [artifacts EXCEPT !.review = ThisRound, !.verdict = "REVISE_AGENT1"]
          /\ usage' = iface
          /\ prior' = [held |-> TRUE, patch |-> worktree, iface |-> iface]
          /\ pc = "review"
          /\ UNCHANGED << report, selected, feedback, roundVars, iface, live >>
      BY <2>15 DEF ReviseAgent1, RecordReview, KeepCandidate
    <3>3. /\ pc' \in {"analyze", "done"}
          /\ analysisRound' \in 1..Agent1Rounds
          /\ patchRound' \in 1..Agent2Rounds
          /\ unresolved' \in SUBSET CapabilityNames
          /\ result' \in Outcome \cup {"none"}
      BY <2>15, EndTypes, LimitsAssumption DEF ReviseAgent1, Outcome, TypeOK
    <3>. QED
      BY <3>1, <3>2, <3>3, RoundTypes DEF Overall, TypeOK
  <2>16. CASE ReviseAgent2
    <3>1. PICK named \in Issues :
            /\ selected' = ReviewRevision(named, Available(report))
            /\ feedback' = Feedback("REVIEW_REVISE_AGENT2", named)
      BY <2>16 DEF ReviseAgent2
    <3>2. /\ selected' \subseteq CapabilityNames
          /\ feedback' \in [failure : Failure, about : SUBSET CapabilityNames]
      BY <3>1, CapabilityTypes, IssuesAssumption DEF Feedback, Failure
    <3>3. /\ artifacts' = [artifacts EXCEPT !.review = ThisRound, !.verdict = "REVISE_AGENT2"]
          /\ usage' = iface
          /\ prior' = [held |-> TRUE, patch |-> worktree, iface |-> iface]
          /\ UNCHANGED << report, reanalysisReview, roundVars, iface, live >>
          /\ NextPatchRound(report)
      BY <2>16 DEF ReviseAgent2, RecordReview, KeepCandidate
    <3>. QED
      BY <3>2, <3>3, RoundTypes, EndTypes DEF Overall, Outcome, TypeOK
  <2>17. CASE ReviewNeedsHuman
    BY <2>17, RoundTypes, EndTypes
    DEF ReviewNeedsHuman, RecordReview, KeepPatch, Overall, Outcome, TypeOK
  <2>18. CASE ReviewPasses
    BY <2>18, RoundTypes, EndTypes
    DEF ReviewPasses, RecordReview, KeepPatch, Overall, Outcome, TypeOK
  <2>19. CASE VerificationPasses
    BY <2>19, RoundTypes, EndTypes
    DEF VerificationPasses, RecordVerification, Outcome, TypeOK
  <2>20. CASE VerificationFails
    <3>1. PICK f \in Failures :
            \/ /\ RouteFailure(f.code) = "AGENT2"
               /\ prior' = [prior EXCEPT !.iface = iface]
               /\ feedback' = Feedback("DETERMINISTIC_VERIFICATION_FAILED", f.about)
               /\ NextPatchRound(report)
            \/ /\ RouteFailure(f.code) # "AGENT2"
               /\ Conclude("PARTIAL", report)
               /\ UNCHANGED << prior, feedback >>
      BY <2>20 DEF VerificationFails
    <3>2. f.about \subseteq CapabilityNames
      BY ChecksAssumption DEF Failures, VerifierFailures, CapabilityNames
    <3>3. /\ artifacts' = [artifacts EXCEPT !.verification = ThisRound, !.verified = FALSE]
          /\ UNCHANGED << report, selected, reanalysisReview, roundVars, iface,
                          usage, live >>
      BY <2>20 DEF VerificationFails, RecordVerification
    <3>4. /\ pc' \in {"worktree", "done"}
          /\ analysisRound' \in 1..Agent1Rounds
          /\ patchRound' \in 1..Agent2Rounds
          /\ unresolved' \in SUBSET CapabilityNames
          /\ result' \in Outcome \cup {"none"}
      BY <3>1, EndTypes DEF Outcome, TypeOK
    <3>5. /\ feedback' \in [failure : Failure, about : SUBSET CapabilityNames]
          /\ prior' \in [held : BOOLEAN, patch : SUBSET Edit, iface : Interface]
      BY <3>1, <3>2 DEF Feedback, Failure, TypeOK
    <3>. QED
      BY <3>3, <3>4, <3>5, RoundTypes DEF TypeOK
  <2>21. CASE Abort
    BY <2>21 DEF Abort, Outcome, TypeOK
  <2>22. CASE UNCHANGED vars
    BY <2>22 DEF vars, TypeOK
  <2>. QED
    BY <2>1, <2>2, <2>3, <2>4, <2>5, <2>6, <2>7, <2>8, <2>9, <2>10, <2>11,
       <2>12, <2>13, <2>14, <2>15, <2>16, <2>17, <2>18, <2>19, <2>20, <2>21,
       <2>22, <2>23, <2>24, <2>25 DEF Next, Step
<1>. QED
  BY <1>1, <1>2, PTL DEF Spec

-----------------------------------------------------------------------------
(* USAGE.md and the interface report on disk *)

Built == {"build", "record", "review", "verify"}

\* Before Agent 2 is first called there is nothing to remember.
BeginsEmpty ==
  /\ pc = "baseline" => analysisRound = 1
  /\ pc \in {"baseline", "analyze"} /\ analysisRound = 1 =>
       /\ prior = NoPrior
       /\ artifacts = NoArtifacts
       /\ usage = NoInterface
       /\ feedback = NoFeedback
       /\ live = {}

\* What is in force where the two are written: the kept report until Agent 2's is
\* written, that one afterwards, and nothing after a discard.
Written ==
  /\ pc \in {"worktree", "transform", "inspect"} =>
       usage = prior.iface /\ artifacts.interface = prior.iface
  /\ pc = "describe" => usage = prior.iface /\ artifacts.interface = iface
  /\ pc \in {"classify"} \cup Built => usage = iface /\ artifacts.interface = iface
  /\ pc = "analyze" /\ analysisRound > 1 =>
       usage = iface /\ artifacts.interface = iface /\ prior.iface = iface
  /\ pc \in Discarding =>
       usage = iface /\ artifacts.interface \in {iface, NoInterface} /\ prior = NoPrior
  /\ pc \in {"withdrawn", "discarded"} =>
       usage = NoInterface /\ artifacts = NoArtifacts /\ prior = NoPrior

UsageInv == BeginsEmpty /\ Written /\ UsageMatchesInterface

LEMMA UsageInvariant == Spec => []UsageInv
<1>. USE DEF loopVars, roundVars, endVars, Built
<1>1. Init => UsageInv
  BY DEF Init, UsageInv, BeginsEmpty, Written, UsageMatchesInterface, NoArtifacts, Discarding
<1>2. UsageInv /\ TypeOK /\ [Next]_vars => UsageInv'
  <2> SUFFICES ASSUME UsageInv, TypeOK, [Next]_vars PROVE UsageInv'
    OBVIOUS
  <2>. USE DEF UsageInv, BeginsEmpty, Written, UsageMatchesInterface, Discarding
  <2>a. NoArtifacts.interface = NoInterface /\ NoPrior.iface = NoInterface
    BY DEF NoArtifacts, NoPrior
  <2>b. \A rep : NextPatchRound(rep) => pc' \in {"worktree", "done"}
    BY DEF NextPatchRound, Conclude
  <2>c. \A o, rep : Conclude(o, rep) => pc' = "done"
    BY DEF Conclude
  <2>1. CASE Baseline
    BY <2>1, <2>a DEF Baseline
  <2>2. CASE FirstAnalysis
    BY <2>2, <2>a, <2>c DEF FirstAnalysis
  <2>3. CASE ReanalysisFindsNothing
    BY <2>3, <2>c DEF ReanalysisFindsNothing, Discard
  <2>4. CASE ReanalysisDropsCandidate
    BY <2>4 DEF ReanalysisDropsCandidate, Discard
  <2>5. CASE ReanalysisKeepsCandidate
    BY <2>5 DEF ReanalysisKeepsCandidate
  <2>6. CASE RemoveFile
    <3>1. /\ pc \in Discarding /\ UNCHANGED << pc, loopVars, iface, prior, usage, result >>
          /\ \/ artifacts' = [artifacts EXCEPT !.patch = NoRound]
             \/ artifacts' = [artifacts EXCEPT !.interface = NoInterface]
             \/ artifacts' = [artifacts EXCEPT !.review = NoRound, !.verdict = "none"]
             \/ artifacts' = [artifacts EXCEPT !.verification = NoRound, !.verified = FALSE]
      BY <2>6 DEF RemoveFile
    <3>2. artifacts'.interface \in {artifacts.interface, NoInterface}
      BY <3>1 DEF TypeOK
    <3>. QED
      BY <3>1, <3>2
  <2>7. CASE DescribeNothing
    BY <2>7, <2>a DEF DescribeNothing
  <2>8. CASE PlanAfresh \/ RetryWithoutInvasive \/ RetryWithoutTests
    BY <2>8, <2>a, <2>b, <2>c DEF PlanAfresh, RetryWithoutInvasive, RetryWithoutTests
  <2>9. CASE CreateWorktree \/ ReplayEmptyCandidate \/ TransformUnit
    BY <2>9 DEF CreateWorktree, ReplayEmptyCandidate, TransformUnit
  <2>10. CASE WriteInterface
    <3>1. /\ pc = "inspect" /\ pc' = "describe" /\ iface' = MergeInterface
          /\ artifacts' = [artifacts EXCEPT !.interface = MergeInterface]
          /\ UNCHANGED << prior, usage >>
      BY <2>10 DEF WriteInterface
    <3>2. artifacts'.interface = iface'
      BY <3>1 DEF TypeOK
    <3>. QED
      BY <3>1, <3>2
  <2>11. CASE DescribeInterface
    BY <2>11 DEF DescribeInterface
  <2>12. CASE DiscardInvasive \/ DiscardModifiedTests \/ AdmitCandidate
    BY <2>12 DEF DiscardInvasive, DiscardModifiedTests, AdmitCandidate, Discard
  <2>13. CASE FormatAndBuildPass
    BY <2>13 DEF FormatAndBuildPass
  <2>14. CASE FormatOrBuildFail
    BY <2>14, <2>b DEF FormatOrBuildFail, KeepCandidate
  <2>15. CASE RecordCandidate
    BY <2>15 DEF RecordCandidate, TypeOK
  <2>16. CASE ReviseAgent1
    <3>1. /\ pc' \in {"analyze", "done"}
          /\ pc' = "analyze" => analysisRound' > 1
      BY <2>16, <2>c, LimitsAssumption DEF ReviseAgent1, TypeOK
    <3>2. /\ artifacts' = [artifacts EXCEPT !.review = ThisRound, !.verdict = "REVISE_AGENT1"]
          /\ usage' = iface /\ iface' = iface
          /\ prior' = [held |-> TRUE, patch |-> worktree, iface |-> iface]
          /\ pc = "review"
      BY <2>16 DEF ReviseAgent1, RecordReview, KeepCandidate
    <3>3. artifacts'.interface = artifacts.interface
      BY <3>2 DEF TypeOK
    <3>. QED
      BY <3>1, <3>2, <3>3
  <2>17. CASE ReviseAgent2
    BY <2>17, <2>b DEF ReviseAgent2, RecordReview, KeepCandidate, TypeOK
  <2>18. CASE ReviewNeedsHuman
    BY <2>18, <2>c DEF ReviewNeedsHuman, RecordReview, KeepPatch, TypeOK
  <2>19. CASE ReviewPasses
    BY <2>19, <2>c DEF ReviewPasses, RecordReview, KeepPatch, TypeOK
  <2>20. CASE VerificationPasses
    BY <2>20, <2>c DEF VerificationPasses, RecordVerification, TypeOK
  <2>21. CASE VerificationFails
    <3>1. /\ pc' \in {"worktree", "done"} /\ pc = "verify"
          /\ artifacts' = [artifacts EXCEPT !.verification = ThisRound, !.verified = FALSE]
          /\ UNCHANGED << iface, usage >>
          /\ pc' = "worktree" => prior' = [prior EXCEPT !.iface = iface]
      BY <2>21, <2>b, <2>c DEF VerificationFails, RecordVerification
    <3>2. /\ artifacts'.interface = artifacts.interface
          /\ pc' = "worktree" => prior'.iface = iface
      BY <3>1 DEF TypeOK
    <3>. QED
      BY <3>1, <3>2
  <2>22. CASE Abort
    BY <2>22, <2>a DEF Abort
  <2>23. CASE UNCHANGED vars
    BY <2>23 DEF vars
  <2>. QED
    BY <2>1, <2>2, <2>3, <2>4, <2>5, <2>6, <2>7, <2>8, <2>9, <2>10, <2>11,
       <2>12, <2>13, <2>14, <2>15, <2>16, <2>17, <2>18, <2>19, <2>20, <2>21,
       <2>22, <2>23 DEF Next, Step
<1>. QED
  BY <1>1, <1>2, TypeCorrect, PTL DEF Spec

\* USAGE.md describes the interface report on disk, but for the moment between two
\* writes, and a run cut short there leaves the older one.  It is not inductive alone:
\* a reanalysis writes it from the kept report, a round from the one in memory.
THEOREM UsageCorrect == Spec => []UsageMatchesInterface
<1>1. UsageInv => UsageMatchesInterface
  BY DEF UsageInv
<1>. QED
  BY <1>1, UsageInvariant, PTL

-----------------------------------------------------------------------------
(* Tests of the target *)

\* No candidate that is recorded, reviewed or verified changes a test that exists at
\* HEAD, whatever Agent 2 edits: one that is recognised is not even kept, and one whose
\* name Git quotes does not get through gofmt.
THEOREM TestsCorrect == Spec => []ExistingTestsUntouched
<1>. USE DEF loopVars, roundVars, endVars, ExistingTestsUntouched, Discarding
<1>1. Init => ExistingTestsUntouched
  BY DEF Init, NoPrior
<1>2. ExistingTestsUntouched /\ TypeOK /\ [Next]_vars => ExistingTestsUntouched'
  <2> SUFFICES ASSUME ExistingTestsUntouched, TypeOK, [Next]_vars
               PROVE  ExistingTestsUntouched'
    OBVIOUS
  <2>a. NoPrior.patch = {}
    BY DEF NoPrior
  <2>b. \A rep : NextPatchRound(rep) => pc' \in {"worktree", "done"}
    BY DEF NextPatchRound, Conclude
  <2>c. \A o, rep : Conclude(o, rep) => pc' = "done"
    BY DEF Conclude
  \* A recorded candidate was built, and one that is built is admitted.
  <2>d. \A e \in worktree : e[2] = "source" => e[2] # "existing_test"
    OBVIOUS
  <2>1. CASE Baseline \/ FirstAnalysis \/ ReanalysisKeepsCandidate
    BY <2>1, <2>c DEF Baseline, FirstAnalysis, ReanalysisKeepsCandidate
  <2>2. CASE ReanalysisFindsNothing \/ ReanalysisDropsCandidate
    BY <2>2, <2>a, <2>c DEF ReanalysisFindsNothing, ReanalysisDropsCandidate, Discard
  <2>3. CASE RemoveFile \/ DescribeNothing
    BY <2>3 DEF RemoveFile, DescribeNothing
  <2>4. CASE PlanAfresh \/ RetryWithoutInvasive \/ RetryWithoutTests
    BY <2>4, <2>b, <2>c DEF PlanAfresh, RetryWithoutInvasive, RetryWithoutTests
  <2>5. CASE CreateWorktree \/ ReplayEmptyCandidate \/ TransformUnit
    BY <2>5 DEF CreateWorktree, ReplayEmptyCandidate, TransformUnit
  <2>6. CASE WriteInterface \/ DescribeInterface
    BY <2>6 DEF WriteInterface, DescribeInterface
  <2>7. CASE DiscardInvasive \/ DiscardModifiedTests
    BY <2>7, <2>a DEF DiscardInvasive, DiscardModifiedTests, Discard
  <2>8. CASE AdmitCandidate
    BY <2>8 DEF AdmitCandidate, TouchesExistingTests
  <2>9. CASE FormatAndBuildPass
    <3>1. \A e \in worktree : e[2] = "source"
      BY <2>9 DEF FormatAndBuildPass, Edit, EditKind, TypeOK
    <3>. QED
      BY <2>9, <3>1 DEF FormatAndBuildPass
  <2>10. CASE RecordCandidate
    BY <2>10 DEF RecordCandidate
  <2>11. CASE FormatOrBuildFail
    BY <2>11, <2>b DEF FormatOrBuildFail, KeepCandidate
  <2>12. CASE ReviseAgent1 \/ ReviseAgent2
    BY <2>12, <2>b, <2>c, <2>d DEF ReviseAgent1, ReviseAgent2, RecordReview, KeepCandidate
  <2>13. CASE ReviewNeedsHuman \/ ReviewPasses
    BY <2>13, <2>c, <2>d DEF ReviewNeedsHuman, ReviewPasses, RecordReview, KeepPatch, TypeOK
  <2>14. CASE VerificationPasses
    BY <2>14, <2>c DEF VerificationPasses, RecordVerification
  <2>15. CASE VerificationFails
    BY <2>15, <2>b, <2>c DEF VerificationFails, RecordVerification, TypeOK
  <2>16. CASE Abort \/ UNCHANGED vars
    BY <2>16 DEF Abort, vars
  <2>. QED
    BY <2>1, <2>2, <2>3, <2>4, <2>5, <2>6, <2>7, <2>8, <2>9, <2>10, <2>11,
       <2>12, <2>13, <2>14, <2>15, <2>16 DEF Next, Step
<1>. QED
  BY <1>1, <1>2, TypeCorrect, PTL DEF Spec

-----------------------------------------------------------------------------
(* What Agent 2 is asked for *)

\* A unit is part of what remains.
LEMMA NextUnitIsRemaining == \A remaining : NextUnit(remaining) \subseteq remaining
BY DEF NextUnit

\* A review narrows a revision to a non-empty part of what is available, and
\* never to one of the two message capabilities when both are.
LEMMA RevisionIsJoint ==
  ASSUME NEW named, NEW available, available # {}
  PROVE  LET revision == ReviewRevision(named, available)
         IN /\ revision # {}
            /\ revision \subseteq available
            /\ revision \cap MessageControl # {} =>
                 available \cap MessageControl \subseteq revision
<1>. DEFINE implicated == named \cap available
<1>1. CASE implicated = {}
  BY <1>1 DEF ReviewRevision
<1>2. CASE implicated # {} /\ implicated \cap MessageControl # {}
  BY <1>2 DEF ReviewRevision
<1>3. CASE implicated # {} /\ implicated \cap MessageControl = {}
  BY <1>3 DEF ReviewRevision
<1>. QED
  BY <1>1, <1>2, <1>3

\* Available capabilities have an interface entry unless external input is
\* called PATCHABLE, which no report does.
LEMMA AvailableAreDescribable ==
  ASSUME NEW rep, rep["external_input"] # "PATCHABLE"
  PROVE  Available(rep) \subseteq Transformable
BY DEF Available, Patchable, CapabilityNames

Joint(i) ==
  MessageControl \subseteq Described(i) => i["message_capture"] = i["message_injection"]

NeverExternal == report["external_input"] # "PATCHABLE"

\* What Agent 2 is asked for, in every round.
AskedWithin ==
  /\ pc \in InRound =>
       /\ selected # {} /\ selected \subseteq Available(report)
       /\ Described(prior.iface) \subseteq Available(report)
       /\ selected \cap MessageControl # {} =>
            Available(report) \cap MessageControl \subseteq selected
  /\ pc \in {"discard", "discarded"} /\ invasive = {} => Available(report) # {}

\* How far the calls of a round are: what was reported on is all that is not left to
\* do, and neither message capability is reported on while the other is left.
Called ==
  /\ pc = "transform" =>
       /\ invasive = {}
       /\ selected = todo \cup Described(revised)
       /\ todo \cap MessageControl # {} => Described(revised) \cap MessageControl = {}
  /\ pc \in {"inspect", "describe", "classify"} =>
       /\ Described(revised) # {}
       /\ invasive = {} => Described(revised) = selected
  /\ pc \in {"transform", "inspect", "describe", "classify"} =>
       /\ Described(revised) \subseteq selected
       /\ Joint(revised)
       /\ Described(revised) \cap MessageControl # {} =>
            selected \cap MessageControl \subseteq Described(revised)

\* What the interface report of a round says.
Reported ==
  pc \in {"describe", "classify"} \cup Built =>
    /\ Described(iface) # {}
    /\ Described(iface) \subseteq Available(report)
    /\ Joint(iface)

AskedInv ==
  /\ NeverExternal
  /\ AskedWithin
  /\ Called
  /\ Reported
  /\ Joint(prior.iface)
  /\ Joint(artifacts.interface)

LEMMA JointNone == Described(NoInterface) = {} /\ Joint(NoInterface)
BY DEF Joint, Described, NoInterface, MessageControl

\* A call reports on all of its unit.  Message capture and injection are one unit, or
\* one of them was never left to do.
LEMMA CallIsJoint ==
  ASSUME TypeOK, AskedInv, pc = "transform", TransformUnit
  PROVE  Called'
<1>. DEFINE unit == NextUnit(todo)
            asked == Patchable(report, unit)
<1>1. PICK bad \in SUBSET asked :
        /\ asked # {}
        /\ revised' = [c \in Transformable |-> IF c \in asked THEN << ThisRound, unit >>
                                                              ELSE revised[c]]
        /\ invasive' = bad
        /\ todo' = IF bad = {} THEN todo \ unit ELSE {}
        /\ pc' = IF bad = {} /\ todo # unit THEN "transform" ELSE "inspect"
        /\ UNCHANGED << report, selected >>
  BY DEF TransformUnit, roundVars
<1>2. /\ selected = todo \cup Described(revised) /\ selected \subseteq Available(report)
      /\ todo \cap MessageControl # {} => Described(revised) \cap MessageControl = {}
      /\ Joint(revised)
      /\ Described(revised) \cap MessageControl # {} =>
           selected \cap MessageControl \subseteq Described(revised)
  BY DEF AskedInv, AskedWithin, Called, InRound
<1>3. unit \subseteq todo
  BY NextUnitIsRemaining
<1>4. Available(report) \subseteq Transformable /\ Available(report) \subseteq CapabilityNames
  BY AvailableAreDescribable, CapabilityTypes DEF AskedInv, NeverExternal
<1>5. asked = unit
  BY <1>2, <1>3 DEF Available, Patchable
<1>6. << ThisRound, unit >> # NoCall
  BY <1>2, <1>3, <1>4, RoundTypes
<1>7. Described(revised') = Described(revised) \cup unit
  BY <1>1, <1>2, <1>3, <1>4, <1>5, <1>6 DEF Described
<1>8. \/ MessageControl \subseteq unit
      \/ unit \cap MessageControl = {}
      \/ ~ (MessageControl \subseteq todo) /\ \E c \in todo : unit = {c}
  <2>1. CASE MessageControl \subseteq todo
    BY <2>1 DEF NextUnit
  <2>2. CASE ~ (MessageControl \subseteq todo)
    <3>1. unit = {TransformPriority[i] : i \in
                   {k \in 1..6 : /\ TransformPriority[k] \in todo
                                 /\ \A j \in 1..(k-1) : TransformPriority[j] \notin todo}}
      BY <2>2 DEF NextUnit
    <3>2. \A c, d \in unit : c = d
      <4> SUFFICES ASSUME NEW i \in 1..6, NEW k \in 1..6,
                          TransformPriority[i] \in todo, TransformPriority[k] \in todo,
                          \A j \in 1..(i-1) : TransformPriority[j] \notin todo,
                          \A j \in 1..(k-1) : TransformPriority[j] \notin todo
                   PROVE  i = k
        BY <3>1
      <4>. QED
        OBVIOUS
    <3>3. unit # {}
      BY <1>1, <1>5
    <3>. QED
      BY <2>2, <3>2, <3>3, <1>3
  <2>. QED
    BY <2>1, <2>2
<1>9. /\ Joint(revised')
      /\ Described(revised') \cap MessageControl # {} =>
           selected \cap MessageControl \subseteq Described(revised')
      /\ (todo \ unit) \cap MessageControl # {} =>
           Described(revised') \cap MessageControl = {}
  <2>a. "message_capture" # "message_injection"
    OBVIOUS
  <2>1. CASE MessageControl \subseteq unit
    <3>1. Joint(revised')
      BY <2>1, <1>1, <1>3, <1>2, <1>4, <1>5 DEF Joint, MessageControl
    <3>. QED
      BY <2>1, <3>1, <1>7
  <2>2. CASE unit \cap MessageControl = {}
    <3>1. Joint(revised')
      BY <2>2, <1>1, <1>2, <1>5, <1>7 DEF Joint, MessageControl, Described, Transformable
    <3>. QED
      BY <2>2, <3>1, <1>2, <1>7
  <2>3. CASE unit \cap MessageControl # {} /\ ~ (MessageControl \subseteq unit)
    <3>1. PICK c \in todo : unit = {c} /\ c \in MessageControl
      BY <2>3, <1>8
    <3>2. ~ (MessageControl \subseteq todo) /\ Described(revised) \cap MessageControl = {}
      BY <2>3, <1>8, <1>2, <3>1
    <3>3. Described(revised') \cap MessageControl = {c}
      BY <3>1, <3>2, <1>7
    <3>4. todo \cap MessageControl = {c} /\ selected \cap MessageControl = {c}
      BY <3>1, <3>2, <1>2, <2>a DEF MessageControl
    <3>5. ~ (MessageControl \subseteq Described(revised'))
      BY <3>3, <2>a DEF MessageControl
    <3>. QED
      BY <3>1, <3>3, <3>4, <3>5 DEF Joint
  <2>. QED
    BY <2>1, <2>2, <2>3
<1>10. /\ Described(revised') # {}
       /\ Described(revised') \subseteq selected
       /\ selected = (todo \ unit) \cup Described(revised')
  BY <1>1, <1>2, <1>3, <1>5, <1>7
<1>11. Described(revised') = Described(revised)'
  BY DEF Described
<1>12. Joint(revised)' = Joint(revised')
  BY DEF Joint, Described
<1>. QED
  BY <1>1, <1>3, <1>9, <1>10, <1>11, <1>12 DEF Called

\* A merge keeps message capture and injection together because a round that
\* reports on one of them reports on the other, unless the other is not available.
LEMMA MergeIsJoint ==
  ASSUME TypeOK, AskedInv, pc = "inspect"
  PROVE  /\ Described(MergeInterface) = Described(revised) \cup Described(prior.iface)
         /\ Described(MergeInterface) # {}
         /\ Described(MergeInterface) \subseteq Available(report)
         /\ Joint(MergeInterface)
<1>1. /\ Described(revised) # {} /\ Described(revised) \subseteq selected
      /\ Joint(revised) /\ Joint(prior.iface)
      /\ Described(prior.iface) \subseteq Available(report)
      /\ Described(revised) \cap MessageControl # {} =>
           selected \cap MessageControl \subseteq Described(revised)
      /\ selected \cap MessageControl # {} =>
           Available(report) \cap MessageControl \subseteq selected
      /\ selected \subseteq Available(report)
  BY DEF AskedInv, AskedWithin, Called, InRound
<1>2. Described(MergeInterface) = Described(revised) \cup Described(prior.iface)
  BY DEF Described, MergeInterface
<1>3. Joint(MergeInterface)
  <2> SUFFICES ASSUME MessageControl \subseteq Described(MergeInterface)
               PROVE  MergeInterface["message_capture"] = MergeInterface["message_injection"]
    BY DEF Joint
  <2>1. "message_capture" \in Transformable /\ "message_injection" \in Transformable
    BY DEF Described, MessageControl
  <2>2. CASE Described(revised) \cap MessageControl = {}
    BY <2>1, <2>2, <1>1, <1>2 DEF Joint, MergeInterface, MessageControl
  <2>3. CASE Described(revised) \cap MessageControl # {}
    <3>1. MessageControl \subseteq Available(report)
      BY <1>1, <1>2
    <3>2. selected \cap MessageControl # {}
      BY <2>3, <1>1
    <3>3. MessageControl \subseteq Described(revised)
      BY <2>3, <3>1, <3>2, <1>1
    <3>. QED
      BY <2>1, <3>3, <1>1 DEF Joint, MergeInterface, MessageControl
  <2>. QED
    BY <2>2, <2>3
<1>. QED
  BY <1>1, <1>2, <1>3

LEMMA AskedInvariant == Spec => []AskedInv
<1>. USE DEF loopVars, roundVars, endVars
<1>1. Init => AskedInv
  BY JointNone
  DEF Init, AskedInv, NeverExternal, AskedWithin, InRound, Called, Reported, Built, NoPrior,
      NoArtifacts, CapabilityNames
<1>2. AskedInv /\ TypeOK /\ UsageInv /\ [Next]_vars => AskedInv'
  <2> SUFFICES ASSUME AskedInv, TypeOK, UsageInv, [Next]_vars PROVE AskedInv'
    OBVIOUS
  <2>. USE DEF AskedInv, NeverExternal, AskedWithin, InRound, Called, Reported, Built, Discarding
  <2>a. /\ NoPrior.iface = NoInterface
        /\ NoArtifacts.interface = NoInterface
    BY DEF NoPrior, NoArtifacts
  <2>b. \A rep : NextPatchRound(rep) => pc' \in {"worktree", "done"}
    BY DEF NextPatchRound, Conclude
  <2>c. \A o, rep : Conclude(o, rep) => pc' = "done"
    BY DEF Conclude
  <2>d. \A rep \in Reports : rep["external_input"] # "PATCHABLE"
    BY ReportsAssumption DEF ValidReport
  <2>1. CASE Baseline
    BY <2>1 DEF Baseline
  <2>2. CASE FirstAnalysis
    BY <2>2, <2>a, <2>c, <2>d, JointNone DEF FirstAnalysis, UsageInv, BeginsEmpty
  <2>3. CASE ReanalysisFindsNothing
    BY <2>3, <2>a, <2>c, <2>d, JointNone DEF ReanalysisFindsNothing, Discard
  <2>4. CASE ReanalysisDropsCandidate
    BY <2>4, <2>a, <2>d, JointNone DEF ReanalysisDropsCandidate, Discard
  <2>5. CASE ReanalysisKeepsCandidate
    BY <2>5, <2>d, RevisionIsJoint DEF ReanalysisKeepsCandidate, Compatible
  <2>6. CASE RemoveFile
    <3>1. /\ pc \in Discarding /\ UNCHANGED << pc, report, prior, invasive >>
          /\ \/ artifacts' = [artifacts EXCEPT !.patch = NoRound]
             \/ artifacts' = [artifacts EXCEPT !.interface = NoInterface]
             \/ artifacts' = [artifacts EXCEPT !.review = NoRound, !.verdict = "none"]
             \/ artifacts' = [artifacts EXCEPT !.verification = NoRound, !.verified = FALSE]
      BY <2>6 DEF RemoveFile
    <3>2. artifacts'.interface \in {artifacts.interface, NoInterface}
      BY <3>1 DEF TypeOK
    <3>. QED
      BY <3>1, <3>2, JointNone
  <2>7. CASE DescribeNothing
    BY <2>7 DEF DescribeNothing
  <2>8. CASE PlanAfresh \/ RetryWithoutInvasive
    BY <2>8, <2>a, <2>b, <2>c, JointNone
    DEF PlanAfresh, RetryWithoutInvasive, UsageInv, Written
  <2>9. CASE RetryWithoutTests
    BY <2>9, <2>a, <2>b, JointNone DEF RetryWithoutTests, UsageInv, Written
  <2>10. CASE CreateWorktree
    <3>1. Described(revised)' = {} /\ Joint(revised)'
      BY <2>10, JointNone DEF CreateWorktree, Described, Joint
    <3>. QED
      BY <2>10, <3>1 DEF CreateWorktree
  <2>11. CASE ReplayEmptyCandidate
    BY <2>11 DEF ReplayEmptyCandidate
  <2>12. CASE TransformUnit
    <3>1. /\ pc = "transform" /\ pc' \in {"transform", "inspect"}
          /\ UNCHANGED << report, selected, iface, prior, artifacts >>
      BY <2>12 DEF TransformUnit
    <3>2. Called'
      BY <2>12, <3>1, CallIsJoint
    <3>. QED
      BY <3>1, <3>2
  <2>13. CASE WriteInterface
    <3>1. /\ pc = "inspect" /\ pc' = "describe" /\ iface' = MergeInterface
          /\ artifacts' = [artifacts EXCEPT !.interface = MergeInterface]
          /\ UNCHANGED << report, selected, roundVars, prior >>
      BY <2>13 DEF WriteInterface
    <3>2. artifacts'.interface = MergeInterface
      BY <3>1 DEF TypeOK
    <3>3. /\ Described(MergeInterface) # {}
          /\ Described(MergeInterface) \subseteq Available(report)
          /\ Joint(MergeInterface)
      BY <3>1, MergeIsJoint
    <3>. QED
      BY <3>1, <3>2, <3>3
  <2>14. CASE DescribeInterface
    BY <2>14 DEF DescribeInterface
  <2>15. CASE DiscardInvasive
    <3>1. /\ prior' = NoPrior /\ pc' = "discard"
          /\ report' = ApplyRediscovered(report, invasive)
          /\ invasive # {} /\ UNCHANGED << invasive, artifacts >>
      BY <2>15 DEF DiscardInvasive, Discard
    <3>2. report'["external_input"] # "PATCHABLE"
      BY <3>1 DEF ApplyRediscovered, CapabilityNames
    <3>. QED
      BY <3>1, <3>2, <2>a, JointNone
  <2>16. CASE DiscardModifiedTests
    BY <2>16, <2>a, JointNone DEF DiscardModifiedTests, Discard
  <2>17. CASE AdmitCandidate
    BY <2>17 DEF AdmitCandidate
  <2>18. CASE FormatAndBuildPass
    BY <2>18 DEF FormatAndBuildPass
  <2>19. CASE FormatOrBuildFail
    BY <2>19, <2>b DEF FormatOrBuildFail, KeepCandidate
  <2>20. CASE RecordCandidate
    BY <2>20 DEF RecordCandidate, TypeOK
  <2>21. CASE ReviseAgent1
    <3>1. /\ pc' \in {"analyze", "done"} /\ pc = "review"
          /\ artifacts' = [artifacts EXCEPT !.review = ThisRound, !.verdict = "REVISE_AGENT1"]
          /\ prior' = [held |-> TRUE, patch |-> worktree, iface |-> iface]
          /\ UNCHANGED report
      BY <2>21, <2>c DEF ReviseAgent1, RecordReview, KeepCandidate
    <3>2. artifacts'.interface = artifacts.interface
      BY <3>1 DEF TypeOK
    <3>. QED
      BY <3>1, <3>2
  <2>22. CASE ReviseAgent2
    <3>1. /\ pc' \in {"worktree", "done"} /\ pc = "review"
          /\ artifacts' = [artifacts EXCEPT !.review = ThisRound, !.verdict = "REVISE_AGENT2"]
          /\ prior' = [held |-> TRUE, patch |-> worktree, iface |-> iface]
          /\ UNCHANGED report
      BY <2>22, <2>b DEF ReviseAgent2, RecordReview, KeepCandidate
    <3>2. artifacts'.interface = artifacts.interface
      BY <3>1 DEF TypeOK
    <3>3. PICK named : selected' = ReviewRevision(named, Available(report))
      BY <2>22 DEF ReviseAgent2
    <3>4. Available(report) # {}
      BY <3>1
    <3>5. /\ selected' # {} /\ selected' \subseteq Available(report)
          /\ selected' \cap MessageControl # {} =>
               Available(report) \cap MessageControl \subseteq selected'
      BY <3>3, <3>4, RevisionIsJoint
    <3>. QED
      BY <3>1, <3>2, <3>5
  <2>23. CASE ReviewNeedsHuman
    BY <2>23, <2>c DEF ReviewNeedsHuman, RecordReview, KeepPatch, TypeOK
  <2>24. CASE ReviewPasses
    BY <2>24, <2>c DEF ReviewPasses, RecordReview, KeepPatch, TypeOK
  <2>25. CASE VerificationPasses
    BY <2>25, <2>c DEF VerificationPasses, RecordVerification, TypeOK
  <2>26. CASE VerificationFails
    <3>1. /\ pc' \in {"worktree", "done"} /\ pc = "verify"
          /\ artifacts' = [artifacts EXCEPT !.verification = ThisRound, !.verified = FALSE]
          /\ prior' = prior \/ prior' = [prior EXCEPT !.iface = iface]
          /\ UNCHANGED << report, selected, iface >>
      BY <2>26, <2>b, <2>c DEF VerificationFails, RecordVerification
    <3>2. artifacts'.interface = artifacts.interface /\ prior'.iface \in {prior.iface, iface}
      BY <3>1 DEF TypeOK
    <3>. QED
      BY <3>1, <3>2
  <2>27. CASE Abort \/ UNCHANGED vars
    BY <2>27 DEF Abort, vars
  <2>. QED
    BY <2>1, <2>2, <2>3, <2>4, <2>5, <2>6, <2>7, <2>8, <2>9, <2>10, <2>11,
       <2>12, <2>13, <2>14, <2>15, <2>16, <2>17, <2>18, <2>19, <2>20, <2>21,
       <2>22, <2>23, <2>24, <2>25, <2>26, <2>27 DEF Next, Step
<1>. QED
  BY <1>1, <1>2, TypeCorrect, UsageInvariant, PTL DEF Spec

\* Agent 2 is only asked for capabilities that are PATCHABLE in the report in
\* force and inside the scope, and a kept candidate holds no other.
THEOREM ReportCorrect == Spec => []CandidateWithinReport
<1>1. AskedInv => CandidateWithinReport
  BY DEF AskedInv, AskedWithin, CandidateWithinReport
<1>. QED
  BY <1>1, AskedInvariant, PTL

-----------------------------------------------------------------------------
(* What a PASS means *)

\* What is known about the artifacts on the way to a PASS.
OnTheWay ==
  /\ result = "none" <=> pc # "done"
  /\ pc \in {"review", "verify"} => artifacts.patch = ThisRound
  /\ pc = "verify" => /\ Verify
                      /\ artifacts.review = ThisRound
                      /\ artifacts.verdict = "PASS"

VettedInv == OnTheWay /\ PassIsVetted

\* A described capability that is not unchecked has its required check.
LEMMA CheckedMeansRequired ==
  ASSUME Unchecked = {}
  PROVE  \A c \in Described(iface) :
           [capability |-> c, code |-> RequiredCheck[c]] \in Checks
<1>. SUFFICES ASSUME NEW c \in Described(iface)
              PROVE  [capability |-> c, code |-> RequiredCheck[c]] \in Checks
  OBVIOUS
<1>1. PICK k \in Checks : k.capability = c /\ k.code = RequiredCheck[c]
  BY DEF Unchecked, MissingChecks
<1>2. k \in [capability : Transformable, code : CapabilityFailure]
  BY ChecksAssumption
<1>3. k = [capability |-> c, code |-> RequiredCheck[c]]
  BY <1>1, <1>2
<1>. QED
  BY <1>3

LEMMA VettedInvariant == Spec => []VettedInv
<1>. USE DEF loopVars, roundVars, endVars
<1>1. Init => VettedInv
  BY DEF Init, VettedInv, OnTheWay, PassIsVetted
<1>2. /\ VettedInv /\ TypeOK /\ UsageInv /\ ExistingTestsUntouched /\ [Next]_vars
      => VettedInv'
  <2> SUFFICES ASSUME VettedInv, TypeOK, UsageInv, ExistingTestsUntouched, [Next]_vars
               PROVE  VettedInv'
    OBVIOUS
  <2>. USE DEF VettedInv, OnTheWay
  <2>b. \A rep : NextPatchRound(rep) =>
          \/ pc' = "worktree" /\ result' = result
          \/ pc' = "done" /\ result' = "FAILED"
    BY DEF NextPatchRound, Conclude
  <2>c. \A o, rep : Conclude(o, rep) => pc' = "done" /\ result' = o /\ UNCHANGED loopVars
    BY DEF Conclude
  <2>d. pc \in {"review", "verify"} =>
          artifacts.interface = iface /\ \A e \in worktree : e[2] = "source"
    BY DEF UsageInv, Written, ExistingTestsUntouched, Built
  \* An action that does not end the run leaves nothing to show but OnTheWay.
  <2>e. result' # "PASS" => PassIsVetted'
    BY DEF PassIsVetted
  <2>1. CASE Baseline \/ FirstAnalysis \/ ReanalysisFindsNothing
    BY <2>1, <2>c, <2>e DEF Baseline, FirstAnalysis, ReanalysisFindsNothing, Discard
  <2>2. CASE ReanalysisDropsCandidate \/ ReanalysisKeepsCandidate
    BY <2>2, <2>e DEF ReanalysisDropsCandidate, ReanalysisKeepsCandidate, Discard
  <2>3. CASE CreateWorktree \/ ReplayEmptyCandidate \/ TransformUnit
    BY <2>3, <2>e DEF CreateWorktree, ReplayEmptyCandidate, TransformUnit
  <2>4. CASE DiscardInvasive \/ DiscardModifiedTests \/ RemoveFile \/ DescribeNothing
    BY <2>4, <2>e
    DEF DiscardInvasive, DiscardModifiedTests, Discard, RemoveFile, DescribeNothing, Discarding
  <2>15. CASE PlanAfresh \/ RetryWithoutInvasive \/ RetryWithoutTests
    BY <2>15, <2>b, <2>c, <2>e DEF PlanAfresh, RetryWithoutInvasive, RetryWithoutTests
  <2>5. CASE WriteInterface \/ DescribeInterface \/ AdmitCandidate \/ FormatAndBuildPass
    BY <2>5, <2>e DEF WriteInterface, DescribeInterface, AdmitCandidate, FormatAndBuildPass
  <2>6. CASE FormatOrBuildFail
    BY <2>6, <2>b, <2>e DEF FormatOrBuildFail
  <2>7. CASE RecordCandidate
    BY <2>7, <2>e DEF RecordCandidate, TypeOK, ThisRound
  <2>8. CASE ReviseAgent1 \/ ReviseAgent2
    BY <2>8, <2>b, <2>c, <2>e DEF ReviseAgent1, ReviseAgent2, RecordReview
  <2>9. CASE ReviewNeedsHuman
    BY <2>9, <2>c, <2>e DEF ReviewNeedsHuman, RecordReview
  <2>10. CASE ReviewPasses
    <3>1. /\ pc = "review"
          /\ artifacts' = [artifacts EXCEPT !.review = ThisRound, !.verdict = "PASS"]
          /\ UNCHANGED << loopVars, worktree, iface >>
          /\ \/ Verify /\ pc' = "verify" /\ UNCHANGED result
             \/ ~ Verify /\ pc' = "done" /\ result' = "PASS"
      BY <2>10, <2>c DEF ReviewPasses, RecordReview
    <3>2. /\ artifacts'.patch = ThisRound' /\ artifacts'.review = ThisRound'
          /\ artifacts'.verdict = "PASS" /\ artifacts'.interface = iface'
          /\ \A e \in worktree' : e[2] = "source"
      BY <3>1, <2>d DEF TypeOK, ThisRound
    <3>. QED
      BY <3>1, <3>2, VerifyAssumption DEF PassIsVetted
  <2>11. CASE VerificationPasses
    <3>1. /\ pc = "verify" /\ pc' = "done" /\ result' = "PASS" /\ Unchecked = {}
          /\ artifacts' = [artifacts EXCEPT !.verification = ThisRound, !.verified = TRUE]
          /\ UNCHANGED << loopVars, worktree, iface >>
      BY <2>11, <2>c DEF VerificationPasses, RecordVerification
    <3>2. /\ artifacts'.patch = ThisRound' /\ artifacts'.review = ThisRound'
          /\ artifacts'.verdict = "PASS" /\ artifacts'.interface = iface'
          /\ artifacts'.verification = ThisRound' /\ artifacts'.verified
          /\ \A e \in worktree' : e[2] = "source"
      BY <3>1, <2>d DEF TypeOK, ThisRound
    <3>3. \A c \in Described(iface') :
            [capability |-> c, code |-> RequiredCheck[c]] \in Checks
      BY <3>1, CheckedMeansRequired
    <3>. QED
      BY <3>1, <3>2, <3>3 DEF PassIsVetted
  <2>12. CASE VerificationFails
    BY <2>12, <2>b, <2>c, <2>e DEF VerificationFails, RecordVerification
  <2>13. CASE Abort
    BY <2>13, <2>e DEF Abort
  <2>14. CASE UNCHANGED vars
    BY <2>14 DEF vars, PassIsVetted, ThisRound, Described
  <2>. QED
    BY <2>1, <2>2, <2>3, <2>4, <2>5, <2>6, <2>7, <2>8, <2>9, <2>10, <2>11,
       <2>12, <2>13, <2>14, <2>15 DEF Next, Step
<1>. QED
  BY <1>1, <1>2, TypeCorrect, UsageInvariant, TestsCorrect, PTL DEF Spec

\* A PASS is about one candidate of the last round: the recorded patch, the
\* passed review, the interface report and the verification are all of it.
THEOREM PassCorrect == Spec => []PassIsVetted
<1>1. VettedInv => PassIsVetted
  BY DEF VettedInv
<1>. QED
  BY <1>1, VettedInvariant, PTL

-----------------------------------------------------------------------------
(* Revisions *)

\* The kept candidate is the last worktree, or there is none and nothing is
\* left of earlier rounds; the feedback says which.
Replays ==
  /\ pc = "worktree" => IF prior.held THEN prior.patch = worktree /\ live # {}
                                      ELSE live = {}
  /\ pc \in {"transform", "inspect", "describe", "classify"} \cup Built => ThisRound \in live
  /\ pc = "analyze" /\ analysisRound > 1 =>
       prior.held /\ prior.patch = worktree /\ live # {} /\ Described(prior.iface) # {}
  /\ pc = "verify" => prior.held /\ prior.patch = worktree
  /\ pc \in {"withdrawn", "discarded"} => live = {}

RevisionInv == Replays /\ FeedbackMatchesWorktree

LEMMA RevisionInvariant == Spec => []RevisionInv
<1>. USE DEF loopVars, roundVars, endVars
<1>1. Init => RevisionInv
  BY DEF Init, RevisionInv, Replays, FeedbackMatchesWorktree, Built
<1>2. RevisionInv /\ TypeOK /\ UsageInv /\ AskedInv /\ [Next]_vars => RevisionInv'
  <2> SUFFICES ASSUME RevisionInv, TypeOK, UsageInv, AskedInv, [Next]_vars
               PROVE  RevisionInv'
    OBVIOUS
  <2>. USE DEF RevisionInv, Replays, FeedbackMatchesWorktree, Built, Feedback, Discarding
  <2>a. /\ NoPrior.held = FALSE /\ NoFeedback.failure = "none"
        /\ Described(NoInterface) = {}
    BY JointNone DEF NoPrior, NoFeedback
  <2>b. \A rep : NextPatchRound(rep) => pc' \in {"worktree", "done"}
    BY DEF NextPatchRound, Conclude
  <2>c. \A o, rep : Conclude(o, rep) => pc' = "done"
    BY DEF Conclude
  <2>d. pc \in Built => Described(iface) # {}
    BY DEF AskedInv, Reported
  <2>e. pc \in {"withdrawn", "discarded"} => prior = NoPrior
    BY DEF UsageInv, Written
  <2>1. CASE Baseline
    BY <2>1 DEF Baseline, UsageInv, BeginsEmpty
  <2>2. CASE FirstAnalysis
    BY <2>2, <2>a, <2>c DEF FirstAnalysis, UsageInv, BeginsEmpty
  <2>3. CASE ReanalysisFindsNothing \/ ReanalysisDropsCandidate
    BY <2>3, <2>c DEF ReanalysisFindsNothing, ReanalysisDropsCandidate, Discard
  <2>4. CASE RemoveFile \/ DescribeNothing
    BY <2>4 DEF RemoveFile, DescribeNothing, ThisRound
  <2>5. CASE ReanalysisKeepsCandidate
    <3>1. prior.held /\ prior.patch = worktree /\ live # {} /\ prior.iface # NoInterface
      BY <2>5, <2>a DEF ReanalysisKeepsCandidate
    <3>. QED
      BY <2>5, <3>1 DEF ReanalysisKeepsCandidate
  <2>6. CASE CreateWorktree
    BY <2>6 DEF CreateWorktree, ThisRound
  <2>7. CASE ReplayEmptyCandidate
    BY <2>7 DEF ReplayEmptyCandidate
  <2>8. CASE TransformUnit
    <3>1. /\ pc = "transform" /\ pc' \in {"transform", "inspect"}
          /\ UNCHANGED << loopVars, feedback, prior, live >>
      BY <2>8 DEF TransformUnit
    <3>. QED
      BY <3>1 DEF ThisRound
  <2>9. CASE PlanAfresh \/ RetryWithoutInvasive
    BY <2>9, <2>a, <2>b, <2>c, <2>e DEF PlanAfresh, RetryWithoutInvasive
  <2>10. CASE RetryWithoutTests
    BY <2>10, <2>a, <2>b, <2>e DEF RetryWithoutTests
  <2>11. CASE WriteInterface \/ DescribeInterface \/ AdmitCandidate
    BY <2>11 DEF WriteInterface, DescribeInterface, AdmitCandidate, ThisRound
  <2>22. CASE DiscardInvasive \/ DiscardModifiedTests
    BY <2>22 DEF DiscardInvasive, DiscardModifiedTests, Discard
  <2>12. CASE FormatAndBuildPass \/ RecordCandidate
    BY <2>12 DEF FormatAndBuildPass, RecordCandidate, ThisRound
  <2>13. CASE FormatOrBuildFail
    BY <2>13, <2>b DEF FormatOrBuildFail, KeepCandidate
  <2>14. CASE ReviseAgent1
    <3>1. /\ pc' \in {"analyze", "done"}
          /\ prior' = [held |-> TRUE, patch |-> worktree, iface |-> iface]
          /\ UNCHANGED << worktree, live >>
          /\ pc = "review"
      BY <2>14, <2>c DEF ReviseAgent1, RecordReview, KeepCandidate
    <3>2. Described(prior'.iface) # {}
      BY <3>1, <2>d
    <3>3. Described(prior'.iface) = Described(prior.iface)'
      BY DEF Described
    <3>. QED
      BY <3>1, <3>2, <3>3
  <2>15. CASE ReviseAgent2
    <3>1. /\ pc' \in {"worktree", "done"} /\ pc = "review"
          /\ prior' = [held |-> TRUE, patch |-> worktree, iface |-> iface]
          /\ UNCHANGED << worktree, live >>
          /\ feedback'.failure = "REVIEW_REVISE_AGENT2"
      BY <2>15, <2>b DEF ReviseAgent2, RecordReview, KeepCandidate
    <3>. QED
      BY <3>1
  <2>16. CASE ReviewNeedsHuman
    BY <2>16, <2>c DEF ReviewNeedsHuman, RecordReview
  <2>17. CASE ReviewPasses
    BY <2>17, <2>c DEF ReviewPasses, RecordReview, KeepPatch, TypeOK, ThisRound
  <2>18. CASE VerificationPasses
    BY <2>18, <2>c DEF VerificationPasses, RecordVerification
  <2>19. CASE VerificationFails
    <3>1. /\ pc = "verify" /\ UNCHANGED << worktree, live >>
          /\ \/ pc' = "done"
             \/ /\ pc' = "worktree"
                /\ prior' = [prior EXCEPT !.iface = iface]
                /\ feedback'.failure = "DETERMINISTIC_VERIFICATION_FAILED"
      BY <2>19, <2>b, <2>c DEF VerificationFails, RecordVerification
    <3>2. pc' = "worktree" => prior'.held = prior.held /\ prior'.patch = prior.patch
      BY <3>1 DEF TypeOK
    <3>. QED
      BY <3>1, <3>2
  <2>20. CASE Abort
    BY <2>20 DEF Abort
  <2>21. CASE UNCHANGED vars
    BY <2>21 DEF vars, ThisRound, Described
  <2>. QED
    BY <2>1, <2>2, <2>3, <2>4, <2>5, <2>6, <2>7, <2>8, <2>9, <2>10, <2>11,
       <2>12, <2>13, <2>14, <2>15, <2>16, <2>17, <2>18, <2>19, <2>20, <2>21,
       <2>22 DEF Next, Step
<1>. QED
  BY <1>1, <1>2, TypeCorrect, UsageInvariant, AskedInvariant, PTL DEF Spec

\* Agent 2's feedback speaks of an applied candidate exactly when the worktree
\* it is given holds one.
THEOREM FeedbackCorrect == Spec => []FeedbackMatchesWorktree
<1>1. RevisionInv => FeedbackMatchesWorktree
  BY DEF RevisionInv
<1>. QED
  BY <1>1, RevisionInvariant, PTL

\* Every revision starts from the candidate of the round before, or from HEAD
\* after a discard.
THEOREM RevisionCorrect == Spec => RevisionStartsFromLast
<1>1. RevisionInv /\ [Next]_vars =>
        [pc = "worktree" /\ pc' = "transform" =>
           \/ worktree' = worktree /\ live # {}
           \/ worktree' = {} /\ live = {}]_vars
  <2> SUFFICES ASSUME RevisionInv, Next, pc = "worktree", pc' = "transform"
               PROVE  \/ worktree' = worktree /\ live # {}
                      \/ worktree' = {} /\ live = {}
    OBVIOUS
  <2>1. CreateWorktree
    BY DEF Next, Step, Baseline, FirstAnalysis, ReanalysisFindsNothing,
           ReanalysisDropsCandidate, ReanalysisKeepsCandidate, Discarding, RemoveFile,
           DescribeNothing, PlanAfresh, RetryWithoutInvasive, RetryWithoutTests,
           ReplayEmptyCandidate, TransformUnit, WriteInterface, DescribeInterface,
           DiscardInvasive, DiscardModifiedTests, AdmitCandidate, FormatAndBuildPass,
           FormatOrBuildFail, RecordCandidate, ReviseAgent1, ReviseAgent2,
           ReviewNeedsHuman, ReviewPasses, RecordReview, VerificationPasses,
           VerificationFails, RecordVerification, Abort
  <2>. QED
    BY <2>1 DEF CreateWorktree, RevisionInv, Replays
<1>. QED
  BY <1>1, RevisionInvariant, PTL DEF Spec, RevisionStartsFromLast

-----------------------------------------------------------------------------
(* Discarded candidates *)

LEMMA RoundsOfNothing == RoundsOf({}) = {} /\ RoundsIn(NoInterface) = {}
BY JointNone DEF RoundsOf, RoundsIn

LEMMA RoundsOfMerge ==
  RoundsIn(MergeInterface) \subseteq RoundsIn(revised) \cup RoundsIn(prior.iface)
BY DEF RoundsIn, Described, MergeInterface

\* Agent 2 only adds edits of the current round.
LEMMA RoundsOfTransform ==
  ASSUME NEW undone, NEW kinds
  PROVE  RoundsOf((worktree \ undone) \cup ({ThisRound} \X kinds))
           \subseteq {ThisRound} \cup RoundsOf(worktree)
BY DEF RoundsOf

\* DiscardedStaysOut is inductive with Replays: the current round is never a
\* discarded one.
THEOREM DiscardCorrect == Spec => []DiscardedStaysOut
<1>. USE DEF loopVars, roundVars, endVars
<1>1. Init => DiscardedStaysOut
  BY RoundsOfNothing DEF Init, DiscardedStaysOut, NoPrior, NoArtifacts
<1>2. /\ DiscardedStaysOut /\ TypeOK /\ UsageInv /\ RevisionInv /\ [Next]_vars
      => DiscardedStaysOut'
  <2> SUFFICES ASSUME DiscardedStaysOut, TypeOK, UsageInv, RevisionInv, [Next]_vars
               PROVE  DiscardedStaysOut'
    OBVIOUS
  <2>. USE DEF DiscardedStaysOut
  <2>a. /\ NoPrior.patch = {} /\ NoPrior.iface = NoInterface
        /\ NoArtifacts.interface = NoInterface
        /\ {NoArtifacts.patch, NoArtifacts.review, NoArtifacts.verification} = {NoRound}
    BY DEF NoPrior, NoArtifacts
  <2>b. \A rep : NextPatchRound(rep) => pc' \in {"worktree", "done"}
    BY DEF NextPatchRound, Conclude
  <2>c. \A o, rep : Conclude(o, rep) => pc' = "done"
    BY DEF Conclude
  <2>d. pc \in {"transform"} \cup Built => ThisRound \in live
    BY DEF RevisionInv, Replays
  <2>. USE DEF RoundsIn, Described, RoundsOf
  <2>1. CASE Baseline
    BY <2>1 DEF Baseline
  <2>2. CASE FirstAnalysis
    BY <2>2, <2>a, <2>c, RoundsOfNothing DEF FirstAnalysis
  <2>3. CASE ReanalysisFindsNothing \/ ReanalysisDropsCandidate
    BY <2>3, <2>a, <2>c, RoundsOfNothing
    DEF ReanalysisFindsNothing, ReanalysisDropsCandidate, Discard
  <2>4. CASE RemoveFile \/ DescribeNothing
    <3>1. /\ pc \in Discarding /\ pc' \in Discarding \cup {"withdrawn", "discarded"}
          /\ UNCHANGED << worktree, iface, prior >>
          /\ \/ UNCHANGED << live, usage >>
             \/ live' = {} /\ usage' = NoInterface /\ artifacts' = NoArtifacts
      BY <2>4 DEF RemoveFile, DescribeNothing, Discarding
    <3>2. /\ artifacts'.interface \in {artifacts.interface, NoInterface}
          /\ artifacts'.patch \in {artifacts.patch, NoRound}
          /\ artifacts'.review \in {artifacts.review, NoRound}
          /\ artifacts'.verification \in {artifacts.verification, NoRound}
      BY <2>4 DEF RemoveFile, DescribeNothing, TypeOK
    <3>3. RoundsOf(prior'.patch) = {} /\ RoundsIn(prior'.iface) = {}
      BY <3>1, <2>a, RoundsOfNothing DEF UsageInv, Written
    <3>4. CASE UNCHANGED << live, usage >>
      <4>1. RoundsIn(artifacts'.interface) \subseteq live
        BY <3>2, RoundsOfNothing
      <4>2. {artifacts'.patch, artifacts'.review, artifacts'.verification}
              \subseteq live \cup {NoRound}
        BY <3>2
      <4>. QED
        BY <3>1, <3>3, <3>4, <4>1, <4>2 DEF Discarding
    <3>5. CASE live' = {} /\ usage' = NoInterface /\ artifacts' = NoArtifacts
      <4>1. RoundsIn(artifacts'.interface) = {} /\ RoundsIn(usage') = {}
        BY <3>5, <2>a, RoundsOfNothing
      <4>. QED
        BY <3>1, <3>3, <3>5, <4>1, <2>a DEF Discarding
    <3>. QED
      BY <3>1, <3>4, <3>5
  <2>18. CASE PlanAfresh \/ RetryWithoutInvasive \/ RetryWithoutTests
    BY <2>18, <2>b, <2>c DEF PlanAfresh, RetryWithoutInvasive, RetryWithoutTests
  <2>5. CASE ReanalysisKeepsCandidate
    BY <2>5 DEF ReanalysisKeepsCandidate
  <2>6. CASE CreateWorktree
    BY <2>6, RoundsOfNothing DEF CreateWorktree
  <2>7. CASE ReplayEmptyCandidate
    BY <2>7 DEF ReplayEmptyCandidate
  <2>8. CASE TransformUnit
    <3>1. PICK undone \in SUBSET worktree, kinds \in Changes :
            worktree' = (worktree \ undone) \cup ({ThisRound} \X kinds)
      BY <2>8 DEF TransformUnit
    <3>2. /\ pc = "transform" /\ pc' \in {"transform", "inspect"}
          /\ UNCHANGED << prior, artifacts, usage, live >>
          /\ revised' = [c \in Transformable |->
                           IF c \in Patchable(report, NextUnit(todo))
                           THEN << ThisRound, NextUnit(todo) >> ELSE revised[c]]
      BY <2>8 DEF TransformUnit
    <3>3. RoundsOf(worktree') \subseteq live
      BY <3>1, <3>2, <2>d, RoundsOfTransform
    <3>4. RoundsIn(revised') \subseteq {ThisRound} \cup RoundsIn(revised)
      BY <3>2
    <3>5. RoundsIn(revised') \subseteq live
      BY <3>2, <3>4, <2>d
    <3>. QED
      BY <3>2, <3>3, <3>5
  <2>9. CASE DiscardInvasive \/ DiscardModifiedTests
    <3>1. /\ prior' = NoPrior /\ pc' = "discard"
          /\ UNCHANGED << artifacts, usage, live >>
      BY <2>9 DEF DiscardInvasive, DiscardModifiedTests, Discard
    <3>2. RoundsOf(prior'.patch) = {} /\ RoundsIn(prior'.iface) = {}
      BY <3>1, <2>a, RoundsOfNothing
    <3>. QED
      BY <3>1, <3>2
  <2>10. CASE WriteInterface
    <3>1. /\ pc = "inspect" /\ pc' = "describe" /\ iface' = MergeInterface
          /\ artifacts' = [artifacts EXCEPT !.interface = MergeInterface]
          /\ UNCHANGED << worktree, revised, prior, usage, live >>
      BY <2>10 DEF WriteInterface
    <3>2. RoundsIn(MergeInterface) \subseteq live
      BY <3>1, RoundsOfMerge
    <3>3. /\ artifacts'.interface = MergeInterface
          /\ artifacts'.patch = artifacts.patch
          /\ artifacts'.review = artifacts.review
          /\ artifacts'.verification = artifacts.verification
      BY <3>1 DEF TypeOK
    <3>. QED
      BY <3>1, <3>2, <3>3
  <2>19. CASE DescribeInterface \/ AdmitCandidate
    BY <2>19 DEF DescribeInterface, AdmitCandidate
  <2>11. CASE FormatAndBuildPass
    BY <2>11 DEF FormatAndBuildPass
  <2>12. CASE FormatOrBuildFail
    BY <2>12, <2>b DEF FormatOrBuildFail, KeepCandidate
  <2>13. CASE RecordCandidate
    BY <2>13, <2>d DEF RecordCandidate, TypeOK, Built
  <2>14. CASE ReviseAgent1 \/ ReviseAgent2 \/ ReviewNeedsHuman \/ ReviewPasses
    <3>1. PICK overall : RecordReview(overall)
      BY <2>14 DEF ReviseAgent1, ReviseAgent2, ReviewNeedsHuman, ReviewPasses
    <3>2. /\ pc = "review"
          /\ artifacts'.review = ThisRound
          /\ artifacts'.patch = artifacts.patch
          /\ artifacts'.verification = artifacts.verification
          /\ artifacts'.interface = artifacts.interface
          /\ usage' = iface
      BY <3>1 DEF RecordReview, TypeOK
    <3>3. UNCHANGED << worktree, iface, live >>
      BY <2>14 DEF ReviseAgent1, ReviseAgent2, ReviewNeedsHuman, ReviewPasses
    <3>4. pc' \in {"analyze", "worktree", "verify", "done"}
      BY <2>14, <2>b, <2>c DEF ReviseAgent1, ReviseAgent2, ReviewNeedsHuman, ReviewPasses
    <3>5. KeepCandidate \/ KeepPatch
      BY <2>14 DEF ReviseAgent1, ReviseAgent2, ReviewNeedsHuman, ReviewPasses
    <3>6. prior'.patch = worktree /\ prior'.iface \in {iface, prior.iface}
      <4>1. CASE KeepCandidate
        BY <4>1 DEF KeepCandidate
      <4>2. CASE KeepPatch
        <5>1. prior \in [held : BOOLEAN, patch : SUBSET Edit, iface : Interface]
          BY DEF TypeOK
        <5>. QED
          BY <4>2, <5>1 DEF KeepPatch
      <4>. QED
        BY <3>5, <4>1, <4>2
    <3>7. /\ ThisRound \in live
          /\ RoundsOf(worktree) \subseteq live /\ RoundsIn(iface) \subseteq live
          /\ RoundsIn(prior.iface) \subseteq live
          /\ RoundsIn(artifacts.interface) \subseteq live
          /\ {artifacts.patch, artifacts.verification} \subseteq live \cup {NoRound}
      BY <3>2, <2>d DEF Built
    <3>8. RoundsOf(prior'.patch) \subseteq live /\ RoundsIn(prior'.iface) \subseteq live
      BY <3>6, <3>7
    <3>9. RoundsIn(artifacts'.interface) \subseteq live /\ RoundsIn(usage') \subseteq live
      BY <3>2, <3>7
    <3>. QED
      BY <3>2, <3>3, <3>4, <3>7, <3>8, <3>9
  <2>15. CASE VerificationPasses \/ VerificationFails
    <3>1. /\ pc = "verify" /\ pc' \in {"worktree", "done"}
          /\ artifacts'.verification = ThisRound
          /\ artifacts'.patch = artifacts.patch
          /\ artifacts'.review = artifacts.review
          /\ artifacts'.interface = artifacts.interface
          /\ UNCHANGED << worktree, iface, usage, live >>
      BY <2>15, <2>b, <2>c
      DEF VerificationPasses, VerificationFails, RecordVerification, TypeOK
    <3>2. prior'.patch = prior.patch /\ prior'.iface \in {iface, prior.iface}
      BY <2>15 DEF VerificationPasses, VerificationFails, TypeOK
    <3>. QED
      BY <3>1, <3>2, <2>d DEF Built
  <2>16. CASE Abort
    BY <2>16 DEF Abort
  <2>17. CASE UNCHANGED vars
    BY <2>17 DEF vars
  <2>. QED
    BY <2>1, <2>2, <2>3, <2>4, <2>5, <2>6, <2>7, <2>8, <2>9, <2>10, <2>11,
       <2>12, <2>13, <2>14, <2>15, <2>16, <2>17, <2>18,
       <2>19 DEF Next, Step
<1>. QED
  BY <1>1, <1>2, TypeCorrect, UsageInvariant, RevisionInvariant, PTL DEF Spec

-----------------------------------------------------------------------------
(* What a PASS leaves out *)

\* Without a reanalysis, the kept candidate has nothing or all that is available, and
\* what is being revised and what it has are together all that is available.
Covering ==
  analysisRound = 1 =>
    /\ pc \in InRound => Described(prior.iface) \in { {}, Available(report)}
    /\ pc \in {"worktree", "transform", "inspect"} =>
         selected \cup Described(prior.iface) = Available(report)
    /\ pc \in {"describe", "classify"} /\ invasive = {} =>
         Described(iface) = Available(report)
    /\ pc \in Built => Described(iface) = Available(report)

AccountInv == Covering /\ PassAccountsForAll

\* When the interface report has all that is available, unresolved.json has
\* the rest.
LEMMA UnresolvedIsTheRest ==
  ASSUME TypeOK, Described(iface) = Available(report)
  PROVE  Unresolved(report, Scope) =
           {c \in CapabilityNames : /\ report[c] \notin {"SUPPORTED", "NOT_APPLICABLE"}
                                    /\ c \notin Described(iface)}
<1>1. \A c \in CapabilityNames : report[c] \in Status
  BY DEF TypeOK
<1>2. \A c \in CapabilityNames :
        c \in Described(iface) <=> c \in Scope /\ report[c] = "PATCHABLE"
  BY DEF Available, Patchable
<1>. QED
  BY <1>1, <1>2 DEF Unresolved, Status

LEMMA AccountInvariant == Spec => []AccountInv
<1>. USE DEF loopVars, roundVars, endVars
<1>1. Init => AccountInv
  BY DEF Init, AccountInv, Covering, PassAccountsForAll, InRound, Built
<1>2. /\ AccountInv /\ TypeOK /\ UsageInv /\ AskedInv /\ VettedInv /\ [Next]_vars
      => AccountInv'
  <2> SUFFICES ASSUME AccountInv, TypeOK, UsageInv, AskedInv, VettedInv, [Next]_vars
               PROVE  AccountInv'
    OBVIOUS
  <2>. USE DEF AccountInv, Covering, InRound, Built, Discarding
  <2>a. NoPrior.iface = NoInterface /\ Described(NoInterface) = {}
    BY JointNone DEF NoPrior
  <2>b. \A rep : NextPatchRound(rep) =>
          /\ analysisRound' = analysisRound
          /\ \/ pc' = "worktree" /\ result' = result
             \/ pc' = "done" /\ result' = "FAILED"
    BY DEF NextPatchRound, Conclude
  <2>c. \A o, rep : Conclude(o, rep) =>
          /\ pc' = "done" /\ result' = o /\ unresolved' = Unresolved(rep, Scope)
          /\ analysisRound' = analysisRound
    BY DEF Conclude
  <2>d. pc # "done" => result # "PASS"
    BY DEF VettedInv, OnTheWay
  <2>e. result' # "PASS" => PassAccountsForAll'
    BY DEF PassAccountsForAll
  <2>f. pc \in {"withdrawn", "discarded"} => prior = NoPrior
    BY DEF UsageInv, Written
  <2>g. pc \in InRound => selected \subseteq Available(report) /\ Available(report) # {}
    BY DEF AskedInv, AskedWithin
  <2>1. CASE Baseline
    BY <2>1, <2>d, <2>e DEF Baseline
  <2>2. CASE FirstAnalysis
    <3>1. Described(prior'.iface) = {}
      BY <2>2, <2>a DEF FirstAnalysis, UsageInv, BeginsEmpty
    <3>. QED
      BY <2>2, <2>c, <2>d, <2>e, <3>1 DEF FirstAnalysis, Described
  <2>3. CASE ReanalysisFindsNothing \/ ReanalysisDropsCandidate
    BY <2>3, <2>c, <2>d, <2>e DEF ReanalysisFindsNothing, ReanalysisDropsCandidate, Discard
  <2>4. CASE ReanalysisKeepsCandidate
    BY <2>4, <2>d, <2>e DEF ReanalysisKeepsCandidate
  <2>21. CASE RemoveFile \/ DescribeNothing
    BY <2>21, <2>d, <2>e DEF RemoveFile, DescribeNothing
  <2>22. CASE PlanAfresh \/ RetryWithoutInvasive \/ RetryWithoutTests
    <3>1. /\ pc \in {"withdrawn", "discarded"} /\ UNCHANGED << report, prior >>
          /\ analysisRound' = analysisRound
          /\ \/ pc' = "done" /\ result' # "PASS"
             \/ /\ pc' = "worktree" /\ result' = result
                /\ selected' = Available(report)
      BY <2>22, <2>b, <2>c DEF PlanAfresh, RetryWithoutInvasive, RetryWithoutTests
    <3>2. Described(prior.iface)' = {}
      BY <3>1, <2>a, <2>f DEF Described
    <3>. QED
      BY <3>1, <3>2, <2>d, <2>e
  <2>5. CASE CreateWorktree
    BY <2>5, <2>d, <2>e DEF CreateWorktree, Described
  <2>6. CASE ReplayEmptyCandidate
    BY <2>6, <2>d, <2>e DEF ReplayEmptyCandidate
  <2>7. CASE TransformUnit
    <3>1. /\ pc = "transform" /\ pc' \in {"transform", "inspect"}
          /\ UNCHANGED << loopVars, report, selected, prior, result >>
      BY <2>7 DEF TransformUnit
    <3>. QED
      BY <3>1, <2>d, <2>e DEF Described
  <2>8. CASE DiscardInvasive \/ DiscardModifiedTests
    BY <2>8, <2>d, <2>e DEF DiscardInvasive, DiscardModifiedTests, Discard
  <2>9. CASE WriteInterface
    <3>1. /\ pc = "inspect" /\ pc' = "describe" /\ iface' = MergeInterface
          /\ UNCHANGED << loopVars, report, selected, invasive, prior, result >>
      BY <2>9 DEF WriteInterface
    <3>2. Described(iface)' = Described(revised) \cup Described(prior.iface)
      BY <3>1, MergeIsJoint DEF Described
    <3>3. invasive = {} => Described(revised) = selected
      BY <3>1 DEF AskedInv, Called
    <3>4. Described(prior.iface)' = Described(prior.iface)
      BY <3>1 DEF Described
    <3>. QED
      BY <3>1, <3>2, <3>3, <3>4, <2>d, <2>e
  <2>10. CASE DescribeInterface \/ AdmitCandidate
    BY <2>10, <2>d, <2>e DEF DescribeInterface, AdmitCandidate, Described
  <2>11. CASE FormatAndBuildPass \/ RecordCandidate
    BY <2>11, <2>d, <2>e DEF FormatAndBuildPass, RecordCandidate, Described
  <2>12. CASE FormatOrBuildFail
    <3>1. /\ pc = "build" /\ UNCHANGED << report, selected, iface >>
          /\ prior'.iface = iface
      BY <2>12 DEF FormatOrBuildFail, KeepCandidate
    <3>2. selected \subseteq Available(report)
      BY <3>1 DEF AskedInv, AskedWithin
    <3>3. Described(prior.iface)' = Described(iface)
      BY <3>1 DEF Described
    <3>. QED
      BY <2>12, <2>b, <2>d, <2>e, <3>1, <3>2, <3>3 DEF FormatOrBuildFail
  <2>13. CASE ReviseAgent1
    <3>1. \/ pc' = "done" /\ result' # "PASS"
          \/ pc' = "analyze" /\ UNCHANGED result
      BY <2>13, <2>c DEF ReviseAgent1
    <3>. QED
      BY <2>13, <2>d, <2>e, <3>1 DEF ReviseAgent1, RecordReview
  <2>14. CASE ReviseAgent2
    <3>1. /\ pc = "review" /\ UNCHANGED << report, iface >>
          /\ prior'.iface = iface
          /\ analysisRound' = analysisRound
          /\ \/ pc' = "done" /\ result' # "PASS"
             \/ pc' = "worktree" /\ result' = result
      BY <2>14, <2>b DEF ReviseAgent2, RecordReview, KeepCandidate
    <3>2. Available(report) # {}
      BY <3>1 DEF AskedInv, AskedWithin
    <3>3. selected' \subseteq Available(report)
      BY <2>14, <3>2, RevisionIsJoint DEF ReviseAgent2
    <3>4. Described(prior.iface)' = Described(iface)
      BY <3>1 DEF Described
    <3>. QED
      BY <2>d, <2>e, <3>1, <3>3, <3>4
  <2>15. CASE ReviewNeedsHuman
    BY <2>15, <2>c, <2>e DEF ReviewNeedsHuman
  <2>16. CASE ReviewPasses
    <3>1. /\ pc = "review" /\ UNCHANGED << report, iface >>
          /\ artifacts' = [artifacts EXCEPT !.review = ThisRound, !.verdict = "PASS"]
          /\ analysisRound' = analysisRound
          /\ \/ pc' = "verify" /\ UNCHANGED result
             \/ pc' = "done" /\ unresolved' = Unresolved(report, Scope)
      BY <2>16, <2>c DEF ReviewPasses, RecordReview
    <3>2. artifacts'.interface = iface
      BY <3>1 DEF UsageInv, Written, Built, TypeOK
    <3>5. Described(prior.iface)' = Described(prior.iface)
      BY <2>16 DEF ReviewPasses, KeepPatch, TypeOK, Described
    <3>3. CASE pc' = "verify"
      BY <3>1, <3>3, <3>5, <2>d, <2>e DEF Described
    <3>4. CASE pc' = "done"
      BY <3>1, <3>2, <3>4, UnresolvedIsTheRest DEF PassAccountsForAll, Described
    <3>. QED
      BY <3>1, <3>3, <3>4
  <2>17. CASE VerificationPasses
    <3>1. /\ pc = "verify" /\ pc' = "done" /\ UNCHANGED << report, iface >>
          /\ artifacts' = [artifacts EXCEPT !.verification = ThisRound, !.verified = TRUE]
          /\ analysisRound' = analysisRound
          /\ unresolved' = Unresolved(report, Scope)
      BY <2>17, <2>c DEF VerificationPasses, RecordVerification
    <3>2. artifacts'.interface = iface
      BY <3>1 DEF UsageInv, Written, Built, TypeOK
    <3>. QED
      BY <3>1, <3>2, UnresolvedIsTheRest DEF PassAccountsForAll, Described
  <2>18. CASE VerificationFails
    <3>1. /\ pc = "verify" /\ UNCHANGED << report, selected, iface >>
          /\ \/ pc' = "done" /\ result' # "PASS"
             \/ /\ pc' = "worktree" /\ result' = result
                /\ analysisRound' = analysisRound
                /\ prior' = [prior EXCEPT !.iface = iface]
      BY <2>18, <2>b, <2>c DEF VerificationFails, RecordVerification
    <3>2. pc' = "worktree" => prior'.iface = iface
      BY <3>1 DEF TypeOK
    <3>3. pc' = "worktree" => Described(prior.iface)' = Described(iface)
      BY <3>2 DEF Described
    <3>4. selected \subseteq Available(report)
      BY <3>1 DEF AskedInv, AskedWithin
    <3>. QED
      BY <2>d, <2>e, <3>1, <3>3, <3>4
  <2>19. CASE Abort
    BY <2>19, <2>e DEF Abort
  <2>20. CASE UNCHANGED vars
    BY <2>20 DEF vars, PassAccountsForAll, Described
  <2>. QED
    BY <2>1, <2>2, <2>3, <2>4, <2>5, <2>6, <2>7, <2>8, <2>9, <2>10, <2>11,
       <2>12, <2>13, <2>14, <2>15, <2>16, <2>17, <2>18, <2>19, <2>20,
       <2>21, <2>22 DEF Next, Step
<1>. QED
  BY <1>1, <1>2, TypeCorrect, UsageInvariant, AskedInvariant, VettedInvariant,
     PTL DEF Spec

\* Without a reanalysis, a PASS accounts for every capability: implemented, or
\* in unresolved.json, or already at hand.
THEOREM AccountCorrect == Spec => []PassAccountsForAll
<1>1. AccountInv => PassAccountsForAll
  BY DEF AccountInv
<1>. QED
  BY <1>1, AccountInvariant, PTL

-----------------------------------------------------------------------------
(* Message capture and injection *)

\* Message capture and injection of one interface report come from one call of Agent 2,
\* whichever revision it is of; and where both are available neither is revised alone
\* or, without a reanalysis, all that a candidate has.
THEOREM JointCorrect == Spec => []MessageControlIsJoint
<1>1. AskedInv /\ Covering => MessageControlIsJoint
  <2> SUFFICES ASSUME AskedInv, Covering PROVE MessageControlIsJoint
    OBVIOUS
  <2>1. \A i \in {prior.iface, artifacts.interface} :
          MessageControl \subseteq Described(i) =>
            i["message_capture"] = i["message_injection"]
    BY DEF AskedInv, Joint
  <2>2. ASSUME pc \in InRound, MessageControl \subseteq Available(report)
        PROVE  /\ selected \cap MessageControl \in { {}, MessageControl }
               /\ analysisRound = 1 =>
                    Described(prior.iface) \cap MessageControl \in { {}, MessageControl }
    BY <2>2 DEF AskedInv, AskedWithin, Covering
  <2>. QED
    BY <2>1, <2>2 DEF MessageControlIsJoint
<1>2. AccountInv => Covering
  BY DEF AccountInv
<1>. QED
  BY <1>1, <1>2, AskedInvariant, AccountInvariant, PTL
=============================================================================
