------------------------------ MODULE Workflow ------------------------------
(***************************************************************************)
(* The bounded patch loop of the ConsensusSeam controller                  *)
(* (Workflow._execute_patch_loop): analysis rounds that each hold patch    *)
(* rounds.  A patch round makes a fresh Git worktree, re-applies the       *)
(* candidate kept from the round before, has Agent 2 change it unit by     *)
(* unit, and then discards it, sends it back, or lets it reach the         *)
(* reviewer and, in "run" mode, the deterministic verifier.                *)
(*                                                                         *)
(* The three agents, gofmt, the build and the tests are the environment:   *)
(* every answer their schemas admit is possible.  What is tracked is which *)
(* round an edit or a written artifact comes from, and which call of       *)
(* Agent 2 an interface entry.                                             *)
(*                                                                         *)
(* A definition X_Variant above a definition X is X with a plausible       *)
(* mistake; no action uses it.  The mutants of PROJECT.json put it in the  *)
(* place of X to see that a property notices the mistake.                  *)
(***************************************************************************)
EXTENDS Capabilities

CONSTANTS
  Agent1Rounds,   \* limits.agent1_reanalysis_rounds
  Agent2Rounds,   \* limits.agent2_patch_rounds
  Verify,         \* TRUE for the command run, FALSE for patch
  Scope,          \* transform_capabilities; CapabilityNames when it is null
  Reports,        \* the capability reports the Analyzer may return
  Changes,        \* the sets of kinds of edits that one call of Agent 2 may make
  Issues,         \* the sets of capabilities the issues of a review may name
  Checks          \* the manifest's capability checks: [capability, code] records

\* An edit changes a Go test file that exists at HEAD, whose name Git may quote
\* (see Worktrees), or it does not.
EditKind == {"source", "existing_test", "quoted_test"}

ASSUME LimitsAssumption ==
  /\ Agent1Rounds \in 1..10
  /\ Agent2Rounds \in 1..10
ASSUME VerifyAssumption == Verify \in BOOLEAN
ASSUME ScopeAssumption == Scope \subseteq CapabilityNames
ASSUME ReportsAssumption ==
  \A r \in Reports : r \in [CapabilityNames -> Status] /\ ValidReport(r)
ASSUME ChangesAssumption == Changes \subseteq SUBSET EditKind
ASSUME IssuesAssumption == Issues \subseteq SUBSET CapabilityNames
ASSUME ChecksAssumption ==
  Checks \subseteq [capability : Transformable, code : CapabilityFailure]

VARIABLES
  pc,               \* where the controller is
  analysisRound,    \* analysis_round
  patchRound,       \* patch_round
  report,           \* the capability report in memory
  selected,         \* selected_capabilities
  feedback,         \* agent2_feedback: its "failure" and the capabilities it is about
  reanalysisReview, \* the capabilities the issues of reanalysis_review name
  worktree,         \* the edits in this round's worktree
  todo,             \* selected capabilities Agent 2 was not yet called for
  revised,          \* revised_interface: what Agent 2 reported in this round
  invasive,         \* capabilities Agent 2 rediscovered as invasive
  iface,            \* interface_report: the call each entry was reported in
  prior,            \* prior_candidate_patch and prior_interface_report
  artifacts,        \* the candidate's top-level files in the run directory
  usage,            \* the interface report that USAGE.md describes
  unresolved,       \* unresolved.json ({} until it is written)
  result,           \* the outcome, "none" while running
  live              \* history: the rounds begun since a candidate was last discarded

vars == << pc, analysisRound, patchRound, report, selected, feedback,
           reanalysisReview, worktree, todo, revised, invasive, iface, prior,
           artifacts, usage, unresolved, result, live >>

loopVars == << analysisRound, patchRound >>
roundVars == << worktree, todo, revised, invasive >>
endVars == << unresolved, result >>

-----------------------------------------------------------------------------
(* Values *)

\* Where the loop removes the files of a discarded candidate.
Discarding == {"withdraw", "discard"}

Round == (1..Agent1Rounds) \X (1..Agent2Rounds)
NoRound == << 0, 0 >>
Round0 == Round \cup {NoRound}
ThisRound == << analysisRound, patchRound >>

\* An edit is known by the round that made it.
Edit == Round \X EditKind
RoundsOf(edits) == {e[1] : e \in edits}
TouchesExistingTests_Only(edits) ==
  edits # {} /\ \A e \in edits : e[2] = "existing_test"

\* A quoted name does not end in _test.go.
TouchesExistingTests(edits) == \E e \in edits : e[2] = "existing_test"

\* A call of Agent 2 is known by its round and by the unit it was for.
NoCall == << NoRound, {} >>
Call == Round \X SUBSET CapabilityNames

Interface == [Transformable -> Call \cup {NoCall}]
NoInterface == [c \in Transformable |-> NoCall]
Described(i) == {c \in Transformable : i[c] # NoCall}
RoundsIn(i) == {i[c][1] : c \in Described(i)}

Overall == {"PASS", "REVISE_AGENT1", "REVISE_AGENT2", "NEEDS_HUMAN"}
Failure ==
  {"none", "INVASIVE_REDISCOVERED", "EXISTING_TEST_MODIFIED", "FORMAT_FAILED",
   "BUILD_FAILED", "REVIEW_REVISE_AGENT1", "REVIEW_REVISE_AGENT2",
   "DETERMINISTIC_VERIFICATION_FAILED"}
Outcome == {"NO_PATCH_NEEDED", "PASS", "PARTIAL", "FAILED", "INCOMPLETE"}

NoFeedback == [failure |-> "none", about |-> {}]
NoPrior == [held |-> FALSE, patch |-> {}, iface |-> NoInterface]
NoArtifacts ==
  [patch |-> NoRound, interface |-> NoInterface, review |-> NoRound,
   verdict |-> "none", verification |-> NoRound, verified |-> FALSE]

Feedback(failure, about) == [failure |-> failure, about |-> about]
Available(rep) == Patchable(rep, Scope)

-----------------------------------------------------------------------------
Init ==
  /\ pc = IF Verify THEN "baseline" ELSE "analyze"
  /\ analysisRound = 1
  /\ patchRound = 1
  /\ report = [c \in CapabilityNames |-> "UNKNOWN"]
  /\ selected = {}
  /\ feedback = NoFeedback
  /\ reanalysisReview = {}
  /\ worktree = {}
  /\ todo = {}
  /\ revised = NoInterface
  /\ invasive = {}
  /\ iface = NoInterface
  /\ prior = NoPrior
  /\ artifacts = NoArtifacts
  /\ usage = NoInterface
  /\ unresolved = {}
  /\ result = "none"
  /\ live = {}

-----------------------------------------------------------------------------
(* Ends and rounds *)

\* Write unresolved.json for rep and return.
Conclude(outcome, rep) ==
  /\ pc' = "done"
  /\ result' = outcome
  /\ unresolved' = Unresolved(rep, Scope)
  /\ UNCHANGED loopVars

LastPatchRound_OffByOne == patchRound > Agent2Rounds
LastPatchRound == patchRound = Agent2Rounds

NextPatchRound_NoEnd(rep) ==
  /\ ~ LastPatchRound
  /\ patchRound' = patchRound + 1
  /\ pc' = "worktree"
  /\ UNCHANGED << analysisRound, endVars >>

NextPatchRound_Unconsumed(rep) == pc' = "worktree" /\ UNCHANGED << loopVars, endVars >>

\* "continue" of the patch loop: another worktree, or the budget is exhausted.
NextPatchRound(rep) ==
  \/ /\ ~ LastPatchRound
     /\ patchRound' = patchRound + 1
     /\ pc' = "worktree"
     /\ UNCHANGED << analysisRound, endVars >>
  \/ /\ LastPatchRound
     /\ Conclude("FAILED", rep)

Discard_KeepsPatch(there) ==
  /\ prior' = [prior EXCEPT !.iface = NoInterface]
  /\ pc' = there

\* The candidate is given up, and not looked at again; its files go next.
Discard(there) ==
  /\ prior' = NoPrior
  /\ pc' = there

KeepCandidate_First ==
  prior' = IF prior.held THEN prior
           ELSE [held |-> TRUE, patch |-> worktree, iface |-> iface]

KeepCandidate_UnlessEmpty ==
  prior' = IF worktree = {} THEN NoPrior
           ELSE [held |-> TRUE, patch |-> worktree, iface |-> iface]

\* Keep the worktree and its interface report for the next round.
KeepCandidate == prior' = [held |-> TRUE, patch |-> worktree, iface |-> iface]

\* Keep the worktree; the kept interface report is still the round before's.
KeepPatch == prior' = [prior EXCEPT !.held = TRUE, !.patch = worktree]

-----------------------------------------------------------------------------
(* Baseline and analysis *)

\* Build and test the original repository; only run does, before any agent.
Baseline ==
  /\ pc = "baseline"
  /\ \/ pc' = "analyze" /\ UNCHANGED result
     \/ pc' = "done" /\ result' = "FAILED"
  /\ UNCHANGED << loopVars, report, selected, feedback, reanalysisReview,
                  roundVars, iface, prior, artifacts, usage, unresolved, live >>

FirstAnalysis ==
  /\ pc = "analyze"
  /\ analysisRound = 1
  /\ \E rep \in Reports :
       /\ report' = rep
       /\ \/ /\ Available(rep) = {}
             /\ Conclude("NO_PATCH_NEEDED", rep)
             /\ UNCHANGED selected
          \/ /\ Available(rep) # {}
             /\ selected' = Available(rep)
             /\ pc' = "worktree"
             /\ UNCHANGED << loopVars, endVars >>
  /\ usage' = NoInterface
  /\ UNCHANGED << feedback, reanalysisReview, roundVars, iface, prior,
                  artifacts, live >>

\* The reviewer sent the candidate back to Agent 1.  No capability is left for
\* Agent 2: the candidate is dropped and the run ends.
ReanalysisFindsNothing ==
  /\ pc = "analyze"
  /\ analysisRound > 1
  /\ \E rep \in Reports :
       /\ Available(rep) = {}
       /\ report' = rep
       /\ \/ prior.held /\ Discard("withdraw") /\ UNCHANGED << loopVars, endVars >>
          \/ ~ prior.held /\ Conclude("NO_PATCH_NEEDED", rep) /\ UNCHANGED prior
  /\ UNCHANGED << selected, feedback, reanalysisReview, roundVars, iface, artifacts,
                  usage, live >>

Compatible_Always(rep) == TRUE

\* Everything the candidate implements is PATCHABLE in the new report too.
Compatible(rep) == Described(prior.iface) \subseteq Available(rep)

\* A capability of the candidate is no longer PATCHABLE: the candidate cannot
\* be split, so all of it is dropped and every available one is done afresh.
ReanalysisDropsCandidate ==
  /\ pc = "analyze"
  /\ analysisRound > 1
  /\ \E rep \in Reports :
       /\ Available(rep) # {}
       /\ ~ Compatible(rep)
       /\ report' = rep
  /\ Discard("withdraw")
  /\ UNCHANGED << loopVars, selected, feedback, reanalysisReview, roundVars, iface,
                  artifacts, usage, endVars, live >>

\* The candidate survives: only what the review implicated is revised.
ReanalysisKeepsCandidate ==
  /\ pc = "analyze"
  /\ analysisRound > 1
  /\ \E rep \in Reports :
       /\ Available(rep) # {}
       /\ Compatible(rep)
       /\ report' = rep
       /\ IF prior.held /\ prior.iface # NoInterface
          THEN /\ selected' = ReviewRevision(reanalysisReview, Available(rep))
               /\ feedback' = Feedback("REVIEW_REVISE_AGENT1", reanalysisReview)
          ELSE /\ selected' = Available(rep)
               /\ feedback' = NoFeedback
  /\ usage' = prior.iface
  /\ pc' = "worktree"
  /\ UNCHANGED << loopVars, reanalysisReview, roundVars, iface, prior,
                  artifacts, endVars, live >>

-----------------------------------------------------------------------------
(* The files of a discarded candidate *)

\* They are removed one by one; what is there tells what comes next.
RemoveFile ==
  /\ pc \in Discarding
  /\ \/ /\ artifacts.patch # NoRound
        /\ artifacts' = [artifacts EXCEPT !.patch = NoRound]
     \/ /\ artifacts.patch = NoRound /\ artifacts.interface # NoInterface
        /\ artifacts' = [artifacts EXCEPT !.interface = NoInterface]
     \/ /\ artifacts.patch = NoRound /\ artifacts.interface = NoInterface
        /\ artifacts.review # NoRound
        /\ artifacts' = [artifacts EXCEPT !.review = NoRound, !.verdict = "none"]
     \/ /\ artifacts.patch = NoRound /\ artifacts.interface = NoInterface
        /\ artifacts.review = NoRound /\ artifacts.verification # NoRound
        /\ artifacts' = [artifacts EXCEPT !.verification = NoRound, !.verified = FALSE]
  /\ UNCHANGED << pc, loopVars, report, selected, feedback, reanalysisReview,
                  roundVars, iface, prior, usage, endVars, live >>

DescribeNothing_KeepsUsage ==
  /\ pc \in Discarding
  /\ artifacts = NoArtifacts
  /\ live' = {}
  /\ pc' = IF pc = "withdraw" THEN "withdrawn" ELSE "discarded"
  /\ UNCHANGED << loopVars, report, selected, feedback, reanalysisReview,
                  roundVars, iface, prior, artifacts, usage, endVars >>

\* Then USAGE.md is written again, without interfaces: the discard is complete.
DescribeNothing ==
  /\ pc \in Discarding
  /\ artifacts = NoArtifacts
  /\ usage' = NoInterface
  /\ live' = {}
  /\ pc' = IF pc = "withdraw" THEN "withdrawn" ELSE "discarded"
  /\ UNCHANGED << loopVars, report, selected, feedback, reanalysisReview,
                  roundVars, iface, prior, artifacts, endVars >>

\* Of a reanalysis: every available capability is done afresh, if there is one.
PlanAfresh ==
  /\ pc = "withdrawn"
  /\ \/ /\ Available(report) = {}
        /\ Conclude("NO_PATCH_NEEDED", report)
        /\ UNCHANGED << selected, feedback >>
     \/ /\ Available(report) # {}
        /\ selected' = Available(report)
        /\ feedback' = NoFeedback
        /\ pc' = "worktree"
        /\ UNCHANGED << loopVars, endVars >>
  /\ UNCHANGED << report, reanalysisReview, roundVars, iface, prior, artifacts, usage,
                  live >>

\* Of a patch round in which Agent 2 found a capability invasive.
RetryWithoutInvasive ==
  /\ pc = "discarded"
  /\ invasive # {}
  /\ \/ /\ Available(report) = {}
        /\ Conclude("PARTIAL", report)
        /\ UNCHANGED << selected, feedback >>
     \/ /\ Available(report) # {}
        /\ selected' = Available(report)
        /\ feedback' = Feedback("INVASIVE_REDISCOVERED", invasive)
        /\ NextPatchRound(report)
  /\ UNCHANGED << report, reanalysisReview, roundVars, iface, prior, artifacts, usage,
                  live >>

\* Of a patch round in which Agent 2 changed an existing test.
RetryWithoutTests ==
  /\ pc = "discarded"
  /\ invasive = {}
  /\ selected' = Available(report)
  /\ feedback' = Feedback("EXISTING_TEST_MODIFIED", {})
  /\ NextPatchRound(report)
  /\ UNCHANGED << report, reanalysisReview, roundVars, iface, prior, artifacts, usage,
                  live >>

-----------------------------------------------------------------------------
(* A patch round *)

\* A detached worktree from HEAD with the kept candidate applied to it.
CreateWorktree ==
  /\ pc = "worktree"
  /\ prior.held => prior.patch # {}
  /\ worktree' = IF prior.held THEN prior.patch ELSE {}
  /\ todo' = selected
  /\ revised' = NoInterface
  /\ invasive' = {}
  /\ live' = live \cup {ThisRound}
  /\ pc' = "transform"
  /\ UNCHANGED << loopVars, report, selected, feedback, reanalysisReview,
                  iface, prior, artifacts, usage, endVars >>

\* git apply refuses a candidate without changes: the run raises.
ReplayEmptyCandidate ==
  /\ pc = "worktree"
  /\ prior.held /\ prior.patch = {}
  /\ pc' = "done"
  /\ result' = "INCOMPLETE"
  /\ UNCHANGED << loopVars, report, selected, feedback, reanalysisReview,
                  roundVars, iface, prior, artifacts, usage, unresolved, live >>

\* What Agent 2 must report on when it is called for a unit, no more, no less.
Asked(unit) == Patchable(report, unit)

\* One call of Agent 2.  It may undo and add edits, and reports exactly the
\* PATCHABLE capabilities of its unit, each implemented or rediscovered as
\* invasive; the latter ends the round's calls.
TransformUnit ==
  /\ pc = "transform"
  /\ LET unit == NextUnit(todo)
         asked == Asked(unit)
     IN /\ asked # {}
        /\ revised' = [c \in Transformable |-> IF c \in asked THEN << ThisRound, unit >>
                                                            ELSE revised[c]]
        /\ \E undone \in SUBSET worktree, kinds \in Changes, bad \in SUBSET asked :
             /\ worktree' = (worktree \ undone) \cup ({ThisRound} \X kinds)
             /\ invasive' = bad
             /\ todo' = IF bad = {} THEN todo \ unit ELSE {}
             /\ pc' = IF bad = {} /\ todo # unit THEN "transform" ELSE "inspect"
  /\ UNCHANGED << loopVars, report, selected, feedback, reanalysisReview,
                  iface, prior, artifacts, usage, endVars, live >>

\* The round's entries replace those of the kept report.
MergeInterface ==
  [c \in Transformable |-> IF c \in Described(revised) THEN revised[c] ELSE prior.iface[c]]

\* interface-report.json is written before the candidate is looked at.
WriteInterface ==
  /\ pc = "inspect"
  /\ iface' = MergeInterface
  /\ artifacts' = [artifacts EXCEPT !.interface = MergeInterface]
  /\ pc' = "describe"
  /\ UNCHANGED << loopVars, report, selected, feedback, reanalysisReview,
                  roundVars, prior, usage, endVars, live >>

\* So is USAGE.md.
DescribeInterface ==
  /\ pc = "describe"
  /\ usage' = iface
  /\ pc' = "classify"
  /\ UNCHANGED << loopVars, report, selected, feedback, reanalysisReview,
                  roundVars, iface, prior, artifacts, endVars, live >>

\* Agent 2 found a capability invasive: the whole worktree is void.
DiscardInvasive ==
  /\ pc = "classify"
  /\ invasive # {}
  /\ report' = ApplyRediscovered(report, invasive)
  /\ Discard("discard")
  /\ UNCHANGED << loopVars, selected, feedback, reanalysisReview, roundVars, iface,
                  artifacts, usage, endVars, live >>

\* Agent 2 changed a test that exists at HEAD: the whole worktree is void.
DiscardModifiedTests ==
  /\ pc = "classify"
  /\ invasive = {}
  /\ TouchesExistingTests(worktree)
  /\ Discard("discard")
  /\ UNCHANGED << loopVars, report, selected, feedback, reanalysisReview, roundVars,
                  iface, artifacts, usage, endVars, live >>

\* The candidate is admissible.
AdmitCandidate ==
  /\ pc = "classify"
  /\ invasive = {}
  /\ ~ TouchesExistingTests(worktree)
  /\ pc' = "build"
  /\ UNCHANGED << loopVars, report, selected, feedback, reanalysisReview,
                  roundVars, iface, prior, artifacts, usage, endVars, live >>

\* gofmt is given quoted names as they are, and finds no such file.
FormatAndBuildPass ==
  /\ pc = "build"
  /\ \A e \in worktree : e[2] # "quoted_test"
  /\ pc' = "record"
  /\ UNCHANGED << loopVars, report, selected, feedback, reanalysisReview,
                  roundVars, iface, prior, artifacts, usage, endVars, live >>

\* gofmt or the build fails: the candidate is kept and revised.
FormatOrBuildFail ==
  /\ pc = "build"
  /\ \E failure \in {"FORMAT_FAILED", "BUILD_FAILED"} :
       feedback' = Feedback(failure, {})
  /\ KeepCandidate
  /\ NextPatchRound(report)
  /\ UNCHANGED << report, selected, reanalysisReview, roundVars, iface,
                  artifacts, usage, live >>

-----------------------------------------------------------------------------
(* Review *)

\* changes.patch, patch-metrics.json and interface-report.json are written
\* before the reviewer is called.
RecordCandidate ==
  /\ pc = "record"
  /\ artifacts' = [artifacts EXCEPT !.patch = ThisRound, !.interface = iface]
  /\ pc' = "review"
  /\ UNCHANGED << loopVars, report, selected, feedback, reanalysisReview,
                  roundVars, iface, prior, usage, endVars, live >>

\* The reviewer's answer is written down.
RecordReview(overall) ==
  /\ pc = "review"
  /\ artifacts' = [artifacts EXCEPT !.review = ThisRound, !.verdict = overall]
  /\ usage' = iface

\* The analysis is wrong: back to Agent 1 with the candidate kept.
ReviseAgent1 ==
  /\ RecordReview("REVISE_AGENT1")
  /\ KeepCandidate
  /\ \E named \in Issues : reanalysisReview' = named
  /\ \/ /\ analysisRound < Agent1Rounds
        /\ analysisRound' = analysisRound + 1
        /\ patchRound' = 1
        /\ pc' = "analyze"
        /\ UNCHANGED endVars
     \/ /\ analysisRound = Agent1Rounds
        /\ Conclude("FAILED", report)
  /\ UNCHANGED << report, selected, feedback, roundVars, iface, live >>

\* The implementation is wrong: a revision of what the review names.
ReviseAgent2 ==
  /\ RecordReview("REVISE_AGENT2")
  /\ KeepCandidate
  /\ \E named \in Issues :
       /\ selected' = ReviewRevision(named, Available(report))
       /\ feedback' = Feedback("REVIEW_REVISE_AGENT2", named)
  /\ NextPatchRound(report)
  /\ UNCHANGED << report, reanalysisReview, roundVars, iface, live >>

ReviewNeedsHuman ==
  /\ RecordReview("NEEDS_HUMAN")
  /\ KeepPatch
  /\ Conclude("PARTIAL", report)
  /\ UNCHANGED << report, selected, feedback, reanalysisReview, roundVars,
                  iface, live >>

\* patch ends with the passed review; run goes on to the verifier.
ReviewPasses ==
  /\ RecordReview("PASS")
  /\ KeepPatch
  /\ \/ Verify /\ pc' = "verify" /\ UNCHANGED << loopVars, endVars >>
     \/ ~ Verify /\ Conclude("PASS", report)
  /\ UNCHANGED << report, selected, feedback, reanalysisReview, roundVars,
                  iface, live >>

-----------------------------------------------------------------------------
(* Deterministic verification *)

RecordVerification(passed) ==
  /\ pc = "verify"
  /\ artifacts' = [artifacts EXCEPT !.verification = ThisRound, !.verified = passed]

\* The capabilities the interface report describes are the required ones.
Unchecked == MissingChecks(Described(iface), Checks)
Failures == VerifierFailures(Described(iface), Checks)

VerificationPasses ==
  /\ RecordVerification(TRUE)
  /\ Unchecked = {}
  /\ Conclude("PASS", report)
  /\ UNCHANGED << report, selected, feedback, reanalysisReview, roundVars,
                  iface, prior, usage, live >>

\* A failure of the implementation is fed back to Agent 2; any other ends the run.
VerificationFails ==
  /\ RecordVerification(FALSE)
  /\ \E f \in Failures :
       \/ /\ RouteFailure(f.code) = "AGENT2"
          /\ prior' = [prior EXCEPT !.iface = iface]
          /\ feedback' = Feedback("DETERMINISTIC_VERIFICATION_FAILED", f.about)
          /\ NextPatchRound(report)
       \/ /\ RouteFailure(f.code) # "AGENT2"
          /\ Conclude("PARTIAL", report)
          /\ UNCHANGED << prior, feedback >>
  /\ UNCHANGED << report, selected, reanalysisReview, roundVars, iface, usage,
                  live >>

-----------------------------------------------------------------------------
\* An exception or Ctrl-C at any point: the run is marked INCOMPLETE.
Abort ==
  /\ pc # "done"
  /\ pc' = "done"
  /\ result' = "INCOMPLETE"
  /\ UNCHANGED << loopVars, report, selected, feedback, reanalysisReview,
                  roundVars, iface, prior, artifacts, usage, unresolved, live >>

Step ==
  \/ Baseline
  \/ FirstAnalysis
  \/ ReanalysisFindsNothing
  \/ ReanalysisDropsCandidate
  \/ ReanalysisKeepsCandidate
  \/ RemoveFile
  \/ DescribeNothing
  \/ PlanAfresh
  \/ RetryWithoutInvasive
  \/ RetryWithoutTests
  \/ CreateWorktree
  \/ ReplayEmptyCandidate
  \/ TransformUnit
  \/ WriteInterface
  \/ DescribeInterface
  \/ DiscardInvasive
  \/ DiscardModifiedTests
  \/ AdmitCandidate
  \/ FormatAndBuildPass
  \/ FormatOrBuildFail
  \/ RecordCandidate
  \/ ReviseAgent1
  \/ ReviseAgent2
  \/ ReviewNeedsHuman
  \/ ReviewPasses
  \/ VerificationPasses
  \/ VerificationFails

Next == Step \/ Abort

Spec == Init /\ [][Next]_vars

\* Agents have a step limit and commands a timeout, and Git is taken to end, so every
\* call returns; an abort is never owed.
FairSpec == Spec /\ WF_vars(Step)
=============================================================================
