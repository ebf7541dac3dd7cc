-------------------------- MODULE WorkflowRefinement -------------------------
(***************************************************************************)
(* Proofs, for all limits, scopes, reports, changes, issues and checks,    *)
(* that every step of the patch loop comes closer to its end, and that the *)
(* loop handles its candidate as the module Candidate says.                *)
(***************************************************************************)
EXTENDS WorkflowProofs

-----------------------------------------------------------------------------
(* Every step advances *)

\* The two ways on from a round: a later round, or the end.
LEMMA RoundsAdvance ==
  ASSUME TypeOK
  PROVE  /\ \A rep : NextPatchRound(rep) =>
              \/ /\ patchRound < Agent2Rounds
                 /\ patchRound' = patchRound + 1 /\ analysisRound' = analysisRound
                 /\ pc' = "worktree" /\ result' = result
              \/ pc' = "done" /\ result' = "FAILED" /\ UNCHANGED loopVars
         /\ \A o, rep : Conclude(o, rep) =>
              pc' = "done" /\ result' = o /\ UNCHANGED loopVars
<1>1. \A o, rep : Conclude(o, rep) =>
        pc' = "done" /\ result' = o /\ UNCHANGED loopVars
  BY DEF Conclude
<1>2. ASSUME NEW rep, NextPatchRound(rep)
      PROVE  \/ /\ patchRound < Agent2Rounds
                /\ patchRound' = patchRound + 1 /\ analysisRound' = analysisRound
                /\ pc' = "worktree" /\ result' = result
             \/ pc' = "done" /\ result' = "FAILED" /\ UNCHANGED loopVars
  BY <1>1, <1>2, LimitsAssumption DEF NextPatchRound, LastPatchRound, endVars, TypeOK
<1>. QED
  BY <1>1, <1>2

\* A call of Agent 2 leaves less to do, or ends the calls of the round.
LEMMA CallsAdvance ==
  ASSUME TypeOK, TransformUnit
  PROVE  /\ UNCHANGED loopVars /\ pc = "transform"
         /\ pc' = "inspect" \/ (pc' = pc /\ todo' \subseteq todo /\ todo' # todo)
<1>1. PICK bad \in SUBSET Asked(NextUnit(todo)) :
        /\ todo' = IF bad = {} THEN todo \ NextUnit(todo) ELSE {}
        /\ pc' = IF bad = {} /\ todo # NextUnit(todo) THEN "transform" ELSE "inspect"
  BY DEF TransformUnit
<1>2. pc = "transform" /\ UNCHANGED loopVars
  BY DEF TransformUnit
<1>3. NextUnit(todo) # {}
  BY DEF TransformUnit, Asked, Patchable
<1>. QED
  BY <1>1, <1>2, <1>3, NextUnitIsRemaining

\* A removal leaves fewer files of the discarded candidate.
LEMMA RemovalsAdvance ==
  ASSUME TypeOK, RemoveFile
  PROVE  /\ UNCHANGED << loopVars, pc >>
         /\ FilesOf(artifacts') \subseteq FilesOf(artifacts)
         /\ FilesOf(artifacts') # FilesOf(artifacts)
<1>. DEFINE Files(p, i, r, v) ==
              {f \in {"patch"} : p # NoRound} \cup {f \in {"review"} : r # NoRound}
                \cup {f \in {"verification"} : v # NoRound}
                \cup {f \in {"interface"} : i # NoInterface}
<1>a. \A a \in [patch : Round0, interface : Interface, review : Round0,
               verdict : Overall \cup {"none"}, verification : Round0, verified : BOOLEAN] :
        FilesOf(a) = Files(a.patch, a.interface, a.review, a.verification)
  BY DEF FilesOf
<1>1. UNCHANGED << loopVars, pc >>
  BY DEF RemoveFile
<1>2. /\ artifacts' \in [patch : Round0, interface : Interface, review : Round0,
                         verdict : Overall \cup {"none"}, verification : Round0,
                         verified : BOOLEAN]
      /\ \/ /\ artifacts.patch # NoRound /\ artifacts'.patch = NoRound
            /\ artifacts'.interface = artifacts.interface
            /\ artifacts'.review = artifacts.review
            /\ artifacts'.verification = artifacts.verification
         \/ /\ artifacts.interface # NoInterface /\ artifacts'.interface = NoInterface
            /\ artifacts'.patch = artifacts.patch
            /\ artifacts'.review = artifacts.review
            /\ artifacts'.verification = artifacts.verification
         \/ /\ artifacts.review # NoRound /\ artifacts'.review = NoRound
            /\ artifacts'.patch = artifacts.patch
            /\ artifacts'.interface = artifacts.interface
            /\ artifacts'.verification = artifacts.verification
         \/ /\ artifacts.verification # NoRound /\ artifacts'.verification = NoRound
            /\ artifacts'.patch = artifacts.patch
            /\ artifacts'.interface = artifacts.interface
            /\ artifacts'.review = artifacts.review
  BY RoundTypes DEF RemoveFile, TypeOK
<1>3. /\ FilesOf(artifacts) = Files(artifacts.patch, artifacts.interface,
                                   artifacts.review, artifacts.verification)
      /\ FilesOf(artifacts') = Files(artifacts'.patch, artifacts'.interface,
                                    artifacts'.review, artifacts'.verification)
  BY <1>a, <1>2 DEF TypeOK
<1>. QED
  BY <1>1, <1>2, <1>3

\* Every step begins a later round, goes on in this one or leaves less for Agent 2
\* to do or less to remove, and none follows the end: the loop cannot run in circles, whatever the
\* agents, the builds and the tests answer.
THEOREM Advance == Spec => StepsAdvance
<1>1. TypeOK /\ Next =>
        /\ pc # "done"
        /\ \/ analysisRound' > analysisRound
           \/ analysisRound' = analysisRound /\ patchRound' > patchRound
           \/ UNCHANGED loopVars /\ Place[pc'] > Place[pc]
           \/ UNCHANGED << loopVars, pc >> /\ todo' \subseteq todo /\ todo' # todo
           \/ /\ UNCHANGED << loopVars, pc >>
              /\ FilesOf(artifacts') \subseteq FilesOf(artifacts)
              /\ FilesOf(artifacts') # FilesOf(artifacts)
  <2> SUFFICES ASSUME TypeOK, Next
               PROVE  /\ pc # "done"
                      /\ \/ analysisRound' > analysisRound
                         \/ analysisRound' = analysisRound /\ patchRound' > patchRound
                         \/ UNCHANGED loopVars /\ Place[pc'] > Place[pc]
                         \/ UNCHANGED << loopVars, pc >> /\ todo' \subseteq todo /\ todo' # todo
                         \/ /\ UNCHANGED << loopVars, pc >>
                            /\ FilesOf(artifacts') \subseteq FilesOf(artifacts)
                            /\ FilesOf(artifacts') # FilesOf(artifacts)
    OBVIOUS
  <2>1. CASE TransformUnit
    BY <2>1, CallsAdvance DEF Place
  <2>2. CASE \/ Baseline \/ CreateWorktree \/ ReplayEmptyCandidate \/ WriteInterface
             \/ DescribeInterface \/ AdmitCandidate \/ FormatAndBuildPass
             \/ RecordCandidate \/ Abort
    BY <2>2 DEF Baseline, CreateWorktree, ReplayEmptyCandidate, WriteInterface,
                DescribeInterface, AdmitCandidate, FormatAndBuildPass, RecordCandidate,
                Abort, Place, TypeOK
  <2>3. CASE \/ FirstAnalysis \/ ReanalysisFindsNothing \/ ReanalysisDropsCandidate
             \/ ReanalysisKeepsCandidate
    BY <2>3, RoundsAdvance
    DEF FirstAnalysis, ReanalysisFindsNothing, ReanalysisDropsCandidate,
        ReanalysisKeepsCandidate, Discard, Place
  <2>7. CASE RemoveFile
    BY <2>7, RemovalsAdvance DEF RemoveFile, Discarding
  <2>8. CASE DescribeNothing \/ DiscardInvasive \/ DiscardModifiedTests
    BY <2>8 DEF DescribeNothing, Discarding, DiscardInvasive, DiscardModifiedTests, Discard,
                Place
  <2>9. CASE PlanAfresh
    BY <2>9, RoundsAdvance DEF PlanAfresh, Place
  <2>4. CASE \/ RetryWithoutInvasive \/ RetryWithoutTests \/ FormatOrBuildFail
             \/ ReviseAgent2 \/ VerificationFails
    <3>1. /\ pc \in {"discarded", "build", "review", "verify"}
          /\ \/ \E rep : NextPatchRound(rep)
             \/ \E o, rep : Conclude(o, rep)
      BY <2>4 DEF RetryWithoutInvasive, RetryWithoutTests, FormatOrBuildFail, ReviseAgent2,
                  RecordReview, VerificationFails, RecordVerification
    <3>. QED
      BY <3>1, RoundsAdvance DEF Place, TypeOK
  <2>5. CASE ReviseAgent1
    BY <2>5, RoundsAdvance DEF ReviseAgent1, RecordReview, Place, TypeOK
  <2>6. CASE ReviewNeedsHuman \/ ReviewPasses \/ VerificationPasses
    BY <2>6, RoundsAdvance
    DEF ReviewNeedsHuman, ReviewPasses, VerificationPasses, RecordReview,
        RecordVerification, Place
  <2>. QED
    BY <2>1, <2>2, <2>3, <2>4, <2>5, <2>6, <2>7, <2>8, <2>9 DEF Next, Step
<1>. QED
  BY <1>1, TypeCorrect, PTL DEF Spec, StepsAdvance

-----------------------------------------------------------------------------
(* The candidate *)

USE DEF Discarding

\* How Candidate sees a state of the loop.
Stage ==
  CASE pc \in {"baseline", "analyze"} -> "planning"
    [] pc \in {"withdraw", "withdrawn"} -> "withdrawn"
    [] pc = "worktree" -> "opening"
    [] pc = "transform" -> "open"
    [] pc \in {"inspect", "describe", "classify"} -> "closed"
    [] pc \in {"discard", "discarded"} -> "voided"
    [] pc = "build" -> "admitted"
    [] pc = "record" -> "built"
    [] pc \in {"review", "verify"} -> "offered"
    [] pc = "done" /\ result = "PASS" -> "delivered"
    [] OTHER -> "dropped"
CandidateRounds ==
  IF pc \in {"baseline", "analyze", "worktree"}
  THEN IF prior.held THEN RoundsOf(prior.patch) ELSE {}
  ELSE IF \/ pc \in Discarding \cup {"withdrawn", "discarded"}
          \/ pc = "done" /\ result # "PASS" THEN {}
  ELSE RoundsOf(worktree)
Recorded == artifacts.patch # NoRound
seen == << Stage, ThisRound, CandidateRounds, Recorded >>

\* The loop's way on is the candidate's: a later round, or its end.
LEMMA RoundsRefine ==
  ASSUME TypeOK, NEW rep, NextPatchRound(rep)
  PROVE  \/ Abstract!NextPatchRound /\ pc' = "worktree"
         \/ /\ Abstract!Finish
            /\ pc' = "done" /\ result' # "PASS"
BY RoundsAdvance DEF Abstract!NextPatchRound, Abstract!Finish, ThisRound, loopVars

LEMMA EndRefines ==
  ASSUME TypeOK, NEW o \in {"NO_PATCH_NEEDED", "PARTIAL", "FAILED"}, NEW rep, Conclude(o, rep)
  PROVE  Abstract!Finish
BY RoundsAdvance DEF Abstract!Finish, ThisRound, loopVars

\* Analyses: the candidate stays, or nothing of it does.
LEMMA PlanRefines ==
  ASSUME TypeOK, UsageInv,
         \/ Baseline \/ FirstAnalysis \/ ReanalysisFindsNothing
         \/ ReanalysisDropsCandidate \/ ReanalysisKeepsCandidate
  PROVE  Abstract!Next \/ UNCHANGED seen
<1>. USE DEF loopVars
<1>a. NoPrior.held = FALSE /\ NoArtifacts.patch = NoRound
  BY DEF NoPrior, NoArtifacts
<1>1. CASE Baseline
  <2>1. prior.held = FALSE
    BY <1>1, <1>a DEF Baseline, UsageInv, BeginsEmpty
  <2>2. CASE pc' = "analyze"
    BY <1>1, <2>2 DEF Baseline, seen, Stage, ThisRound, CandidateRounds, Recorded
  <2>3. CASE pc' = "done" /\ result' = "FAILED"
    <3>. Abstract!Stop
      BY <1>1, <2>1, <2>3 DEF Baseline, Abstract!Stop, Abstract!Finish, ThisRound
    <3>. QED
      BY DEF Abstract!Next
  <2>. QED
    BY <1>1, <2>2, <2>3 DEF Baseline
<1>2. CASE FirstAnalysis
  <2>1. /\ pc = "analyze" /\ prior.held = FALSE
        /\ UNCHANGED << prior, artifacts, analysisRound, patchRound >>
        /\ \/ pc' = "worktree"
           \/ pc' = "done" /\ result' = "NO_PATCH_NEEDED"
    BY <1>2, <1>a DEF FirstAnalysis, UsageInv, BeginsEmpty, Conclude
  <2>2. CASE pc' = "worktree"
    BY <2>1, <2>2 DEF Abstract!Plan, Abstract!Next, ThisRound
  <2>3. CASE pc' = "done" /\ result' = "NO_PATCH_NEEDED"
    BY <2>1, <2>3 DEF Abstract!Stop, Abstract!Finish, Abstract!Next, ThisRound
  <2>. QED
    BY <2>1, <2>2, <2>3
<1>3. CASE ReanalysisFindsNothing
  <2>1. /\ pc = "analyze"
        /\ UNCHANGED << analysisRound, patchRound, artifacts >>
        /\ \/ pc' = "withdraw"
           \/ pc' = "done" /\ result' = "NO_PATCH_NEEDED"
    BY <1>3 DEF ReanalysisFindsNothing, Conclude, Discard
  <2>2. CASE pc' = "withdraw"
    BY <2>1, <2>2 DEF Abstract!Void, Abstract!Next, Discarding, ThisRound
  <2>3. CASE pc' = "done" /\ result' = "NO_PATCH_NEEDED"
    BY <2>1, <2>3 DEF Abstract!Stop, Abstract!Finish, Abstract!Next, ThisRound
  <2>. QED
    BY <2>1, <2>2, <2>3
<1>4. CASE ReanalysisDropsCandidate
  BY <1>4 DEF ReanalysisDropsCandidate, Discard, Discarding, Abstract!Void,
              Abstract!Next, ThisRound
<1>5. CASE ReanalysisKeepsCandidate
  BY <1>5 DEF ReanalysisKeepsCandidate, Abstract!Plan, Abstract!Next, ThisRound
<1>. QED
  BY <1>1, <1>2, <1>3, <1>4, <1>5

\* What is discarded is removed, and the loop goes on without it or ends.
LEMMA DiscardRefines ==
  ASSUME TypeOK, UsageInv,
         \/ RemoveFile \/ DescribeNothing \/ PlanAfresh
         \/ RetryWithoutInvasive \/ RetryWithoutTests
  PROVE  Abstract!Next
<1>a. NoPrior.held = FALSE /\ NoArtifacts.patch = NoRound
  BY DEF NoPrior, NoArtifacts
<1>1. CASE RemoveFile \/ DescribeNothing
  <2>1. /\ artifacts'.patch = NoRound
        /\ pc \in Discarding /\ UNCHANGED << analysisRound, patchRound >>
        /\ \/ pc' = pc
           \/ pc = "withdraw" /\ pc' = "withdrawn"
           \/ pc = "discard" /\ pc' = "discarded"
    BY <1>1, <1>a DEF RemoveFile, DescribeNothing, Discarding, loopVars, TypeOK
  <2>. QED
    BY <2>1 DEF Abstract!Remove, Abstract!Next, Discarding, ThisRound
<1>2. CASE PlanAfresh
  <2>1. /\ pc = "withdrawn" /\ prior = NoPrior /\ artifacts = NoArtifacts
        /\ UNCHANGED << prior, artifacts, analysisRound, patchRound >>
        /\ \/ pc' = "worktree"
           \/ pc' = "done" /\ result' = "NO_PATCH_NEEDED"
    BY <1>2 DEF PlanAfresh, Conclude, loopVars, UsageInv, Written
  <2>2. CASE pc' = "worktree"
    BY <1>a, <2>1, <2>2 DEF Abstract!Plan, Abstract!Forget, Abstract!Next, ThisRound
  <2>3. CASE pc' = "done" /\ result' = "NO_PATCH_NEEDED"
    BY <2>1, <2>3 DEF Abstract!Stop, Abstract!Finish, Abstract!Next, ThisRound
  <2>. QED
    BY <2>1, <2>2, <2>3
<1>3. CASE RetryWithoutInvasive \/ RetryWithoutTests
  <2>1. /\ pc = "discarded" /\ prior = NoPrior /\ artifacts = NoArtifacts
        /\ UNCHANGED << prior, artifacts >>
    BY <1>3 DEF RetryWithoutInvasive, RetryWithoutTests, UsageInv, Written
  <2>2. \/ Conclude("PARTIAL", report)
        \/ \E rep : NextPatchRound(rep)
    BY <1>3 DEF RetryWithoutInvasive, RetryWithoutTests
  <2>3. CASE pc' = "worktree" /\ Abstract!NextPatchRound
    BY <1>a, <2>1, <2>3 DEF Abstract!Drop, Abstract!Forget, Abstract!Next
  <2>4. CASE Abstract!Finish
    BY <1>a, <2>1, <2>4 DEF Abstract!Stop, Abstract!Next
  <2>. QED
    BY <2>2, <2>3, <2>4, RoundsRefine, EndRefines
<1>. QED
  BY <1>1, <1>2, <1>3

\* A round opens the candidate, Agent 2 changes it, and it is given up or admitted.
LEMMA RoundRefines ==
  ASSUME TypeOK,
         \/ CreateWorktree \/ ReplayEmptyCandidate \/ TransformUnit
         \/ WriteInterface \/ DescribeInterface
         \/ DiscardInvasive \/ DiscardModifiedTests \/ AdmitCandidate
  PROVE  Abstract!Next \/ UNCHANGED seen
<1>. USE DEF loopVars
<1>1. CASE CreateWorktree
  BY <1>1, RoundsOfNothing DEF CreateWorktree, Abstract!Open, Abstract!Next, ThisRound
<1>2. CASE ReplayEmptyCandidate
  BY <1>2 DEF ReplayEmptyCandidate, Abstract!Stop, Abstract!Finish, Abstract!Next, ThisRound
<1>3. CASE TransformUnit
  <2>1. /\ pc = "transform" /\ pc' \in {"transform", "inspect"}
        /\ UNCHANGED << analysisRound, patchRound, artifacts >>
    BY <1>3 DEF TransformUnit
  <2>2. RoundsOf(worktree') \subseteq {ThisRound} \cup RoundsOf(worktree)
    BY <1>3, RoundsOfTransform DEF TransformUnit
  <2>. QED
    BY <2>1, <2>2 DEF Abstract!Edit, Abstract!Next, ThisRound
<1>4. CASE DiscardInvasive \/ DiscardModifiedTests
  BY <1>4 DEF DiscardInvasive, DiscardModifiedTests, Discard, Discarding, Abstract!Void,
              Abstract!Next, ThisRound
<1>5. CASE WriteInterface \/ DescribeInterface
  <2>1. artifacts'.patch = artifacts.patch
    BY <1>5 DEF WriteInterface, DescribeInterface, TypeOK
  <2>. QED
    BY <1>5, <2>1 DEF WriteInterface, DescribeInterface, roundVars, Discarding, seen, Stage,
                      CandidateRounds, Recorded, ThisRound
<1>6. CASE AdmitCandidate
  BY <1>6 DEF AdmitCandidate, roundVars, Discarding, Abstract!Admit, Abstract!Next, ThisRound
<1>. QED
  BY <1>1, <1>2, <1>3, <1>4, <1>5, <1>6

\* An admitted candidate is built and recorded, or kept for the next round.
LEMMA BuildRefines ==
  ASSUME TypeOK, FormatAndBuildPass \/ FormatOrBuildFail \/ RecordCandidate
  PROVE  Abstract!Next
<1>1. CASE FormatAndBuildPass
  BY <1>1 DEF FormatAndBuildPass, roundVars, loopVars, Abstract!Build, Abstract!Next, ThisRound
<1>2. CASE FormatOrBuildFail
  <2>1. /\ pc = "build" /\ UNCHANGED artifacts
        /\ prior'.held /\ prior'.patch = worktree
        /\ NextPatchRound(report)
    BY <1>2 DEF FormatOrBuildFail, KeepCandidate
  <2>2. CASE pc' = "worktree" /\ Abstract!NextPatchRound
    BY <2>1, <2>2 DEF Abstract!Retry, Abstract!Next
  <2>3. CASE Abstract!Finish
    BY <2>1, <2>3 DEF Abstract!Stop, Abstract!Next
  <2>. QED
    BY <2>1, <2>2, <2>3, RoundsRefine
<1>3. CASE RecordCandidate
  <2>1. artifacts'.patch # NoRound
    BY <1>3, RoundTypes DEF RecordCandidate, TypeOK
  <2>. QED
    BY <1>3, <2>1 DEF RecordCandidate, roundVars, loopVars, Abstract!Offer, Abstract!Next, ThisRound
<1>. QED
  BY <1>1, <1>2, <1>3

\* What was offered is revised, analysed again, delivered or left, as it was offered.
LEMMA ReviewRefines ==
  ASSUME TypeOK, RevisionInv,
         \/ ReviseAgent1 \/ ReviseAgent2 \/ ReviewNeedsHuman \/ ReviewPasses
         \/ VerificationPasses \/ VerificationFails
  PROVE  Abstract!Next \/ UNCHANGED seen
<1>. USE DEF roundVars
<1>1. pc \in {"review", "verify"} /\ UNCHANGED worktree
  BY DEF ReviseAgent1, ReviseAgent2, ReviewNeedsHuman, ReviewPasses, VerificationPasses,
         VerificationFails, RecordReview, RecordVerification
<1>2. artifacts'.patch = artifacts.patch
  <2>1. (\E overall : RecordReview(overall)) \/ (\E passed : RecordVerification(passed))
    BY DEF ReviseAgent1, ReviseAgent2, ReviewNeedsHuman, ReviewPasses, VerificationPasses,
           VerificationFails
  <2>. QED
    BY <2>1 DEF RecordReview, RecordVerification, TypeOK
<1>3. CASE ReviseAgent1
  <2>1. prior'.held /\ prior'.patch = worktree
    BY <1>3 DEF ReviseAgent1, KeepCandidate
  <2>2. CASE /\ analysisRound < Agent1Rounds
             /\ analysisRound' = analysisRound + 1 /\ patchRound' = 1 /\ pc' = "analyze"
    BY <1>1, <1>2, <2>1, <2>2 DEF Abstract!Reanalyse, Abstract!Next, ThisRound
  <2>3. CASE Conclude("FAILED", report)
    <3>. Abstract!Finish
      BY <2>3, EndRefines
    <3>. QED
      BY <1>1, <1>2 DEF Abstract!Stop, Abstract!Next
  <2>. QED
    BY <1>3, <2>2, <2>3 DEF ReviseAgent1
<1>4. CASE ReviseAgent2 \/ (VerificationFails /\ NextPatchRound(report))
  <2>1. prior'.held /\ prior'.patch = worktree
    BY <1>4, RoundsAdvance
    DEF ReviseAgent2, KeepCandidate, VerificationFails, RecordVerification, RevisionInv,
        Replays, TypeOK
  <2>2. NextPatchRound(report)
    BY <1>4 DEF ReviseAgent2
  <2>3. CASE pc' = "worktree" /\ Abstract!NextPatchRound
    BY <1>1, <1>2, <2>1, <2>3 DEF Abstract!Revise, Abstract!Next
  <2>4. CASE Abstract!Finish
    BY <1>1, <1>2, <2>4 DEF Abstract!Stop, Abstract!Next
  <2>. QED
    BY <2>2, <2>3, <2>4, RoundsRefine
<1>5. CASE Conclude("PARTIAL", report)
  <2>. Abstract!Finish
    BY <1>5, EndRefines
  <2>. QED
    BY <1>1, <1>2 DEF Abstract!Stop, Abstract!Next
<1>6. CASE pc' = "done" /\ result' = "PASS" /\ UNCHANGED loopVars
  BY <1>1, <1>2, <1>6 DEF loopVars, Abstract!Deliver, Abstract!Next, ThisRound
<1>7. CASE pc' = "verify" /\ UNCHANGED loopVars
  BY <1>1, <1>2, <1>7 DEF loopVars, seen, Stage, CandidateRounds, Recorded, ThisRound
<1>. QED
  BY <1>3, <1>4, <1>5, <1>6, <1>7, RoundsAdvance
  DEF ReviewNeedsHuman, ReviewPasses, VerificationPasses, VerificationFails

\* The patch loop handles its candidate as Candidate says, for all limits and whatever
\* the agents, the builds and the tests answer: what it delivers was admitted, built
\* and offered in one round, and is what was offered.
THEOREM Refinement == Spec => CandidateRefined
<1>1. Init => Abstract!Init
  BY DEF Init, Abstract!Init, ThisRound, NoPrior, NoArtifacts
<1>2. TypeOK /\ UsageInv /\ RevisionInv /\ [Next]_vars => Abstract!Next \/ UNCHANGED seen
  <2> SUFFICES ASSUME TypeOK, UsageInv, RevisionInv, [Next]_vars
               PROVE  Abstract!Next \/ UNCHANGED seen
    OBVIOUS
  <2>1. CASE Abort
    BY <2>1 DEF Abort, loopVars, TypeOK, Abstract!Stop, Abstract!Finish, Abstract!Next, ThisRound
  <2>2. CASE UNCHANGED vars
    BY <2>2 DEF vars, seen, Stage, CandidateRounds, Recorded, ThisRound
  <2>. QED
    BY <2>1, <2>2, PlanRefines, DiscardRefines, RoundRefines, BuildRefines, ReviewRefines DEF Next, Step
<1>. QED
  BY <1>1, <1>2, TypeCorrect, UsageInvariant, RevisionInvariant, PTL
  DEF Spec, CandidateRefined, Abstract!Spec, Abstract!vars, seen, Stage, CandidateRounds, Recorded

\* What the loop discards or lets Agent 2 undo is gone for good: once a round is over
\* and the candidate has no edit of it, none comes back, in a revision or after a
\* reanalysis, nor in what is delivered.
THEOREM DiscardedForGood ==
  ASSUME NEW r \in Nat \X Nat
  PROVE  Spec => [](Abstract!Gone(r) => []Abstract!Gone(r))
BY Refinement, Abstract!GoneForGood, PTL DEF CandidateRefined
=============================================================================
