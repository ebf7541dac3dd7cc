------------------------- MODULE WorkflowProperties -------------------------
(***************************************************************************)
(* What the patch loop promises about the candidate it ends with, about    *)
(* the candidates it discards, and about the revisions it asks for.        *)
(***************************************************************************)
EXTENDS Workflow

\* Every variable has its type: rounds stay within the configured limits, and
\* the report keeps one status per capability.
TypeOK ==
  /\ pc \in {"baseline", "analyze", "withdraw", "withdrawn", "worktree", "transform",
             "inspect", "describe", "classify", "discard", "discarded", "build",
             "record", "review", "verify", "done"}
  /\ analysisRound \in 1..Agent1Rounds
  /\ patchRound \in 1..Agent2Rounds
  /\ report \in [CapabilityNames -> Status]
  /\ selected \subseteq CapabilityNames
  /\ feedback \in [failure : Failure, about : SUBSET CapabilityNames]
  /\ reanalysisReview \subseteq CapabilityNames
  /\ worktree \subseteq Edit
  /\ todo \subseteq CapabilityNames
  /\ revised \in Interface
  /\ invasive \subseteq CapabilityNames
  /\ iface \in Interface
  /\ prior \in [held : BOOLEAN, patch : SUBSET Edit, iface : Interface]
  /\ artifacts \in [patch : Round0, interface : Interface, review : Round0,
                    verdict : Overall \cup {"none"}, verification : Round0,
                    verified : BOOLEAN]
  /\ usage \in Interface
  /\ unresolved \subseteq CapabilityNames
  /\ result \in Outcome \cup {"none"}
  /\ live \subseteq Round

-----------------------------------------------------------------------------
(* What a PASS means *)

\* A PASS is about one candidate: changes.patch, the review and, for run, the
\* verification were all made in the last round, the review passed, the
\* interface report on disk is the one reviewed, no test of the target was
\* touched, and every implemented capability had its required check.
PassIsVetted ==
  result = "PASS" =>
    /\ artifacts.patch = ThisRound
    /\ artifacts.review = ThisRound /\ artifacts.verdict = "PASS"
    /\ artifacts.interface = iface
    /\ \A e \in worktree : e[2] = "source"
    /\ Verify => /\ artifacts.verification = ThisRound /\ artifacts.verified
                 /\ \A c \in Described(iface) :
                      [capability |-> c, code |-> RequiredCheck[c]] \in Checks

\* When no reanalysis happened, a PASS accounts for every capability whatever
\* failed on the way: the interface report has what the scope allows and is
\* still PATCHABLE, unresolved.json all else that is not at hand.
PassAccountsForAll ==
  result = "PASS" /\ analysisRound = 1 =>
    /\ Described(artifacts.interface) = Available(report)
    /\ unresolved = {c \in CapabilityNames :
                       /\ report[c] \notin {"SUPPORTED", "NOT_APPLICABLE"}
                       /\ c \notin Described(artifacts.interface)}

-----------------------------------------------------------------------------
(* Discarded candidates *)

\* Nothing of a discarded candidate comes back: the worktree, the candidate
\* kept for the next round, its interfaces, the files in the run directory and
\* USAGE.md only hold what rounds after the last discard produced.  A discard is
\* complete when USAGE.md is written again; a run that is cut short before leaves
\* some of the files.
DiscardedStaysOut ==
  /\ pc \in {"transform", "inspect", "describe", "classify"} =>
       RoundsOf(worktree) \cup RoundsIn(revised) \subseteq live
  /\ pc \in {"describe", "classify", "build", "record", "review", "verify"} =>
       RoundsOf(worktree) \cup RoundsIn(iface) \subseteq live
  /\ pc # "done" => RoundsOf(prior.patch) \cup RoundsIn(prior.iface) \subseteq live
  /\ {artifacts.patch, artifacts.review, artifacts.verification}
       \subseteq live \cup {NoRound}
  /\ RoundsIn(artifacts.interface) \cup RoundsIn(usage) \subseteq live

\* Agent 2 may change a Go test that exists at HEAD in any call, but no candidate
\* that is built, recorded, reviewed or verified does.  One that changes a test whose
\* name Git quotes is not recognised, and is kept and applied again; any other is not.
ExistingTestsUntouched ==
  /\ \A e \in prior.patch : e[2] # "existing_test"
  /\ pc = "build" => \A e \in worktree : e[2] # "existing_test"
  /\ pc \in {"record", "review", "verify"} => \A e \in worktree : e[2] = "source"

\* USAGE.md describes the interface report that is on disk: after a discard, a
\* reanalysis, a revision, and whenever a run ends.  It is the older only between
\* two writes, and if a run is cut short there: then it describes the report that
\* was just replaced, which is the kept candidate's, or the one just discarded.
UsageMatchesInterface ==
  \/ usage = artifacts.interface
  \/ /\ pc \in {"describe"} \cup Discarding \/ result = "INCOMPLETE"
     /\ \/ usage = prior.iface /\ artifacts.interface = iface
        \/ usage = iface /\ artifacts.interface = NoInterface

-----------------------------------------------------------------------------
(* Revisions *)

\* The places of a patch round whose candidate is not given up.
InRound ==
  {"worktree", "transform", "inspect", "describe", "classify", "build", "record",
   "review", "verify"}

\* Agent 2 is only ever asked for, and a kept candidate only ever holds,
\* capabilities that the report in force calls PATCHABLE and the scope allows.
CandidateWithinReport ==
  pc \in InRound =>
    /\ selected # {} /\ selected \subseteq Available(report)
    /\ Described(prior.iface) \subseteq Available(report)

\* Message capture and injection are one unit: an interface report that has
\* both got both from the same call of Agent 2, through every partial revision
\* and every reanalysis that makes one of them available later.  Where both are
\* available, neither is ever revised alone and, as long as no reanalysis made the
\* other available later, neither is all that a candidate has.
MessageControlIsJoint ==
  /\ \A i \in {prior.iface, artifacts.interface} :
       MessageControl \subseteq Described(i) =>
         i["message_capture"] = i["message_injection"]
  /\ pc \in InRound /\ MessageControl \subseteq Available(report) =>
       /\ selected \cap MessageControl \in { {}, MessageControl }
       /\ analysisRound = 1 => Described(prior.iface) \cap MessageControl \in { {}, MessageControl }

\* Agent 2's feedback tells the truth about its worktree: it speaks of an
\* applied candidate exactly when one was re-applied.
FeedbackMatchesWorktree ==
  pc \in {"worktree", "transform"} =>
    (prior.held <=>
       feedback.failure \in {"FORMAT_FAILED", "BUILD_FAILED",
                             "REVIEW_REVISE_AGENT1", "REVIEW_REVISE_AGENT2",
                             "DETERMINISTIC_VERIFICATION_FAILED"})

\* A revision starts from the very candidate that was rejected last, or from
\* HEAD after a discard; never from an older candidate.
RevisionStartsFromLast ==
  [][pc = "worktree" /\ pc' = "transform" =>
       \/ worktree' = worktree /\ live # {}
       \/ worktree' = {} /\ live = {}]_vars

\* The order of the places, within a round.
Place ==
  [baseline |-> 0, analyze |-> 1, withdraw |-> 2, withdrawn |-> 3, worktree |-> 4,
   transform |-> 5, inspect |-> 6, describe |-> 7, classify |-> 8, discard |-> 9,
   discarded |-> 10, build |-> 11, record |-> 12, review |-> 13, verify |-> 14, done |-> 15]

\* The files of a candidate in the run directory.
FilesOf(a) ==
  {f \in {"patch", "review", "verification"} : a[f] # NoRound}
    \cup {f \in {"interface"} : a.interface # NoInterface}

\* Every step comes closer to the end, whatever the limits are: it begins a later
\* round, goes on in this one, leaves less for Agent 2 to do or less to remove; a
\* discard, a failure and a revision consume their round, and nothing follows the end.
StepsAdvance ==
  [][/\ pc # "done"
     /\ \/ analysisRound' > analysisRound
        \/ analysisRound' = analysisRound /\ patchRound' > patchRound
        \/ UNCHANGED loopVars /\ Place[pc'] > Place[pc]
        \/ UNCHANGED << loopVars, pc >> /\ todo' \subseteq todo /\ todo' # todo
        \/ /\ UNCHANGED << loopVars, pc >>
           /\ FilesOf(artifacts') \subseteq FilesOf(artifacts)
           /\ FilesOf(artifacts') # FilesOf(artifacts)]_vars

\* Whatever the agents, the build and the tests answer, the loop ends.
Termination == <>(pc = "done")

-----------------------------------------------------------------------------
(* One candidate *)

\* How Candidate sees the loop.
Abstract ==
  INSTANCE Candidate WITH
    Analyses <- Agent1Rounds,
    Patches <- Agent2Rounds,
    stage <- CASE pc \in {"baseline", "analyze"} -> "planning"
               [] pc \in {"withdraw", "withdrawn"} -> "withdrawn"
               [] pc = "worktree" -> "opening"
               [] pc = "transform" -> "open"
               [] pc \in {"inspect", "describe", "classify"} -> "closed"
               [] pc \in {"discard", "discarded"} -> "voided"
               [] pc = "build" -> "admitted"
               [] pc = "record" -> "built"
               [] pc \in {"review", "verify"} -> "offered"
               [] pc = "done" /\ result = "PASS" -> "delivered"
               [] OTHER -> "dropped",
    round <- ThisRound,
    candidate <- IF pc \in {"baseline", "analyze", "worktree"}
                 THEN IF prior.held THEN RoundsOf(prior.patch) ELSE {}
                 ELSE IF \/ pc \in Discarding \cup {"withdrawn", "discarded"}
                         \/ pc = "done" /\ result # "PASS" THEN {}
                 ELSE RoundsOf(worktree),
    recorded <- artifacts.patch # NoRound

\* The loop handles its candidate as Candidate says, and Worktrees too: what is
\* delivered was admitted, built and offered in its round, and is what was offered;
\* what is discarded is gone from the run directory and from the rounds that follow.
CandidateRefined == Abstract!Spec

-----------------------------------------------------------------------------
(* What the documentation says *)

\* models.py:29-30: later changes of the objects by the workflow, such as
\* INVASIVE_REDISCOVERED, are validated too; so the report stays valid.
ReportStaysValid == ValidReport(report)

\* README.md:276: unresolved.json lists the capabilities not implemented or
\* left out by the experiment's scope.
PassListsUnimplemented ==
  result = "PASS" =>
    \A c \in CapabilityNames :
      report[c] = "PATCHABLE" =>
        c \in unresolved \/ c \in Described(artifacts.interface)

\* README.md:41: a problem the reviewer finds is fed back automatically, and
\* the revision happens in a fresh worktree to which the previous candidate was
\* re-applied; so a reviewed candidate can always be re-applied.
KeptCandidateReplays ==
  pc = "worktree" /\ feedback.failure \in {"REVIEW_REVISE_AGENT1", "REVIEW_REVISE_AGENT2"}
    => prior.patch # {}

\* README.md:271: changes.patch is the final candidate; so it is the change
\* that the interface report of a finished run describes.
ChangesAreFinal ==
  result = "FAILED" /\ artifacts.patch # NoRound =>
    \A r \in RoundsIn(artifacts.interface) :
      r[1] < artifacts.patch[1] \/ (r[1] = artifacts.patch[1] /\ r[2] <= artifacts.patch[2])
=============================================================================
