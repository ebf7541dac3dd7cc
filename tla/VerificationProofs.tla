------------------------- MODULE VerificationProofs -------------------------
(***************************************************************************)
(* The properties of the deterministic verifier for any list of checks and *)
(* of hidden files, and that it implements Verdict.                        *)
(***************************************************************************)
EXTENDS VerificationProperties, TLAPS

\* What is at a destination before, while and after a hidden file is there.
PlacedInv ==
  \A i \in DOMAIN FixtureList :
    /\ i <= placed => FixtureList[i] \notin own /\ disk[FixtureList[i]] \notin {"candidate", "stray"}
    /\ i > placed => disk[FixtureList[i]] \notin {"fixture", "other"}
    /\ i <= placed /\ pc \in {"place", "check"} /\ ran = {} => disk[FixtureList[i]] = "fixture"

\* Where the code is says what it has placed, reported and caught.
PhaseInv ==
  /\ pc \in {"build", "tests", "place", "check"} => report = "none" /\ raised = "none"
  /\ pc \in {"build", "tests"} => placed = 0
  /\ pc \in {"build", "tests", "place"} => ran = {}
  /\ pc = "check" => placed = Len(FixtureList)
  /\ pc = "done" => placed = 0 \/ raised = "cleanup"

\* What a copy left half way comes with the exception.
StrayInv ==
  \A d \in Destinations : disk[d] = "stray" => raised \in {"copy", "cleanup"}

\* A report is one of the verdicts the manifest's checks allow.
ReportInv ==
  /\ report \in {"none"} \cup Abstract!Verdicts
  /\ report = "passed" => raised = "none" /\ Missing = {} /\ Selected \subseteq ran

IInv ==
  /\ TypeOK
  /\ PlacedInv
  /\ PhaseInv
  /\ StrayInv
  /\ CandidateKept
  /\ ReportInv

USE CheckListAssumption, FixtureListAssumption, DistinctAssumption

-----------------------------------------------------------------------------
(* What Verification's definitions say of the check list *)

\* A check of the manifest is an allowed one, a fixture has a destination.
LEMMA CheckListFacts ==
  /\ \A i \in DOMAIN CheckList : CheckList[i] \in AllowedChecks
  /\ DOMAIN FixtureList = 1..Len(FixtureList) /\ Len(FixtureList) \in Nat
  /\ \A i \in DOMAIN FixtureList : FixtureList[i] \in Destinations
BY DEF Destinations

\* The code of a check says that something failed.
LEMMA CodesAreFailures ==
  \A k \in AllowedChecks : k.code \in FailureCode \ {"none", "passed"}
<1>1. \A c \in Transformable : RequiredCheck[c] \in CapabilityFailure
  BY DEF CapabilityFailure
<1>2. \A k \in AllowedChecks : k.code \in CapabilityFailure
  BY <1>1 DEF AllowedChecks, CapabilityFailure
<1>3. CapabilityFailure \subseteq FailureCode \ {"none", "passed"}
  BY DEF CapabilityFailure, FailureCode, RequiredCheck, Transformable, TransformPriority
<1> QED BY <1>2, <1>3

\* Verdict's copies of the definitions of Capabilities are these.
LEMMA SameVerdicts ==
  Abstract!Verdicts =
    {f.code : f \in VerifierFailures(required, Checks)}
      \cup (IF Missing = {} THEN {"passed"} ELSE {})
<1>1. Abstract!MissingChecks(required, Checks) = Missing
  BY DEF Abstract!MissingChecks, Missing, MissingChecks, Abstract!RequiredCheck, RequiredCheck
<1>2. Abstract!VerifierFailures(required, Checks) = VerifierFailures(required, Checks)
  BY <1>1 DEF Abstract!VerifierFailures, VerifierFailures, Missing
<1> QED BY <1>1, <1>2 DEF Abstract!Verdicts

\* A check that is executed and fails is one of the failures of a verdict.
LEMMA FailureIsVerdict ==
  ASSUME NEW i \in Selected, Missing = {}
  PROVE  CheckList[i].code \in Abstract!Verdicts
<1>1. CheckList[i] \in Checks /\ CheckList[i].capability \in required
  BY DEF Selected, Checks
<1> DEFINE f == [code |-> CheckList[i].code, about |-> {CheckList[i].capability}]
<1>2. f \in VerifierFailures(required, Checks)
  BY <1>1 DEF VerifierFailures, Missing
<1>3. f.code = CheckList[i].code
  OBVIOUS
<1> QED BY <1>2, <1>3, SameVerdicts

\* The verdicts that need no check to be executed.
LEMMA BaseIsVerdict ==
  /\ "BUILD_FAILED" \in Abstract!Verdicts
  /\ "REGRESSION_FAILED" \in Abstract!Verdicts
  /\ Missing # {} => "SEMANTIC_AMBIGUITY" \in Abstract!Verdicts
  /\ Missing = {} => "passed" \in Abstract!Verdicts
<1> DEFINE f(code) == [code |-> code, about |-> {}]
<1>1. f("BUILD_FAILED") \in VerifierFailures(required, Checks)
  BY DEF VerifierFailures
<1>2. f("REGRESSION_FAILED") \in VerifierFailures(required, Checks)
  BY DEF VerifierFailures
<1>3. Missing # {} => f("SEMANTIC_AMBIGUITY") \in VerifierFailures(required, Checks)
  BY DEF VerifierFailures, Missing
<1> QED BY <1>1, <1>2, <1>3, SameVerdicts

-----------------------------------------------------------------------------
(* The inductive invariant *)

\* Nothing is placed, reported or caught yet.
LEMMA InitInvariant == Init => IInv
BY CheckListFacts
DEF Init, IInv, TypeOK, PlacedInv, PhaseInv, StrayInv, CandidateKept, ReportInv,
    Destinations, Transformable

\* No step changes which capabilities are implemented.
LEMMA RequiredStays ==
  ASSUME [Next]_vars
  PROVE  /\ required' = required /\ own' = own
         /\ Selected' = Selected
         /\ Missing' = Missing
         /\ (Abstract!Verdicts)' = Abstract!Verdicts
<1>1. required' = required /\ own' = own
  BY DEF vars, Next, Build, Tests, PlaceFixture, PlaceFails, AllPlaced, RemoveFixture, RemoveFails, ChecksMissing, CheckPasses, CheckFails, CheckRaises, AllPass, Return
<1> QED
  BY <1>1 DEF Selected, Missing, Abstract!Verdicts

\* The step of TypeOK.
LEMMA TypeStep ==
  ASSUME TypeOK, [Next]_vars
  PROVE  TypeOK'
<1> USE CheckListFacts, RequiredStays, CodesAreFailures DEF TypeOK, Report, Raise, NextCheck, Destinations
<1>1. CASE UNCHANGED vars
  BY <1>1 DEF vars
<1>2. CASE Build
  BY <1>2 DEF Build, FailureCode
<1>3. CASE Tests
  BY <1>3 DEF Tests, FailureCode
<1>4. CASE PlaceFixture
  BY <1>4 DEF PlaceFixture
<1>5. CASE PlaceFails
  BY <1>5 DEF PlaceFails
<1>6. CASE AllPlaced
  BY <1>6 DEF AllPlaced
<1>7. CASE RemoveFixture
  BY <1>7 DEF RemoveFixture
<1>8. CASE RemoveFails
  BY <1>8 DEF RemoveFails
<1>9. CASE ChecksMissing
  BY <1>9 DEF ChecksMissing, FailureCode
<1>10. CASE CheckPasses
  BY <1>10 DEF CheckPasses, CheckRuns
<1>11. CASE CheckFails
  BY <1>11 DEF CheckFails, CheckRuns
<1>12. CASE CheckRaises
  BY <1>12 DEF CheckRaises, CheckRuns
<1>13. CASE AllPass
  BY <1>13 DEF AllPass
<1>14. CASE Return
  BY <1>14 DEF Return
<1> QED
  BY <1>1, <1>2, <1>3, <1>4, <1>5, <1>6, <1>7, <1>8, <1>9, <1>10, <1>11, <1>12, <1>13, <1>14 DEF Next

\* What is placed, reported and caught follows the phases.
LEMMA PhaseStep ==
  ASSUME TypeOK, PhaseInv, [Next]_vars
  PROVE  PhaseInv'
<1> USE CheckListFacts, RequiredStays DEF TypeOK, PhaseInv, Report, Raise, NextCheck
<1>1. CASE UNCHANGED vars
  BY <1>1 DEF vars
<1>2. CASE Build
  BY <1>2 DEF Build
<1>3. CASE Tests
  BY <1>3 DEF Tests
<1>4. CASE PlaceFixture
  BY <1>4 DEF PlaceFixture
<1>5. CASE PlaceFails
  BY <1>5 DEF PlaceFails
<1>6. CASE AllPlaced
  BY <1>6 DEF AllPlaced
<1>7. CASE RemoveFixture
  BY <1>7 DEF RemoveFixture
<1>8. CASE RemoveFails
  BY <1>8 DEF RemoveFails
<1>9. CASE ChecksMissing
  BY <1>9 DEF ChecksMissing
<1>10. CASE CheckPasses
  BY <1>10 DEF CheckPasses, CheckRuns
<1>11. CASE CheckFails
  BY <1>11 DEF CheckFails, CheckRuns
<1>12. CASE CheckRaises
  BY <1>12 DEF CheckRaises, CheckRuns
<1>13. CASE AllPass
  BY <1>13 DEF AllPass
<1>14. CASE Return
  BY <1>14 DEF Return
<1> QED
  BY <1>1, <1>2, <1>3, <1>4, <1>5, <1>6, <1>7, <1>8, <1>9, <1>10, <1>11, <1>12, <1>13, <1>14 DEF Next

\* What a check leaves at the destinations.
LEMMA CheckLeaves ==
  ASSUME TypeOK, CheckRuns
  PROVE  \A d \in Destinations : disk'[d] \in {disk[d], "nothing", "other"}
BY DEF TypeOK, CheckRuns

\* A copy is remembered with its file, and forgotten with it.
LEMMA FixtureStep ==
  ASSUME TypeOK, PhaseInv, PlacedInv, CandidateKept, [Next]_vars
  PROVE  PlacedInv'
<1> USE CheckListFacts, RequiredStays DEF TypeOK, PhaseInv, PlacedInv, CandidateKept, Destinations
<1>1. CASE UNCHANGED vars
  BY <1>1 DEF vars
<1>2. CASE Build
  BY <1>2 DEF Build
<1>3. CASE Tests
  BY <1>3 DEF Tests
<1>4. CASE PlaceFixture
  BY <1>4 DEF PlaceFixture
<1>5. CASE PlaceFails
  BY <1>5 DEF PlaceFails
<1>6. CASE AllPlaced
  BY <1>6 DEF AllPlaced
<1>7. CASE RemoveFixture
  BY <1>7 DEF RemoveFixture
<1>8. CASE RemoveFails
  BY <1>8 DEF RemoveFails
<1>9. CASE ChecksMissing
  BY <1>9 DEF ChecksMissing
<1>10. CASE CheckPasses
  <2>1. pc = "check" /\ placed' = placed /\ own' = own /\ CheckRuns /\ ran' # {}
    BY <1>10 DEF CheckPasses, NextCheck
  <2>2. \A i \in DOMAIN FixtureList :
          /\ i <= placed => FixtureList[i] \notin own
          /\ disk[FixtureList[i]] \notin {"candidate", "stray"}
          /\ i <= placed
    BY <2>1
  <2>3. \A i \in DOMAIN FixtureList : disk'[FixtureList[i]] \notin {"candidate", "stray"}
    BY <2>1, <2>2, CheckLeaves
  <2> QED
    BY <2>1, <2>2, <2>3
<1>11. CASE CheckFails
  <2>1. pc = "check" /\ placed' = placed /\ own' = own /\ CheckRuns /\ pc' = "clean"
    BY <1>11 DEF CheckFails, NextCheck
  <2> QED
    BY <2>1, CheckLeaves
<1>12. CASE CheckRaises
  <2>1. pc = "check" /\ placed' = placed /\ own' = own /\ CheckRuns /\ pc' = "clean"
    BY <1>12 DEF CheckRaises, NextCheck
  <2> QED
    BY <2>1, CheckLeaves
<1>13. CASE AllPass
  BY <1>13 DEF AllPass
<1>14. CASE Return
  BY <1>14 DEF Return
<1> QED
  BY <1>1, <1>2, <1>3, <1>4, <1>5, <1>6, <1>7, <1>8, <1>9, <1>10, <1>11, <1>12, <1>13, <1>14 DEF Next

\* When the checks run, the candidate has no file where a hidden one is.
LEMMA AtChecks ==
  ASSUME TypeOK, PlacedInv, PhaseInv, pc = "check"
  PROVE  own = {} /\ \A d \in Destinations : disk[d] \notin {"candidate", "stray"}
BY CheckListFacts DEF TypeOK, PlacedInv, PhaseInv, Destinations

\* A file that is not the verifier's stays, and what is left half way is told.
LEMMA CandidateStep ==
  ASSUME TypeOK, PlacedInv, PhaseInv, StrayInv, CandidateKept, [Next]_vars
  PROVE  (StrayInv /\ CandidateKept)'
<1> USE CheckListFacts, RequiredStays DEF TypeOK, PlacedInv, PhaseInv, StrayInv, CandidateKept, Report, Raise
<1>1. CASE UNCHANGED vars
  BY <1>1 DEF vars
<1>2. CASE Build
  BY <1>2 DEF Build
<1>3. CASE Tests
  BY <1>3 DEF Tests
<1>4. CASE PlaceFixture
  BY <1>4 DEF PlaceFixture
<1>5. CASE PlaceFails
  BY <1>5 DEF PlaceFails
<1>6. CASE AllPlaced
  BY <1>6 DEF AllPlaced
<1>7. CASE RemoveFixture
  BY <1>7 DEF RemoveFixture
<1>8. CASE RemoveFails
  BY <1>8 DEF RemoveFails
<1>9. CASE ChecksMissing
  BY <1>9 DEF ChecksMissing
<1>10. CASE CheckPasses
  <2>1. pc = "check" /\ own = {}
    BY <1>10, AtChecks DEF CheckPasses, NextCheck
  <2>2. CheckRuns /\ raised' \in {raised, "command"}
    BY <1>10 DEF CheckPasses
  <2> QED
    BY <2>1, <2>2, CheckLeaves
<1>11. CASE CheckFails
  <2>1. pc = "check" /\ own = {}
    BY <1>11, AtChecks DEF CheckFails, NextCheck
  <2>2. CheckRuns /\ raised' \in {raised, "command"}
    BY <1>11 DEF CheckFails
  <2> QED
    BY <2>1, <2>2, CheckLeaves
<1>12. CASE CheckRaises
  <2>1. pc = "check" /\ own = {}
    BY <1>12, AtChecks DEF CheckRaises, NextCheck
  <2>2. CheckRuns /\ raised' \in {raised, "command"}
    BY <1>12 DEF CheckRaises
  <2> QED
    BY <2>1, <2>2, CheckLeaves
<1>13. CASE AllPass
  BY <1>13 DEF AllPass
<1>14. CASE Return
  BY <1>14 DEF Return
<1> QED
  BY <1>1, <1>2, <1>3, <1>4, <1>5, <1>6, <1>7, <1>8, <1>9, <1>10, <1>11, <1>12, <1>13, <1>14 DEF Next

\* A verdict is reached by the commands it stands for.
LEMMA ReportStep ==
  ASSUME TypeOK, PhaseInv, ReportInv, [Next]_vars
  PROVE  ReportInv'
<1> USE CheckListFacts, RequiredStays, BaseIsVerdict, FailureIsVerdict DEF TypeOK, PhaseInv, ReportInv, Report, Raise, NextCheck
<1>1. CASE UNCHANGED vars
  BY <1>1 DEF vars
<1>2. CASE Build
  BY <1>2 DEF Build
<1>3. CASE Tests
  BY <1>3 DEF Tests
<1>4. CASE PlaceFixture
  BY <1>4 DEF PlaceFixture
<1>5. CASE PlaceFails
  BY <1>5 DEF PlaceFails
<1>6. CASE AllPlaced
  BY <1>6 DEF AllPlaced
<1>7. CASE RemoveFixture
  BY <1>7 DEF RemoveFixture
<1>8. CASE RemoveFails
  BY <1>8 DEF RemoveFails
<1>9. CASE ChecksMissing
  BY <1>9 DEF ChecksMissing
<1>10. CASE CheckPasses
  BY <1>10 DEF CheckPasses, CheckRuns
<1>11. CASE CheckFails
  <2>1. PICK i \in Selected : Missing = {} /\ report' = CheckList[i].code
    BY <1>11 DEF CheckFails, Selected
  <2>2. report' \in Abstract!Verdicts /\ report' # "passed"
    BY <2>1, CodesAreFailures DEF Selected
  <2> QED
    BY <1>11, <2>2 DEF CheckFails
<1>12. CASE CheckRaises
  BY <1>12 DEF CheckRaises, CheckRuns
<1>13. CASE AllPass
  BY <1>13 DEF AllPass
<1>14. CASE Return
  BY <1>14 DEF Return
<1> QED
  BY <1>1, <1>2, <1>3, <1>4, <1>5, <1>6, <1>7, <1>8, <1>9, <1>10, <1>11, <1>12, <1>13, <1>14 DEF Next

\* The invariant holds throughout.
LEMMA Invariant == Spec => []IInv
<1>1. IInv /\ [Next]_vars => IInv'
  BY TypeStep, PhaseStep, FixtureStep, CandidateStep, ReportStep DEF IInv
<1> QED
  BY InitInvariant, <1>1, PTL DEF Spec

-----------------------------------------------------------------------------
(* Theorems *)

\* Every variable of the verifier keeps its type.
THEOREM TypeCorrect == Spec => []TypeOK
<1>1. IInv => TypeOK
  BY DEF IInv
<1> QED BY Invariant, <1>1, PTL

\* No hidden file stays in the worktree, unless its removal or its copy broke off.
THEOREM OracleCorrect == Spec => []OracleLeavesWithVerifier
<1>1. IInv => OracleLeavesWithVerifier
  BY CheckListFacts
  DEF IInv, TypeOK, PlacedInv, PhaseInv, StrayInv, OracleLeavesWithVerifier, Destinations
<1> QED BY Invariant, <1>1, PTL

\* A file of the candidate in the place of a hidden one stays there: the verifier places
\* nothing over it, removes nothing of it and then runs no check.
THEOREM CandidateCorrect == Spec => []CandidateKept
<1>1. IInv => CandidateKept
  BY DEF IInv
<1> QED BY Invariant, <1>1, PTL

\* The first check runs on all of the evaluator's files, and none on the candidate's in
\* their place.
THEOREM ChecksCorrect == Spec => []ChecksSeeOracle
<1>1. IInv => ChecksSeeOracle
  BY CheckListFacts, AtChecks
  DEF IInv, TypeOK, PlacedInv, PhaseInv, CandidateKept, ChecksSeeOracle, Destinations
<1> QED BY Invariant, <1>1, PTL

\* A pass has executed the required check of every implemented capability.
THEOREM VerdictCorrect == Spec => []VerdictIsEarned
<1>1. ASSUME IInv, report = "passed", NEW c \in required
      PROVE  \E i \in ran : CheckList[i] = [capability |-> c, code |-> RequiredCheck[c]]
  <2>1. PICK k \in Checks : k.capability = c /\ k.code = RequiredCheck[c]
    BY <1>1 DEF IInv, ReportInv, Missing, MissingChecks
  <2>2. PICK i \in DOMAIN CheckList : CheckList[i] = k
    BY DEF Checks
  <2>3. i \in ran
    BY <1>1, <2>1, <2>2 DEF IInv, ReportInv, Selected
  <2>4. k = [capability |-> c, code |-> RequiredCheck[c]]
    BY <2>1, <2>2, CheckListFacts DEF AllowedChecks
  <2> QED BY <2>2, <2>3, <2>4
<1>2. IInv => VerdictIsEarned
  BY <1>1 DEF IInv, ReportInv, VerdictIsEarned
<1> QED BY Invariant, <1>2, PTL

\* The verifier implements what the patch loop relies on.
THEOREM Refinement == Spec => VerdictRefined
<1> DEFINE shown == IF pc = "done" THEN report ELSE "none"
<1>1. Init => Abstract!Init
  BY DEF Init, Abstract!Init, Transformable, Abstract!Transformable,
         TransformPriority, Abstract!TransformPriority
<1>2. ASSUME IInv, [Next]_vars
      PROVE  Abstract!Decide \/ UNCHANGED << required, shown >>
  <2>1. pc = "done" => UNCHANGED << pc, report, required >>
    BY <1>2 DEF vars, Next, Build, Tests, PlaceFixture, PlaceFails, AllPlaced,
         RemoveFixture, RemoveFails, ChecksMissing, CheckPasses, CheckFails, NextCheck,
         CheckRaises, AllPass, Return
  <2>2. report' \in {"none"} \cup Abstract!Verdicts
    BY <1>2, ReportStep, RequiredStays DEF IInv, ReportInv
  <2> QED
    BY <1>2, <2>1, <2>2, RequiredStays DEF Abstract!Decide
<1> QED
  BY <1>1, <1>2, Invariant, PTL DEF Spec, VerdictRefined, Abstract!Spec
=============================================================================
