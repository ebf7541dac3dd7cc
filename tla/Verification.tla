---------------------------- MODULE Verification ----------------------------
(***************************************************************************)
(* The deterministic verification of a reviewed candidate                  *)
(* (_verify_with_fixtures, DeterministicVerifier): build and original      *)
(* tests without the evaluator's files, then, between copying these into   *)
(* the worktree and removing them (materialized_fixtures), the capability  *)
(* checks in the manifest's order up to the first failure.                 *)
(*                                                                         *)
(* Commands, the file system and Ctrl-C are the environment.               *)
(*                                                                         *)
(* A definition X_Variant above a definition X is X with a plausible       *)
(* mistake; no action uses it.                                             *)
(***************************************************************************)
EXTENDS Capabilities

CONSTANTS
  CheckList,   \* capability_checks of the manifest
  FixtureList  \* destinations of verification_fixtures

ASSUME CheckListAssumption == CheckList \in Seq(AllowedChecks)
ASSUME FixtureListAssumption == FixtureList \in Seq(STRING)
ASSUME DistinctAssumption ==
  \A i, j \in DOMAIN FixtureList : FixtureList[i] = FixtureList[j] => i = j

VARIABLES
  pc,        \* "build", "tests", "place", "check", "clean" or "done"
  required,  \* required_capabilities: those the interface report implements
  own,       \* the destinations at which the worktree has a file of its own
             \* once the original tests ran
  disk,      \* what is at each destination; "other": what a check put there
  placed,    \* created: how many fixtures, in order, are to be removed
  ran,       \* executions: the checks, by their place in the manifest, that passed
  report,    \* the verification report, its failure code or "passed"
  raised     \* what raised: "none", "command", "copy" or "cleanup"

vars == << pc, required, own, disk, placed, ran, report, raised >>

Destinations == {FixtureList[i] : i \in DOMAIN FixtureList}

Checks == {CheckList[i] : i \in DOMAIN CheckList}

\* selected_checks: the checks of implemented capabilities.
Selected == {i \in DOMAIN CheckList : CheckList[i].capability \in required}

Init ==
  /\ pc = "build"
  /\ required \in SUBSET Transformable
  /\ own \in SUBSET Destinations
  /\ disk = [d \in Destinations |-> IF d \in own THEN "candidate" ELSE "nothing"]
  /\ placed = 0
  /\ ran = {}
  /\ report = "none"
  /\ raised = "none"

Report(verdict) == report' = verdict /\ UNCHANGED raised

\* An exception takes the place of a report.
Raise(what) == report' = "none" /\ raised' = what

-----------------------------------------------------------------------------
(* Build and original tests *)

Build ==
  /\ pc = "build"
  /\ \/ pc' = "tests" /\ UNCHANGED << report, raised >>
     \/ pc' = "done" /\ Report("BUILD_FAILED")
     \/ pc' = "done" /\ Raise("command")
  /\ UNCHANGED << required, own, disk, placed, ran >>

Tests ==
  /\ pc = "tests"
  /\ \/ pc' = "place" /\ UNCHANGED << report, raised >>
     \/ pc' = "done" /\ Report("REGRESSION_FAILED")
     \/ pc' = "done" /\ Raise("command")
  /\ UNCHANGED << required, own, disk, placed, ran >>

-----------------------------------------------------------------------------
(* Fixtures *)

PlaceFixture_Overwrites ==
  /\ pc = "place"
  /\ placed < Len(FixtureList)
  /\ disk' = [disk EXCEPT ![FixtureList[placed + 1]] = "fixture"]
  /\ placed' = placed + 1
  /\ UNCHANGED << pc, required, own, ran, report, raised >>

PlaceFixture ==
  /\ pc = "place"
  /\ placed < Len(FixtureList)
  /\ disk[FixtureList[placed + 1]] = "nothing"
  /\ disk' = [disk EXCEPT ![FixtureList[placed + 1]] = "fixture"]
  /\ placed' = placed + 1
  /\ UNCHANGED << pc, required, own, ran, report, raised >>

\* The destination exists or leaves the worktree, or the copy fails or is
\* interrupted: what it wrote, all or a part of a fixture, is not remembered.
PlaceFails ==
  /\ pc = "place"
  /\ placed < Len(FixtureList)
  /\ \/ UNCHANGED disk
     \/ /\ disk[FixtureList[placed + 1]] = "nothing"
        /\ disk' = [disk EXCEPT ![FixtureList[placed + 1]] = "stray"]
  /\ Raise("copy")
  /\ pc' = "clean"
  /\ UNCHANGED << required, own, placed, ran >>

AllPlaced_First ==
  /\ pc = "place"
  /\ placed = Len(FixtureList) \/ placed > 0
  /\ pc' = "check"
  /\ UNCHANGED << required, own, disk, placed, ran, report, raised >>

AllPlaced ==
  /\ pc = "place"
  /\ placed = Len(FixtureList)
  /\ pc' = "check"
  /\ UNCHANGED << required, own, disk, placed, ran, report, raised >>

\* The finally clause removes what is where the last of the files was copied.
RemoveFixture ==
  /\ pc = "clean"
  /\ placed > 0
  /\ disk' = [disk EXCEPT ![FixtureList[placed]] = "nothing"]
  /\ placed' = placed - 1
  /\ UNCHANGED << pc, required, own, ran, report, raised >>

\* It cannot be removed, or Ctrl-C comes: the others stay as well.
RemoveFails ==
  /\ pc = "clean"
  /\ Raise("cleanup")
  /\ pc' = "done"
  /\ UNCHANGED << required, own, disk, placed, ran >>

Return_Early ==
  /\ pc = "clean"
  /\ placed = 0 \/ raised = "command"
  /\ pc' = "done"
  /\ UNCHANGED << required, own, disk, placed, ran, report, raised >>

Return ==
  /\ pc = "clean"
  /\ placed = 0
  /\ pc' = "done"
  /\ UNCHANGED << required, own, disk, placed, ran, report, raised >>

-----------------------------------------------------------------------------
(* Capability checks *)

Missing == MissingChecks(required, Checks)

\* An implemented capability lacks its check: nothing is executed.
ChecksMissing ==
  /\ pc = "check"
  /\ Missing # {}
  /\ Report("SEMANTIC_AMBIGUITY")
  /\ pc' = "clean"
  /\ UNCHANGED << required, own, disk, placed, ran >>

NextCheck_OfAll(i) ==
  /\ pc = "check" /\ Missing = {}
  /\ i \notin ran /\ \A j \in DOMAIN CheckList : j < i => j \in ran

NextCheck_BeforeMissing(i) ==
  /\ pc = "check"
  /\ i \in Selected \ ran /\ \A j \in Selected : j < i => j \in ran

\* Check i is the first selected one that has not been executed.
NextCheck(i) ==
  /\ pc = "check" /\ Missing = {}
  /\ i \in Selected \ ran /\ \A j \in Selected : j < i => j \in ran

\* A check runs the candidate's code in the worktree, which may remove or replace the
\* hidden files there.
CheckRuns ==
  \E gone, changed \in SUBSET Destinations :
    disk' = [d \in Destinations |-> IF d \in gone THEN "nothing"
                                    ELSE IF d \in changed THEN "other" ELSE disk[d]]

CheckPasses ==
  /\ \E i \in DOMAIN CheckList : NextCheck(i) /\ ran' = ran \cup {i}
  /\ CheckRuns
  /\ UNCHANGED << pc, required, own, placed, report, raised >>

\* The first check that fails, by its exit code or its timeout, ends them.
CheckFails ==
  /\ \E i \in DOMAIN CheckList : NextCheck(i) /\ Report(CheckList[i].code)
  /\ CheckRuns
  /\ pc' = "clean"
  /\ UNCHANGED << required, own, placed, ran >>

\* A command that cannot be split or started, or Ctrl-C.
CheckRaises ==
  /\ pc = "check"
  /\ CheckRuns
  /\ Raise("command")
  /\ pc' = "clean"
  /\ UNCHANGED << required, own, placed, ran >>

AllPass_SkipsLast ==
  /\ pc = "check" /\ Missing = {}
  /\ \A i \in Selected : i \in ran \/ \A j \in Selected : j <= i
  /\ Report("passed")
  /\ pc' = "clean"
  /\ UNCHANGED << required, own, disk, placed, ran >>

AllPass ==
  /\ pc = "check" /\ Missing = {}
  /\ Selected \subseteq ran
  /\ Report("passed")
  /\ pc' = "clean"
  /\ UNCHANGED << required, own, disk, placed, ran >>

Next ==
  \/ Build \/ Tests
  \/ PlaceFixture \/ PlaceFails \/ AllPlaced \/ RemoveFixture \/ RemoveFails
  \/ ChecksMissing \/ CheckPasses \/ CheckFails \/ CheckRaises \/ AllPass
  \/ Return

Spec == Init /\ [][Next]_vars
=============================================================================
