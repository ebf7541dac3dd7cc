---------------------------- MODULE RunLifecycle ----------------------------
(***************************************************************************)
(* A ConsensusSeam command from its run directory to its exit code         *)
(* (ConsensusWorkflow._with_artifacts, cli.main) and the replacement of    *)
(* the project's snapshot runs/latest/<project> by a completed run         *)
(* (ArtifactStore.publish_latest).                                         *)
(*                                                                         *)
(* Runs of one project share the snapshot and its backup on disk, and the  *)
(* directory in which each makes its own.  Every look at and every change  *)
(* of these is a step of its own; a run may be interrupted once (Ctrl-C),  *)
(* or killed, before any of them.                                          *)
(*                                                                         *)
(* A definition X_Variant above a definition X is X with a plausible       *)
(* mistake; no action uses it.                                             *)
(***************************************************************************)
EXTENDS Naturals, FiniteSets

CONSTANTS
  Runs,       \* the runs of one project
  MaxActive,  \* how many of them may be active at a time
  Outcomes    \* the outcomes the operation may return

ASSUME RunsAssumption == IsFiniteSet(Runs)
ASSUME MaxActiveAssumption == MaxActive \in Nat \ {0}
ASSUME OutcomesAssumption ==
  Outcomes \subseteq {"ANALYZED", "NO_PATCH_NEEDED", "PASS", "PARTIAL", "FAILED"}

VARIABLES
  pc,           \* where each run is
  files,        \* the files in each run's directory
  outcome,      \* the outcome its operation returned
  completed,    \* completed
  raised,       \* the exception in flight: "none", "error" or "interrupt"
  interrupted,  \* Ctrl-C was pressed already
  staging,      \* each run's staging directory
  latest,       \* runs/latest/<project>
  backup,       \* runs/latest/.<project>.backup
  exit,         \* each command's exit code
  directory,    \* the name of each run's directory
  made,         \* the names of the run directories on disk
  unwritten,    \* history: the runs that failed to write a mark or their costs
  installed,    \* history: the run whose snapshot was installed last
  published,    \* history: the runs whose snapshot was installed
  overlapped    \* history: two runs were active at the same time

localVars == << pc, files, outcome, completed, raised, interrupted, staging, exit >>
diskVars == << latest, backup >>
history == << unwritten, installed, published >>
creation == << directory, made, overlapped >>
vars == << localVars, diskVars, history, creation >>

-----------------------------------------------------------------------------
(* Values *)

\* A run directory also holds the worktrees of its patch rounds.
File == {"config", "worktree", "result", "failure", "stats", "audit"}

\* The directories of the snapshot: absent, or a copy of a run's files without
\* its worktrees, of which any part may already be removed.
Absent == [run |-> "none", files |-> {}, whole |-> FALSE]
Snapshot(r) == [run |-> r, files |-> files[r] \ {"worktree"}, whole |-> TRUE]
Torn(dir, left) == [run |-> dir.run, files |-> left, whole |-> FALSE]
Exists(dir) == dir # Absent

\* A directory may be moved where there is none, or an empty one.
Free(dir) == dir.files = {}

Staging == {"none", "partial", "ready"}

\* The steps of publish_latest, each before what it is named for.
Publishing ==
  {"stage", "findBackup", "findLatest", "dropBackup", "emptyBackup",
   "restoreBackup", "haveLatest", "moveLatest", "install", "rollBack",
   "lookAgain", "moveBack", "removeBackup", "finishBackup"}

\* Exit codes that no command returns: still running, and killed.
Running == 256
Killed == 137

Active == {r \in Runs : pc[r] \notin {"idle", "exited"}}

ExitCode_Adds(r) ==
  (CASE raised[r] = "interrupt" -> 130
     [] raised[r] = "error" -> 2
     [] OTHER -> 0) + (IF outcome[r] \in {"FAILED", "PARTIAL"} THEN 1 ELSE 0)

ExitCode(r) ==
  IF raised[r] = "interrupt" THEN 130
  ELSE IF raised[r] = "error" THEN 2
  ELSE IF outcome[r] \in {"FAILED", "PARTIAL"} THEN 1 ELSE 0

Init ==
  /\ pc = [r \in Runs |-> "idle"]
  /\ files = [r \in Runs |-> {}]
  /\ outcome = [r \in Runs |-> "none"]
  /\ completed = [r \in Runs |-> FALSE]
  /\ raised = [r \in Runs |-> "none"]
  /\ interrupted = [r \in Runs |-> FALSE]
  /\ staging = [r \in Runs |-> "none"]
  /\ latest = Absent
  /\ backup = Absent
  /\ exit = [r \in Runs |-> Running]
  /\ unwritten = {}
  /\ installed = "none"
  /\ published = {}
  /\ directory = [r \in Runs |-> r]
  /\ made = {}
  /\ overlapped = FALSE

Goto(r, there) == pc' = [pc EXCEPT ![r] = there]
Write(r, name) == files' = [files EXCEPT ![r] = @ \cup {name}]
Raise(r, what) == raised' = [raised EXCEPT ![r] = what]

-----------------------------------------------------------------------------
(* The run directory *)

\* A run begins.
Begin(r) ==
  /\ pc[r] = "idle"
  /\ Cardinality(Active) < MaxActive
  /\ overlapped' = (overlapped \/ Active # {})

\* The target is not at a clean revision: nothing is caught yet.
Refuse(r) ==
  /\ Begin(r)
  /\ Raise(r, "error")
  /\ Goto(r, "leave")
  /\ UNCHANGED << files, outcome, completed, interrupted, staging, exit, diskVars, history,
                  directory, made >>

\* The first of a name's numbered forms that is not taken.  A name is known by
\* the run that chose it first: the run's own time gives a name of its own, the
\* time of a run that is about to make its directory the same one.
ChooseDirectory(r) ==
  /\ Begin(r)
  /\ \E name \in {r} \cup {directory[s] : s \in {q \in Runs : pc[q] = "create"}} :
       /\ name \notin made
       /\ directory' = [directory EXCEPT ![r] = name]
  /\ Goto(r, "create")
  /\ UNCHANGED << files, outcome, completed, raised, interrupted, staging, exit, diskVars,
                  history, made >>

MakeDirectory_ExistOk(r) ==
  /\ pc[r] = "create"
  /\ made' = made \cup {directory[r]}
  /\ Write(r, "config")
  /\ Goto(r, "operate")
  /\ UNCHANGED << outcome, completed, raised, interrupted, staging, exit, diskVars, history,
                  directory, overlapped >>

\* mkdir refuses a directory that exists; then run-config.json is written.
\* Neither failure is caught.
MakeDirectory(r) ==
  /\ pc[r] = "create"
  /\ \/ /\ directory[r] \notin made
        /\ made' = made \cup {directory[r]}
        /\ \/ Write(r, "config") /\ Goto(r, "operate") /\ UNCHANGED raised
           \/ Raise(r, "error") /\ Goto(r, "leave") /\ UNCHANGED files
     \/ /\ directory[r] \in made
        /\ Raise(r, "error") /\ Goto(r, "leave") /\ UNCHANGED << files, made >>
  /\ UNCHANGED << outcome, completed, interrupted, staging, exit, diskVars, history,
                  directory, overlapped >>

\* The operation, analyze or the patch loop, returns an outcome.
OperationReturns(r) ==
  /\ pc[r] = "operate"
  /\ \E o \in Outcomes : outcome' = [outcome EXCEPT ![r] = o]
  /\ Write(r, "worktree") \/ UNCHANGED files
  /\ Goto(r, "record")
  /\ UNCHANGED << completed, raised, interrupted, staging, exit, diskVars, history >>

OperationRaises(r) ==
  /\ pc[r] = "operate"
  /\ Write(r, "worktree") \/ UNCHANGED files
  /\ Raise(r, "error")
  /\ Goto(r, "mark")
  /\ UNCHANGED << outcome, completed, interrupted, staging, exit, diskVars, history >>

\* workflow-result.json is written; the run is not completed before the next step.
WriteResult(r) ==
  /\ pc[r] = "record"
  /\ Write(r, "result")
  /\ Goto(r, "complete")
  /\ UNCHANGED << outcome, completed, raised, interrupted, staging, exit, diskVars, history >>

WriteResultFails_Unmarked(r) ==
  /\ pc[r] = "record"
  /\ Write(r, "result") \/ UNCHANGED files
  /\ Raise(r, "error")
  /\ Goto(r, "stats")
  /\ UNCHANGED << outcome, completed, interrupted, staging, exit, diskVars, history >>

\* Writing it fails, with or without a file left behind.
WriteResultFails(r) ==
  /\ pc[r] = "record"
  /\ Write(r, "result") \/ UNCHANGED files
  /\ Raise(r, "error")
  /\ Goto(r, "mark")
  /\ UNCHANGED << outcome, completed, interrupted, staging, exit, diskVars, history >>

Complete(r) ==
  /\ pc[r] = "complete"
  /\ completed' = [completed EXCEPT ![r] = TRUE]
  /\ Goto(r, "stats")
  /\ UNCHANGED << files, outcome, raised, interrupted, staging, exit, diskVars, history >>

\* failure.json, and a warning in the documents written so far.
MarkIncomplete(r) ==
  /\ pc[r] = "mark"
  /\ Write(r, "failure")
  /\ Goto(r, "stats")
  /\ UNCHANGED << outcome, completed, raised, interrupted, staging, exit, diskVars, history >>

WriteStats(r) ==
  /\ pc[r] = "stats"
  /\ Write(r, "stats")
  /\ Goto(r, "audit")
  /\ UNCHANGED << outcome, completed, raised, interrupted, staging, exit, diskVars, history >>

WriteAudit_PublishesAll(r) ==
  /\ pc[r] = "audit"
  /\ Write(r, "audit")
  /\ Goto(r, "stage")
  /\ UNCHANGED << outcome, completed, raised, interrupted, staging, exit, diskVars, history >>

\* Only a completed run is published.
WriteAudit(r) ==
  /\ pc[r] = "audit"
  /\ Write(r, "audit")
  /\ Goto(r, IF completed[r] THEN "stage" ELSE "leave")
  /\ UNCHANGED << outcome, completed, raised, interrupted, staging, exit, diskVars, history >>

\* A write of these fails: of the mark, the statistics are still written; of the
\* statistics or the audit, the finally clause ends there.
WriteFails(r) ==
  /\ pc[r] \in {"mark", "stats", "audit"}
  /\ Raise(r, "error")
  /\ unwritten' = unwritten \cup {r}
  /\ Goto(r, IF pc[r] = "mark" THEN "stats" ELSE "leave")
  /\ UNCHANGED << files, outcome, completed, interrupted, staging, exit, diskVars,
                  installed, published >>

-----------------------------------------------------------------------------
(* publish_latest *)

Fail_Silent(r) ==
  /\ \E rest \in {"none", "partial"} : staging' = [staging EXCEPT ![r] = rest]
  /\ Goto(r, "leave")
  /\ UNCHANGED raised

\* An exception of the publication: its staging directory is removed, of which a
\* part stays if that fails too.
Fail(r) ==
  /\ Raise(r, "error")
  /\ \E rest \in {"none", "partial"} : staging' = [staging EXCEPT ![r] = rest]
  /\ Goto(r, "leave")

\* Copy the run directory, write the manifest and APPLY.md.
BeginStaging(r) ==
  /\ pc[r] = "stage" /\ staging[r] = "none"
  /\ \/ /\ staging' = [staging EXCEPT ![r] = "partial"]
        /\ UNCHANGED << pc, raised >>
     \/ Raise(r, "error") /\ Goto(r, "leave") /\ UNCHANGED staging
  /\ UNCHANGED << files, outcome, completed, interrupted, exit, diskVars, history >>

FinishStaging(r) ==
  /\ pc[r] = "stage" /\ staging[r] = "partial"
  /\ \/ /\ staging' = [staging EXCEPT ![r] = "ready"]
        /\ Goto(r, "findBackup")
        /\ UNCHANGED raised
     \/ Fail(r)
  /\ UNCHANGED << files, outcome, completed, interrupted, exit, diskVars, history >>

FindBackup(r) ==
  /\ pc[r] = "findBackup"
  /\ Goto(r, IF Exists(backup) THEN "findLatest" ELSE "haveLatest")
  /\ UNCHANGED << files, outcome, completed, raised, interrupted, staging, exit, diskVars, history >>

\* A backup was left behind: superseded by latest, or all that there is.
FindLatest(r) ==
  /\ pc[r] = "findLatest"
  /\ Goto(r, IF Exists(latest) THEN "dropBackup" ELSE "restoreBackup")
  /\ UNCHANGED << files, outcome, completed, raised, interrupted, staging, exit, diskVars, history >>

\* rmtree of the backup removes its files, here any of them in its first step, and
\* then the directory.  It raises if the backup is gone or a file stays.
DropBackup(r) ==
  /\ pc[r] = "dropBackup"
  /\ \/ /\ Exists(backup)
        /\ \E left \in SUBSET backup.files : backup' = Torn(backup, left)
        /\ Goto(r, "emptyBackup")
        /\ UNCHANGED << raised, staging >>
     \/ Fail(r) /\ UNCHANGED backup
  /\ UNCHANGED << files, outcome, completed, interrupted, exit, latest, history >>

\* The directory goes, unless another command moved it or put a whole one there.
EmptyBackup(r) ==
  /\ pc[r] = "emptyBackup"
  /\ \/ /\ Exists(backup) /\ ~ backup.whole
        /\ backup' = Absent
        /\ Goto(r, "haveLatest")
        /\ UNCHANGED << raised, staging >>
     \/ Fail(r) /\ UNCHANGED backup
  /\ UNCHANGED << files, outcome, completed, interrupted, exit, latest, history >>

\* os.replace: its source must exist, and its place be free.
RestoreBackup(r) ==
  /\ pc[r] = "restoreBackup"
  /\ \/ /\ Exists(backup) /\ Free(latest)
        /\ latest' = backup /\ backup' = Absent
        /\ Goto(r, "haveLatest")
        /\ UNCHANGED << raised, staging >>
     \/ Fail(r) /\ UNCHANGED diskVars
  /\ UNCHANGED << files, outcome, completed, interrupted, exit, history >>

HaveLatest(r) ==
  /\ pc[r] = "haveLatest"
  /\ Goto(r, IF Exists(latest) THEN "moveLatest" ELSE "install")
  /\ UNCHANGED << files, outcome, completed, raised, interrupted, staging, exit, diskVars, history >>

MoveLatest(r) ==
  /\ pc[r] = "moveLatest"
  /\ \/ /\ Exists(latest) /\ Free(backup)
        /\ backup' = latest /\ latest' = Absent
        /\ Goto(r, "install")
        /\ UNCHANGED << raised, staging >>
     \/ Fail(r) /\ UNCHANGED diskVars
  /\ UNCHANGED << files, outcome, completed, interrupted, exit, history >>

\* The staging directory becomes latest, or the old one is rolled back.
Install(r) ==
  /\ pc[r] = "install"
  /\ \/ /\ Free(latest)
        /\ latest' = Snapshot(r)
        /\ staging' = [staging EXCEPT ![r] = "none"]
        /\ installed' = r /\ published' = published \cup {r}
        /\ Goto(r, "removeBackup")
     \/ /\ Goto(r, "rollBack")
        /\ UNCHANGED << latest, staging, installed, published >>
  /\ UNCHANGED << files, outcome, completed, raised, interrupted, exit, backup, unwritten >>

\* Is there a backup, and no latest?  Then it is moved back, which may fail too;
\* what kept the snapshot from being installed is raised in any case.
RollBack(r) ==
  /\ pc[r] = "rollBack"
  /\ IF Exists(backup) THEN Goto(r, "lookAgain") /\ UNCHANGED << raised, staging >> ELSE Fail(r)
  /\ UNCHANGED << files, outcome, completed, interrupted, exit, diskVars, history >>

LookAgain(r) ==
  /\ pc[r] = "lookAgain"
  /\ IF Exists(latest) THEN Fail(r) ELSE Goto(r, "moveBack") /\ UNCHANGED << raised, staging >>
  /\ UNCHANGED << files, outcome, completed, interrupted, exit, diskVars, history >>

MoveBack_Forgets(r) ==
  /\ pc[r] = "moveBack"
  /\ Fail(r)
  /\ backup' = Absent
  /\ UNCHANGED << files, outcome, completed, interrupted, exit, latest, history >>

MoveBack(r) ==
  /\ pc[r] = "moveBack"
  /\ Fail(r)
  /\ \/ Exists(backup) /\ Free(latest) /\ latest' = backup /\ backup' = Absent
     \/ UNCHANGED diskVars
  /\ UNCHANGED << files, outcome, completed, interrupted, exit, history >>

\* rmtree of the old snapshot; errors are ignored.
RemoveBackup(r) ==
  /\ pc[r] = "removeBackup"
  /\ \/ /\ Exists(backup)
        /\ \E left \in SUBSET backup.files : backup' = Torn(backup, left)
        /\ Goto(r, "finishBackup")
     \/ Goto(r, "leave") /\ UNCHANGED backup
  /\ UNCHANGED << files, outcome, completed, raised, interrupted, staging, exit, latest, history >>

FinishBackup(r) ==
  /\ pc[r] = "finishBackup"
  /\ \/ ~ backup.whole /\ backup' = Absent
     \/ UNCHANGED backup
  /\ Goto(r, "leave")
  /\ UNCHANGED << files, outcome, completed, raised, interrupted, staging, exit, latest, history >>

-----------------------------------------------------------------------------
(* Ends *)

Leave(r) ==
  /\ pc[r] = "leave"
  /\ exit' = [exit EXCEPT ![r] = ExitCode(r)]
  /\ Goto(r, "exited")
  /\ UNCHANGED << files, outcome, completed, raised, interrupted, staging, diskVars, history >>

\* Ctrl-C: in the operation it is marked like a failure; in the finally clause
\* nothing catches it, and what is half done stays.
Interrupt(r) ==
  /\ pc[r] \in {"create", "operate", "record", "complete", "mark", "stats", "audit",
                 "leave"} \cup Publishing
  /\ ~ interrupted[r]
  /\ interrupted' = [interrupted EXCEPT ![r] = TRUE]
  /\ Raise(r, "interrupt")
  /\ Goto(r, IF pc[r] \in {"operate", "record", "complete"} THEN "mark"
             ELSE IF pc[r] = "mark" THEN "stats" ELSE "leave")
  /\ UNCHANGED << files, outcome, completed, staging, exit, diskVars, history, creation >>

\* The process is killed.
Kill(r) ==
  /\ pc[r] \notin {"idle", "exited"}
  /\ exit' = [exit EXCEPT ![r] = Killed]
  /\ Goto(r, "exited")
  /\ UNCHANGED << files, outcome, completed, raised, interrupted, staging, diskVars, history,
                  creation >>

Step(r) ==
  /\ UNCHANGED creation
  /\ \/ OperationReturns(r) \/ OperationRaises(r)
     \/ WriteResult(r) \/ WriteResultFails(r) \/ Complete(r)
     \/ MarkIncomplete(r) \/ WriteStats(r) \/ WriteAudit(r) \/ WriteFails(r)
     \/ BeginStaging(r) \/ FinishStaging(r)
     \/ FindBackup(r) \/ FindLatest(r)
     \/ DropBackup(r) \/ EmptyBackup(r) \/ RestoreBackup(r)
     \/ HaveLatest(r) \/ MoveLatest(r) \/ Install(r)
     \/ RollBack(r) \/ LookAgain(r) \/ MoveBack(r)
     \/ RemoveBackup(r) \/ FinishBackup(r)
     \/ Leave(r)

Next ==
  \E r \in Runs :
    \/ Refuse(r) \/ ChooseDirectory(r) \/ MakeDirectory(r)
    \/ Step(r) \/ Interrupt(r) \/ Kill(r)

Spec == Init /\ [][Next]_vars
=============================================================================
