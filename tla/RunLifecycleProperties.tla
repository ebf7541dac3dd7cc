----------------------- MODULE RunLifecycleProperties -----------------------
(***************************************************************************)
(* What a command's exit code, its run directory and the project's         *)
(* snapshot may be relied on for, over failures, Ctrl-C and kills.         *)
(***************************************************************************)
EXTENDS RunLifecycle

Dir == [run : Runs, files : SUBSET File, whole : BOOLEAN] \cup {Absent}

\* Every variable has its type.
TypeOK ==
  /\ pc \in [Runs -> {"idle", "create", "operate", "record", "complete", "mark", "stats",
                      "audit", "leave", "exited"} \cup Publishing]
  /\ files \in [Runs -> SUBSET File]
  /\ outcome \in [Runs -> Outcomes \cup {"none"}]
  /\ completed \in [Runs -> BOOLEAN]
  /\ raised \in [Runs -> {"none", "error", "interrupt"}]
  /\ interrupted \in [Runs -> BOOLEAN]
  /\ staging \in [Runs -> Staging]
  /\ latest \in Dir
  /\ backup \in Dir
  /\ exit \in [Runs -> {Running, Killed, 0, 1, 2, 130}]
  /\ unwritten \subseteq Runs
  /\ installed \in Runs \cup {"none"}
  /\ published \subseteq Runs
  /\ directory \in [Runs -> Runs]
  /\ made \subseteq Runs
  /\ overlapped \in BOOLEAN

\* No two runs work in one directory, although both may have found its name free.
DirectoriesAreDistinct ==
  \A r, s \in Runs :
    r # s /\ "config" \in files[r] /\ "config" \in files[s] => directory[r] # directory[s]

\* The snapshot is of a completed run and without a failure marker, whatever other
\* runs fail, are interrupted or publish at the same time.  It has the result, the
\* statistics and the audit, unless a command began to remove it as a backup and
\* another one moved it back, which takes two commands at the same time.
LatestIsCompletedRun ==
  Exists(latest) =>
    /\ completed[latest.run]
    /\ latest.files \subseteq {"config", "result", "stats", "audit"}
    /\ latest.whole \/ ~ overlapped => latest.files = {"config", "result", "stats", "audit"}

\* The replacement is recoverable: as long as commands come one after the other,
\* once a snapshot was installed the newest one is on disk in one piece, as
\* latest, or as the backup while there is no latest.
SnapshotSurvives ==
  ~ overlapped /\ installed # "none" =>
    \/ latest.run = installed /\ latest.whole
    \/ ~ Exists(latest) /\ backup.run = installed /\ backup.whole

\* A run that failed without a Ctrl-C keeps what it cost, statistics and audit,
\* and is marked as failed unless only its publication failed; these writes must
\* not have failed themselves.  A completed run is never marked.
FailureKeepsCosts ==
  \A r \in Runs :
    /\ exit[r] = 2 /\ "config" \in files[r] /\ ~ interrupted[r] /\ r \notin unwritten =>
         /\ {"stats", "audit"} \subseteq files[r]
         /\ completed[r] \/ "failure" \in files[r]
    /\ completed[r] => "failure" \notin files[r]

\* Exit codes 0 and 1 mean that the run completed and is in the project's snapshot,
\* or was until a later run replaced it, and 1 that it did not pass; such a run
\* leaves no staging directory behind.
ExitIsHonest ==
  \A r \in Runs :
    exit[r] \in {0, 1} =>
      /\ completed[r] /\ r \in published
      /\ exit[r] = 1 <=> outcome[r] \in {"FAILED", "PARTIAL"}
      /\ staging[r] = "none"

-----------------------------------------------------------------------------
(* What the documentation says, for any number of publishers *)

\* reporting.py:498: the replacement of latest is recoverable; so once a
\* snapshot was installed and no command is running, a whole one is on disk.
AlwaysRecoverable ==
  installed # "none" /\ Active = {} =>
    \E dir \in {latest, backup} : Exists(dir) /\ dir.whole
=============================================================================
