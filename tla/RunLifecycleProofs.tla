------------------------- MODULE RunLifecycleProofs -------------------------
(***************************************************************************)
(* Commands, their directories and the project's snapshot, for any number  *)
(* of runs and any number of them at the same time.                        *)
(***************************************************************************)
EXTENDS RunLifecycleProperties, TLAPS

-----------------------------------------------------------------------------
(* Steps *)

\* A step of run r.
Move(r) ==
  \/ Refuse(r) \/ ChooseDirectory(r) \/ MakeDirectory(r)
  \/ Step(r) \/ Interrupt(r) \/ Kill(r)

\* Every step is one of some run.
LEMMA NextIsMove == Next <=> \E r \in Runs : Move(r)
BY DEF Next, Move, Step

\* Writes and moves of a run leave the other runs' entries.
LEMMA Entry ==
  ASSUME NEW f, NEW D, NEW T, f \in [D -> T], NEW x \in D, NEW v, NEW y \in D
  PROVE  [f EXCEPT ![x] = v][y] = IF y = x THEN v ELSE f[y]
OBVIOUS

-----------------------------------------------------------------------------
(* Types *)

USE OutcomesAssumption

\* What may be at the place of the snapshot or of the backup.
LEMMA DirFacts ==
  /\ Absent \in Dir
  /\ \A dir \in Dir : Exists(dir) => \A left \in SUBSET dir.files : Torn(dir, left) \in Dir
  /\ TypeOK => \A r \in Runs : Snapshot(r) \in Dir
<1>1. Absent \in Dir
  BY DEF Dir
<1>2. ASSUME NEW dir \in Dir, Exists(dir), NEW left \in SUBSET dir.files
      PROVE  Torn(dir, left) \in Dir
  <2>1. dir \in [run : Runs, files : SUBSET File, whole : BOOLEAN]
    BY <1>2 DEF Exists, Dir
  <2> QED
    BY <2>1 DEF Torn, Dir
<1>3. ASSUME TypeOK, NEW r \in Runs PROVE Snapshot(r) \in Dir
  <2>1. files[r] \ {"worktree"} \in SUBSET File
    BY <1>3 DEF TypeOK
  <2> QED
    BY <2>1 DEF Snapshot, Dir
<1> QED
  BY <1>1, <1>2, <1>3

\* No run has begun.
LEMMA InitType == Init => TypeOK
<1> SUFFICES ASSUME Init PROVE TypeOK
  OBVIOUS
<1> USE DEF Init
<1>1. /\ latest \in Dir /\ backup \in Dir
  BY DirFacts
<1>2. /\ pc \in [Runs -> {"idle"}] /\ files \in [Runs -> SUBSET File]
      /\ outcome \in [Runs -> {"none"}] /\ raised \in [Runs -> {"none"}]
      /\ completed \in [Runs -> BOOLEAN] /\ interrupted \in [Runs -> BOOLEAN]
      /\ staging \in [Runs -> Staging] /\ exit \in [Runs -> {Running}]
      /\ directory \in [Runs -> Runs]
  BY DEF Staging
<1>3. /\ unwritten \subseteq Runs /\ published \subseteq Runs /\ made \subseteq Runs
      /\ overlapped \in BOOLEAN /\ installed = "none"
  OBVIOUS
<1> QED
  BY <1>1, <1>2, <1>3 DEF TypeOK

\* A run's step keeps every variable in its type.
LEMMA MoveType ==
  ASSUME TypeOK, NEW r \in Runs, Move(r)
  PROVE  TypeOK'
<1> USE DEF TypeOK, Goto, Raise, Write, creation, diskVars, history, Staging, File
<1>1. CASE OperationReturns(r) /\ UNCHANGED creation
  BY <1>1, DirFacts DEF OperationReturns
<1>2. CASE OperationRaises(r) /\ UNCHANGED creation
  BY <1>2, DirFacts DEF OperationRaises
<1>3. CASE WriteResult(r) /\ UNCHANGED creation
  BY <1>3, DirFacts DEF WriteResult
<1>4. CASE WriteResultFails(r) /\ UNCHANGED creation
  BY <1>4, DirFacts DEF WriteResultFails
<1>5. CASE Complete(r) /\ UNCHANGED creation
  BY <1>5, DirFacts DEF Complete
<1>6. CASE MarkIncomplete(r) /\ UNCHANGED creation
  BY <1>6, DirFacts DEF MarkIncomplete
<1>7. CASE WriteStats(r) /\ UNCHANGED creation
  BY <1>7, DirFacts DEF WriteStats
<1>8. CASE WriteAudit(r) /\ UNCHANGED creation
  BY <1>8, DirFacts DEF WriteAudit, Publishing
<1>9. CASE WriteFails(r) /\ UNCHANGED creation
  BY <1>9, DirFacts DEF WriteFails
<1>10. CASE BeginStaging(r) /\ UNCHANGED creation
  BY <1>10, DirFacts DEF BeginStaging
<1>11. CASE FinishStaging(r) /\ UNCHANGED creation
  BY <1>11, DirFacts DEF FinishStaging, Fail, Publishing
<1>12. CASE FindBackup(r) /\ UNCHANGED creation
  BY <1>12, DirFacts DEF FindBackup, Publishing
<1>13. CASE FindLatest(r) /\ UNCHANGED creation
  BY <1>13, DirFacts DEF FindLatest, Publishing
<1>14. CASE DropBackup(r) /\ UNCHANGED creation
  BY <1>14, DirFacts DEF DropBackup, Fail, Publishing
<1>15. CASE EmptyBackup(r) /\ UNCHANGED creation
  BY <1>15, DirFacts DEF EmptyBackup, Fail, Publishing
<1>16. CASE RestoreBackup(r) /\ UNCHANGED creation
  BY <1>16, DirFacts DEF RestoreBackup, Fail, Publishing
<1>17. CASE HaveLatest(r) /\ UNCHANGED creation
  BY <1>17, DirFacts DEF HaveLatest, Publishing
<1>18. CASE MoveLatest(r) /\ UNCHANGED creation
  BY <1>18, DirFacts DEF MoveLatest, Fail, Publishing
<1>19. CASE Install(r) /\ UNCHANGED creation
  BY <1>19, DirFacts DEF Install, Snapshot, Publishing
<1>20. CASE RollBack(r) /\ UNCHANGED creation
  BY <1>20, DirFacts DEF RollBack, Fail, Publishing
<1>21. CASE LookAgain(r) /\ UNCHANGED creation
  BY <1>21, DirFacts DEF LookAgain, Fail, Publishing
<1>22. CASE MoveBack(r) /\ UNCHANGED creation
  BY <1>22, DirFacts DEF MoveBack, Fail
<1>23. CASE RemoveBackup(r) /\ UNCHANGED creation
  BY <1>23, DirFacts DEF RemoveBackup, Publishing
<1>24. CASE FinishBackup(r) /\ UNCHANGED creation
  BY <1>24, DirFacts DEF FinishBackup
<1>25. CASE Leave(r) /\ UNCHANGED creation
  BY <1>25, DirFacts DEF Leave, ExitCode, Running, Killed
<1>26. CASE Refuse(r)
  BY <1>26, DirFacts DEF Refuse, Begin
<1>27. CASE ChooseDirectory(r)
  BY <1>27, DirFacts DEF ChooseDirectory, Begin
<1>28. CASE MakeDirectory(r)
  BY <1>28, DirFacts DEF MakeDirectory
<1>29. CASE Interrupt(r)
  BY <1>29, DirFacts DEF Interrupt, Publishing
<1>30. CASE Kill(r)
  BY <1>30, DirFacts DEF Kill, Running, Killed
<1> QED
  BY <1>1, <1>2, <1>3, <1>4, <1>5, <1>6, <1>7, <1>8, <1>9, <1>10, <1>11, <1>12, <1>13, <1>14, <1>15, <1>16, <1>17, <1>18, <1>19, <1>20, <1>21, <1>22, <1>23, <1>24, <1>25, <1>26, <1>27, <1>28, <1>29,
     <1>30 DEF Move, Step

\* No run's step and no stuttering step leaves the types.
LEMMA StepType == TypeOK /\ [Next]_vars => TypeOK'
<1> SUFFICES ASSUME TypeOK, [Next]_vars PROVE TypeOK'
  OBVIOUS
<1>1. CASE UNCHANGED vars
  BY <1>1 DEF TypeOK, vars, localVars, diskVars, history, creation
<1>2. CASE Next
  BY <1>2, NextIsMove, MoveType
<1> QED
  BY <1>1, <1>2

\* Every variable of a command and of the snapshot keeps its type, whatever fails.
THEOREM Types == Spec => []TypeOK
<1> QED
  BY InitType, StepType, PTL DEF Spec

-----------------------------------------------------------------------------
(* One run *)

\* A step of one run leaves every other run where it is.
LEMMA OthersKept ==
  ASSUME TypeOK, NEW r \in Runs, Move(r), NEW s \in Runs, s # r
  PROVE  /\ pc'[s] = pc[s] /\ files'[s] = files[s] /\ outcome'[s] = outcome[s]
         /\ completed'[s] = completed[s] /\ raised'[s] = raised[s]
         /\ interrupted'[s] = interrupted[s] /\ staging'[s] = staging[s]
         /\ exit'[s] = exit[s] /\ directory'[s] = directory[s]
         /\ s \in published' <=> s \in published
         /\ s \in unwritten' <=> s \in unwritten
<1> USE DEF TypeOK, Goto, Raise, Write, creation, history, diskVars
<1>1. CASE OperationReturns(r) /\ UNCHANGED creation
  BY <1>1 DEF OperationReturns
<1>2. CASE OperationRaises(r) /\ UNCHANGED creation
  BY <1>2 DEF OperationRaises
<1>3. CASE WriteResult(r) /\ UNCHANGED creation
  BY <1>3 DEF WriteResult
<1>4. CASE WriteResultFails(r) /\ UNCHANGED creation
  BY <1>4 DEF WriteResultFails
<1>5. CASE Complete(r) /\ UNCHANGED creation
  BY <1>5 DEF Complete
<1>6. CASE MarkIncomplete(r) /\ UNCHANGED creation
  BY <1>6 DEF MarkIncomplete
<1>7. CASE WriteStats(r) /\ UNCHANGED creation
  BY <1>7 DEF WriteStats
<1>8. CASE WriteAudit(r) /\ UNCHANGED creation
  BY <1>8 DEF WriteAudit
<1>9. CASE WriteFails(r) /\ UNCHANGED creation
  BY <1>9 DEF WriteFails
<1>10. CASE BeginStaging(r) /\ UNCHANGED creation
  BY <1>10 DEF BeginStaging
<1>11. CASE FinishStaging(r) /\ UNCHANGED creation
  BY <1>11 DEF FinishStaging, Fail
<1>12. CASE FindBackup(r) /\ UNCHANGED creation
  BY <1>12 DEF FindBackup
<1>13. CASE FindLatest(r) /\ UNCHANGED creation
  BY <1>13 DEF FindLatest
<1>14. CASE DropBackup(r) /\ UNCHANGED creation
  BY <1>14 DEF DropBackup, Fail
<1>15. CASE EmptyBackup(r) /\ UNCHANGED creation
  BY <1>15 DEF EmptyBackup, Fail
<1>16. CASE RestoreBackup(r) /\ UNCHANGED creation
  BY <1>16 DEF RestoreBackup, Fail
<1>17. CASE HaveLatest(r) /\ UNCHANGED creation
  BY <1>17 DEF HaveLatest
<1>18. CASE MoveLatest(r) /\ UNCHANGED creation
  BY <1>18 DEF MoveLatest, Fail
<1>19. CASE Install(r) /\ UNCHANGED creation
  BY <1>19 DEF Install, Snapshot
<1>20. CASE RollBack(r) /\ UNCHANGED creation
  BY <1>20 DEF RollBack, Fail
<1>21. CASE LookAgain(r) /\ UNCHANGED creation
  BY <1>21 DEF LookAgain, Fail
<1>22. CASE MoveBack(r) /\ UNCHANGED creation
  BY <1>22 DEF MoveBack, Fail
<1>23. CASE RemoveBackup(r) /\ UNCHANGED creation
  BY <1>23 DEF RemoveBackup
<1>24. CASE FinishBackup(r) /\ UNCHANGED creation
  BY <1>24 DEF FinishBackup
<1>25. CASE Leave(r) /\ UNCHANGED creation
  BY <1>25 DEF Leave, ExitCode
<1>26. CASE Refuse(r)
  BY <1>26 DEF Refuse, Begin
<1>27. CASE ChooseDirectory(r)
  BY <1>27 DEF ChooseDirectory, Begin
<1>28. CASE MakeDirectory(r)
  BY <1>28 DEF MakeDirectory
<1>29. CASE Interrupt(r)
  BY <1>29 DEF Interrupt, Publishing
<1>30. CASE Kill(r)
  BY <1>30 DEF Kill
<1> QED
  BY <1>1, <1>2, <1>3, <1>4, <1>5, <1>6, <1>7, <1>8, <1>9, <1>10, <1>11, <1>12, <1>13, <1>14, <1>15, <1>16, <1>17, <1>18, <1>19, <1>20, <1>21, <1>22, <1>23, <1>24, <1>25, <1>26, <1>27, <1>28, <1>29,
     <1>30 DEF Move, Step

\* Before the operation has returned, or while it is being marked as failed.
Unfinished == {"idle", "create", "operate", "record", "complete", "mark"}

\* The steps of the publication after the snapshot was installed.
Installed == {"removeBackup", "finishBackup"}

\* The run's directory: what is in it at each step.
FilesInv(r) ==
  /\ pc[r] \in {"idle", "create"} => files[r] = {}
  /\ pc[r] \in {"operate", "record", "complete", "mark", "stats", "audit"} => "config" \in files[r]
  /\ pc[r] \in {"idle", "create", "operate", "record", "complete"} => "failure" \notin files[r]
  /\ pc[r] = "complete" => "result" \in files[r]
  /\ pc[r] = "audit" => "stats" \in files[r]
  /\ completed[r] => {"config", "result"} \subseteq files[r] /\ "failure" \notin files[r]
  /\ pc[r] \in Publishing => {"stats", "audit"} \subseteq files[r]

\* Its completion, its outcome and what was raised.
CourseInv(r) ==
  /\ pc[r] \in Unfinished => ~ completed[r]
  /\ pc[r] \in Unfinished \ {"mark"} => raised[r] = "none"
  /\ pc[r] = "mark" => raised[r] # "none"
  /\ pc[r] \in {"stats", "audit"} => (completed[r] <=> raised[r] = "none")
  /\ pc[r] \in {"record", "complete"} => outcome[r] \in Outcomes
  /\ completed[r] => outcome[r] \in Outcomes
  /\ pc[r] \in Publishing => completed[r] /\ raised[r] = "none"
  /\ pc[r] \in Installed => r \in published
  /\ pc[r] = "leave" /\ raised[r] = "none" => completed[r] /\ r \in published

\* Its staging directory and its exit code.
ExitInv(r) ==
  /\ staging[r] # "none" =>
       \/ pc[r] \in Publishing \ Installed
       \/ pc[r] \in {"leave", "exited"} /\ raised[r] # "none"
       \/ pc[r] = "exited" /\ exit[r] = Killed
  /\ pc[r] # "exited" => exit[r] = Running
  /\ pc[r] = "exited" => exit[r] \in {Killed, ExitCode(r)}
  /\ exit[r] \in {0, 1} => completed[r] /\ r \in published

\* What a failed run keeps of its costs at each step.
CostsInv(r) ==
  ~ interrupted[r] /\ r \notin unwritten =>
    /\ pc[r] \in {"stats", "audit"} => completed[r] \/ "failure" \in files[r]
    /\ pc[r] = "leave" /\ "config" \in files[r] =>
         {"stats", "audit"} \subseteq files[r] /\ (completed[r] \/ "failure" \in files[r])
    /\ exit[r] = 2 /\ "config" \in files[r] =>
         {"stats", "audit"} \subseteq files[r] /\ (completed[r] \/ "failure" \in files[r])

RunInv(r) == FilesInv(r) /\ CourseInv(r) /\ ExitInv(r) /\ CostsInv(r)

\* A step of a run keeps what is known of its directory.
LEMMA MoveFiles ==
  ASSUME TypeOK, NEW r \in Runs, RunInv(r), Move(r)
  PROVE  FilesInv(r)'
<1> USE DEF TypeOK, Goto, Raise, Write, RunInv, FilesInv, CourseInv, Unfinished, Publishing
<1>1. CASE OperationReturns(r) /\ UNCHANGED creation
  BY <1>1 DEF OperationReturns
<1>2. CASE OperationRaises(r) /\ UNCHANGED creation
  BY <1>2 DEF OperationRaises
<1>3. CASE WriteResult(r) /\ UNCHANGED creation
  BY <1>3 DEF WriteResult
<1>4. CASE WriteResultFails(r) /\ UNCHANGED creation
  BY <1>4 DEF WriteResultFails
<1>5. CASE Complete(r) /\ UNCHANGED creation
  BY <1>5 DEF Complete
<1>6. CASE MarkIncomplete(r) /\ UNCHANGED creation
  BY <1>6 DEF MarkIncomplete
<1>7. CASE WriteStats(r) /\ UNCHANGED creation
  BY <1>7 DEF WriteStats
<1>8. CASE WriteAudit(r) /\ UNCHANGED creation
  BY <1>8 DEF WriteAudit
<1>9. CASE WriteFails(r) /\ UNCHANGED creation
  BY <1>9 DEF WriteFails
<1>10. CASE BeginStaging(r) /\ UNCHANGED creation
  BY <1>10 DEF BeginStaging
<1>11. CASE FinishStaging(r) /\ UNCHANGED creation
  BY <1>11 DEF FinishStaging, Fail
<1>12. CASE FindBackup(r) /\ UNCHANGED creation
  BY <1>12 DEF FindBackup
<1>13. CASE FindLatest(r) /\ UNCHANGED creation
  BY <1>13 DEF FindLatest
<1>14. CASE DropBackup(r) /\ UNCHANGED creation
  BY <1>14 DEF DropBackup, Fail
<1>15. CASE EmptyBackup(r) /\ UNCHANGED creation
  BY <1>15 DEF EmptyBackup, Fail
<1>16. CASE RestoreBackup(r) /\ UNCHANGED creation
  BY <1>16 DEF RestoreBackup, Fail
<1>17. CASE HaveLatest(r) /\ UNCHANGED creation
  BY <1>17 DEF HaveLatest
<1>18. CASE MoveLatest(r) /\ UNCHANGED creation
  BY <1>18 DEF MoveLatest, Fail
<1>19. CASE Install(r) /\ UNCHANGED creation
  BY <1>19 DEF Install, Snapshot
<1>20. CASE RollBack(r) /\ UNCHANGED creation
  BY <1>20 DEF RollBack, Fail
<1>21. CASE LookAgain(r) /\ UNCHANGED creation
  BY <1>21 DEF LookAgain, Fail
<1>22. CASE MoveBack(r) /\ UNCHANGED creation
  BY <1>22 DEF MoveBack, Fail
<1>23. CASE RemoveBackup(r) /\ UNCHANGED creation
  BY <1>23 DEF RemoveBackup
<1>24. CASE FinishBackup(r) /\ UNCHANGED creation
  BY <1>24 DEF FinishBackup
<1>25. CASE Leave(r) /\ UNCHANGED creation
  BY <1>25 DEF Leave, ExitCode
<1>26. CASE Refuse(r)
  BY <1>26 DEF Refuse, Begin
<1>27. CASE ChooseDirectory(r)
  BY <1>27 DEF ChooseDirectory, Begin
<1>28. CASE MakeDirectory(r)
  BY <1>28 DEF MakeDirectory
<1>29. CASE Interrupt(r)
  BY <1>29 DEF Interrupt, Publishing
<1>30. CASE Kill(r)
  BY <1>30 DEF Kill
<1> QED
  BY <1>1, <1>2, <1>3, <1>4, <1>5, <1>6, <1>7, <1>8, <1>9, <1>10, <1>11, <1>12, <1>13, <1>14, <1>15, <1>16, <1>17, <1>18, <1>19, <1>20, <1>21, <1>22, <1>23, <1>24, <1>25, <1>26, <1>27, <1>28, <1>29,
     <1>30 DEF Move, Step

\* A step of a run keeps what is known of its course.
LEMMA MoveCourse ==
  ASSUME TypeOK, NEW r \in Runs, RunInv(r), Move(r)
  PROVE  CourseInv(r)'
<1> USE DEF TypeOK, Goto, Raise, RunInv, CourseInv, Unfinished, Publishing, Installed, history
<1>1. CASE OperationReturns(r) /\ UNCHANGED creation
  BY <1>1 DEF OperationReturns
<1>2. CASE OperationRaises(r) /\ UNCHANGED creation
  BY <1>2 DEF OperationRaises
<1>3. CASE WriteResult(r) /\ UNCHANGED creation
  BY <1>3 DEF WriteResult
<1>4. CASE WriteResultFails(r) /\ UNCHANGED creation
  BY <1>4 DEF WriteResultFails
<1>5. CASE Complete(r) /\ UNCHANGED creation
  BY <1>5 DEF Complete
<1>6. CASE MarkIncomplete(r) /\ UNCHANGED creation
  BY <1>6 DEF MarkIncomplete
<1>7. CASE WriteStats(r) /\ UNCHANGED creation
  BY <1>7 DEF WriteStats
<1>8. CASE WriteAudit(r) /\ UNCHANGED creation
  BY <1>8 DEF WriteAudit
<1>9. CASE WriteFails(r) /\ UNCHANGED creation
  BY <1>9 DEF WriteFails
<1>10. CASE BeginStaging(r) /\ UNCHANGED creation
  BY <1>10 DEF BeginStaging
<1>11. CASE FinishStaging(r) /\ UNCHANGED creation
  BY <1>11 DEF FinishStaging, Fail
<1>12. CASE FindBackup(r) /\ UNCHANGED creation
  BY <1>12 DEF FindBackup
<1>13. CASE FindLatest(r) /\ UNCHANGED creation
  BY <1>13 DEF FindLatest
<1>14. CASE DropBackup(r) /\ UNCHANGED creation
  BY <1>14 DEF DropBackup, Fail
<1>15. CASE EmptyBackup(r) /\ UNCHANGED creation
  BY <1>15 DEF EmptyBackup, Fail
<1>16. CASE RestoreBackup(r) /\ UNCHANGED creation
  BY <1>16 DEF RestoreBackup, Fail
<1>17. CASE HaveLatest(r) /\ UNCHANGED creation
  BY <1>17 DEF HaveLatest
<1>18. CASE MoveLatest(r) /\ UNCHANGED creation
  BY <1>18 DEF MoveLatest, Fail
<1>19. CASE Install(r) /\ UNCHANGED creation
  BY <1>19 DEF Install, Snapshot
<1>20. CASE RollBack(r) /\ UNCHANGED creation
  BY <1>20 DEF RollBack, Fail
<1>21. CASE LookAgain(r) /\ UNCHANGED creation
  BY <1>21 DEF LookAgain, Fail
<1>22. CASE MoveBack(r) /\ UNCHANGED creation
  BY <1>22 DEF MoveBack, Fail
<1>23. CASE RemoveBackup(r) /\ UNCHANGED creation
  BY <1>23 DEF RemoveBackup
<1>24. CASE FinishBackup(r) /\ UNCHANGED creation
  BY <1>24 DEF FinishBackup
<1>25. CASE Leave(r) /\ UNCHANGED creation
  BY <1>25 DEF Leave, ExitCode
<1>26. CASE Refuse(r)
  BY <1>26 DEF Refuse, Begin
<1>27. CASE ChooseDirectory(r)
  BY <1>27 DEF ChooseDirectory, Begin
<1>28. CASE MakeDirectory(r)
  BY <1>28 DEF MakeDirectory
<1>29. CASE Interrupt(r)
  BY <1>29 DEF Interrupt, Publishing
<1>30. CASE Kill(r)
  BY <1>30 DEF Kill
<1> QED
  BY <1>1, <1>2, <1>3, <1>4, <1>5, <1>6, <1>7, <1>8, <1>9, <1>10, <1>11, <1>12, <1>13, <1>14, <1>15, <1>16, <1>17, <1>18, <1>19, <1>20, <1>21, <1>22, <1>23, <1>24, <1>25, <1>26, <1>27, <1>28, <1>29,
     <1>30 DEF Move, Step

\* A step of a run keeps what is known of its exit.
LEMMA MoveExit ==
  ASSUME TypeOK, NEW r \in Runs, RunInv(r), Move(r)
  PROVE  ExitInv(r)'
<1> USE DEF TypeOK, Goto, Raise, RunInv, ExitInv, CourseInv, Unfinished, Publishing,
            Installed, history, Running, Killed, ExitCode
<1>1. CASE OperationReturns(r) /\ UNCHANGED creation
  BY <1>1 DEF OperationReturns
<1>2. CASE OperationRaises(r) /\ UNCHANGED creation
  BY <1>2 DEF OperationRaises
<1>3. CASE WriteResult(r) /\ UNCHANGED creation
  BY <1>3 DEF WriteResult
<1>4. CASE WriteResultFails(r) /\ UNCHANGED creation
  BY <1>4 DEF WriteResultFails
<1>5. CASE Complete(r) /\ UNCHANGED creation
  BY <1>5 DEF Complete
<1>6. CASE MarkIncomplete(r) /\ UNCHANGED creation
  BY <1>6 DEF MarkIncomplete
<1>7. CASE WriteStats(r) /\ UNCHANGED creation
  BY <1>7 DEF WriteStats
<1>8. CASE WriteAudit(r) /\ UNCHANGED creation
  BY <1>8 DEF WriteAudit
<1>9. CASE WriteFails(r) /\ UNCHANGED creation
  BY <1>9 DEF WriteFails
<1>10. CASE BeginStaging(r) /\ UNCHANGED creation
  BY <1>10 DEF BeginStaging
<1>11. CASE FinishStaging(r) /\ UNCHANGED creation
  BY <1>11 DEF FinishStaging, Fail
<1>12. CASE FindBackup(r) /\ UNCHANGED creation
  BY <1>12 DEF FindBackup
<1>13. CASE FindLatest(r) /\ UNCHANGED creation
  BY <1>13 DEF FindLatest
<1>14. CASE DropBackup(r) /\ UNCHANGED creation
  BY <1>14 DEF DropBackup, Fail
<1>15. CASE EmptyBackup(r) /\ UNCHANGED creation
  BY <1>15 DEF EmptyBackup, Fail
<1>16. CASE RestoreBackup(r) /\ UNCHANGED creation
  BY <1>16 DEF RestoreBackup, Fail
<1>17. CASE HaveLatest(r) /\ UNCHANGED creation
  BY <1>17 DEF HaveLatest
<1>18. CASE MoveLatest(r) /\ UNCHANGED creation
  BY <1>18 DEF MoveLatest, Fail
<1>19. CASE Install(r) /\ UNCHANGED creation
  BY <1>19 DEF Install, Snapshot
<1>20. CASE RollBack(r) /\ UNCHANGED creation
  BY <1>20 DEF RollBack, Fail
<1>21. CASE LookAgain(r) /\ UNCHANGED creation
  BY <1>21 DEF LookAgain, Fail
<1>22. CASE MoveBack(r) /\ UNCHANGED creation
  BY <1>22 DEF MoveBack, Fail
<1>23. CASE RemoveBackup(r) /\ UNCHANGED creation
  BY <1>23 DEF RemoveBackup
<1>24. CASE FinishBackup(r) /\ UNCHANGED creation
  BY <1>24 DEF FinishBackup
<1>25. CASE Leave(r) /\ UNCHANGED creation
  BY <1>25 DEF Leave, ExitCode
<1>26. CASE Refuse(r)
  BY <1>26 DEF Refuse, Begin
<1>27. CASE ChooseDirectory(r)
  BY <1>27 DEF ChooseDirectory, Begin
<1>28. CASE MakeDirectory(r)
  BY <1>28 DEF MakeDirectory
<1>29. CASE Interrupt(r)
  BY <1>29 DEF Interrupt, Publishing
<1>30. CASE Kill(r)
  BY <1>30 DEF Kill
<1> QED
  BY <1>1, <1>2, <1>3, <1>4, <1>5, <1>6, <1>7, <1>8, <1>9, <1>10, <1>11, <1>12, <1>13, <1>14, <1>15, <1>16, <1>17, <1>18, <1>19, <1>20, <1>21, <1>22, <1>23, <1>24, <1>25, <1>26, <1>27, <1>28, <1>29,
     <1>30 DEF Move, Step

\* A step of a run keeps what is known of its costs.
LEMMA MoveCosts ==
  ASSUME TypeOK, NEW r \in Runs, RunInv(r), Move(r)
  PROVE  CostsInv(r)'
<1> USE DEF TypeOK, Goto, Raise, Write, RunInv, CostsInv, FilesInv, CourseInv, ExitInv,
            Unfinished, Publishing, history, Running, Killed
<1>1. CASE OperationReturns(r) /\ UNCHANGED creation
  BY <1>1 DEF OperationReturns
<1>2. CASE OperationRaises(r) /\ UNCHANGED creation
  BY <1>2 DEF OperationRaises
<1>3. CASE WriteResult(r) /\ UNCHANGED creation
  BY <1>3 DEF WriteResult
<1>4. CASE WriteResultFails(r) /\ UNCHANGED creation
  BY <1>4 DEF WriteResultFails
<1>5. CASE Complete(r) /\ UNCHANGED creation
  BY <1>5 DEF Complete
<1>6. CASE MarkIncomplete(r) /\ UNCHANGED creation
  BY <1>6 DEF MarkIncomplete
<1>7. CASE WriteStats(r) /\ UNCHANGED creation
  BY <1>7 DEF WriteStats
<1>8. CASE WriteAudit(r) /\ UNCHANGED creation
  BY <1>8 DEF WriteAudit
<1>9. CASE WriteFails(r) /\ UNCHANGED creation
  BY <1>9 DEF WriteFails
<1>10. CASE BeginStaging(r) /\ UNCHANGED creation
  BY <1>10 DEF BeginStaging
<1>11. CASE FinishStaging(r) /\ UNCHANGED creation
  BY <1>11 DEF FinishStaging, Fail
<1>12. CASE FindBackup(r) /\ UNCHANGED creation
  BY <1>12 DEF FindBackup
<1>13. CASE FindLatest(r) /\ UNCHANGED creation
  BY <1>13 DEF FindLatest
<1>14. CASE DropBackup(r) /\ UNCHANGED creation
  BY <1>14 DEF DropBackup, Fail
<1>15. CASE EmptyBackup(r) /\ UNCHANGED creation
  BY <1>15 DEF EmptyBackup, Fail
<1>16. CASE RestoreBackup(r) /\ UNCHANGED creation
  BY <1>16 DEF RestoreBackup, Fail
<1>17. CASE HaveLatest(r) /\ UNCHANGED creation
  BY <1>17 DEF HaveLatest
<1>18. CASE MoveLatest(r) /\ UNCHANGED creation
  BY <1>18 DEF MoveLatest, Fail
<1>19. CASE Install(r) /\ UNCHANGED creation
  BY <1>19 DEF Install, Snapshot
<1>20. CASE RollBack(r) /\ UNCHANGED creation
  BY <1>20 DEF RollBack, Fail
<1>21. CASE LookAgain(r) /\ UNCHANGED creation
  BY <1>21 DEF LookAgain, Fail
<1>22. CASE MoveBack(r) /\ UNCHANGED creation
  BY <1>22 DEF MoveBack, Fail
<1>23. CASE RemoveBackup(r) /\ UNCHANGED creation
  BY <1>23 DEF RemoveBackup
<1>24. CASE FinishBackup(r) /\ UNCHANGED creation
  BY <1>24 DEF FinishBackup
<1>25. CASE Leave(r) /\ UNCHANGED creation
  BY <1>25 DEF Leave, ExitCode
<1>26. CASE Refuse(r)
  BY <1>26 DEF Refuse, Begin
<1>27. CASE ChooseDirectory(r)
  BY <1>27 DEF ChooseDirectory, Begin
<1>28. CASE MakeDirectory(r)
  BY <1>28 DEF MakeDirectory
<1>29. CASE Interrupt(r)
  BY <1>29 DEF Interrupt, Publishing
<1>30. CASE Kill(r)
  BY <1>30 DEF Kill
<1> QED
  BY <1>1, <1>2, <1>3, <1>4, <1>5, <1>6, <1>7, <1>8, <1>9, <1>10, <1>11, <1>12, <1>13, <1>14, <1>15, <1>16, <1>17, <1>18, <1>19, <1>20, <1>21, <1>22, <1>23, <1>24, <1>25, <1>26, <1>27, <1>28, <1>29,
     <1>30 DEF Move, Step

\* No run has begun.
LEMMA InitRun == Init => \A r \in Runs : RunInv(r)
BY DEF Init, RunInv, FilesInv, CourseInv, ExitInv, CostsInv, Unfinished, Publishing, Installed, Running

\* What is known of a run depends on its entries only.
LEMMA RunInvKept ==
  ASSUME TypeOK, NEW r \in Runs, Move(r), NEW s \in Runs, s # r, RunInv(s)
  PROVE  RunInv(s)'
<1> USE OthersKept DEF RunInv
<1>1. FilesInv(s)'
  BY DEF FilesInv
<1>2. CourseInv(s)'
  BY DEF CourseInv
<1>3. ExitInv(s)'
  BY DEF ExitInv, ExitCode
<1>4. CostsInv(s)'
  BY DEF CostsInv
<1> QED
  BY <1>1, <1>2, <1>3, <1>4

RunsInv == TypeOK /\ \A r \in Runs : RunInv(r)

\* Every step keeps what is known of every run.
LEMMA StepRuns == RunsInv /\ [Next]_vars => RunsInv'
<1> SUFFICES ASSUME RunsInv, [Next]_vars PROVE RunsInv'
  OBVIOUS
<1>1. TypeOK'
  BY StepType DEF RunsInv
<1>2. CASE UNCHANGED vars
  <2>1. \A r \in Runs : RunInv(r)'
    BY <1>2 DEF vars, localVars, diskVars, history, creation, RunsInv, RunInv, FilesInv,
                CourseInv, ExitInv, CostsInv, ExitCode
  <2> QED
    BY <2>1, <1>1 DEF RunsInv
<1>3. ASSUME NEW r \in Runs, Move(r) PROVE \A s \in Runs : RunInv(s)'
  <2>1. RunInv(r)'
    BY <1>3, MoveFiles, MoveCourse, MoveExit, MoveCosts DEF RunsInv, RunInv
  <2>2. ASSUME NEW s \in Runs, s # r PROVE RunInv(s)'
    BY <1>3, <2>2, RunInvKept DEF RunsInv
  <2> QED
    BY <2>1, <2>2
<1> QED
  BY <1>1, <1>2, <1>3, NextIsMove DEF RunsInv

\* What is known of every run holds throughout.
LEMMA RunsAlways == Spec => []RunsInv
<1>1. Init => RunsInv
  BY InitType, InitRun DEF RunsInv
<1> QED
  BY <1>1, StepRuns, PTL DEF Spec

\* Exit codes 0 and 1 mean completed and published, with no staging directory
\* left, whatever runs at the same time.
THEOREM HonestExit == Spec => []ExitIsHonest
<1>1. RunsInv => ExitIsHonest
  BY DEF RunsInv, RunInv, TypeOK, ExitInv, CourseInv, ExitIsHonest, ExitCode, Running, Killed,
         Unfinished, Publishing, Installed
<1> QED
  BY <1>1, RunsAlways, PTL

\* A failed run keeps its statistics, its audit and its mark, whatever failed.
THEOREM KeptCosts == Spec => []FailureKeepsCosts
<1>1. RunsInv => FailureKeepsCosts
  BY DEF RunsInv, RunInv, CostsInv, FilesInv, FailureKeepsCosts
<1> QED
  BY <1>1, RunsAlways, PTL

-----------------------------------------------------------------------------
(* Run directories *)

\* The directory of a run that wrote its configuration is on disk.
DirectoryInv ==
  /\ \A r \in Runs : "config" \in files[r] => directory[r] \in made
  /\ DirectoriesAreDistinct

\* A step gives a run a configuration only in a directory it made.
LEMMA MoveConfig ==
  ASSUME TypeOK, NEW r \in Runs, RunInv(r), Move(r)
  PROVE  \/ /\ "config" \in files'[r] => "config" \in files[r] /\ directory'[r] = directory[r]
            /\ made \subseteq made'
         \/ /\ directory[r] \notin made
            /\ directory' = directory /\ made' = made \cup {directory[r]}
<1> USE DEF TypeOK, Write, creation, RunInv, FilesInv
<1>1. CASE OperationReturns(r) /\ UNCHANGED creation
  BY <1>1 DEF OperationReturns
<1>2. CASE OperationRaises(r) /\ UNCHANGED creation
  BY <1>2 DEF OperationRaises
<1>3. CASE WriteResult(r) /\ UNCHANGED creation
  BY <1>3 DEF WriteResult
<1>4. CASE WriteResultFails(r) /\ UNCHANGED creation
  BY <1>4 DEF WriteResultFails
<1>5. CASE Complete(r) /\ UNCHANGED creation
  BY <1>5 DEF Complete
<1>6. CASE MarkIncomplete(r) /\ UNCHANGED creation
  BY <1>6 DEF MarkIncomplete
<1>7. CASE WriteStats(r) /\ UNCHANGED creation
  BY <1>7 DEF WriteStats
<1>8. CASE WriteAudit(r) /\ UNCHANGED creation
  BY <1>8 DEF WriteAudit
<1>9. CASE WriteFails(r) /\ UNCHANGED creation
  BY <1>9 DEF WriteFails
<1>10. CASE BeginStaging(r) /\ UNCHANGED creation
  BY <1>10 DEF BeginStaging
<1>11. CASE FinishStaging(r) /\ UNCHANGED creation
  BY <1>11 DEF FinishStaging, Fail
<1>12. CASE FindBackup(r) /\ UNCHANGED creation
  BY <1>12 DEF FindBackup
<1>13. CASE FindLatest(r) /\ UNCHANGED creation
  BY <1>13 DEF FindLatest
<1>14. CASE DropBackup(r) /\ UNCHANGED creation
  BY <1>14 DEF DropBackup, Fail
<1>15. CASE EmptyBackup(r) /\ UNCHANGED creation
  BY <1>15 DEF EmptyBackup, Fail
<1>16. CASE RestoreBackup(r) /\ UNCHANGED creation
  BY <1>16 DEF RestoreBackup, Fail
<1>17. CASE HaveLatest(r) /\ UNCHANGED creation
  BY <1>17 DEF HaveLatest
<1>18. CASE MoveLatest(r) /\ UNCHANGED creation
  BY <1>18 DEF MoveLatest, Fail
<1>19. CASE Install(r) /\ UNCHANGED creation
  BY <1>19 DEF Install, Snapshot
<1>20. CASE RollBack(r) /\ UNCHANGED creation
  BY <1>20 DEF RollBack, Fail
<1>21. CASE LookAgain(r) /\ UNCHANGED creation
  BY <1>21 DEF LookAgain, Fail
<1>22. CASE MoveBack(r) /\ UNCHANGED creation
  BY <1>22 DEF MoveBack, Fail
<1>23. CASE RemoveBackup(r) /\ UNCHANGED creation
  BY <1>23 DEF RemoveBackup
<1>24. CASE FinishBackup(r) /\ UNCHANGED creation
  BY <1>24 DEF FinishBackup
<1>25. CASE Leave(r) /\ UNCHANGED creation
  BY <1>25 DEF Leave, ExitCode
<1>26. CASE Refuse(r)
  BY <1>26 DEF Refuse, Begin
<1>27. CASE ChooseDirectory(r)
  BY <1>27 DEF ChooseDirectory, Begin
<1>28. CASE MakeDirectory(r)
  BY <1>28 DEF MakeDirectory
<1>29. CASE Interrupt(r)
  BY <1>29 DEF Interrupt, Publishing
<1>30. CASE Kill(r)
  BY <1>30 DEF Kill
<1> QED
  BY <1>1, <1>2, <1>3, <1>4, <1>5, <1>6, <1>7, <1>8, <1>9, <1>10, <1>11, <1>12, <1>13, <1>14, <1>15, <1>16, <1>17, <1>18, <1>19, <1>20, <1>21, <1>22, <1>23, <1>24, <1>25, <1>26, <1>27, <1>28, <1>29,
     <1>30 DEF Move, Step

\* Distinct directories stay distinct.
LEMMA StepDirectory == RunsInv /\ DirectoryInv /\ [Next]_vars => DirectoryInv'
<1> SUFFICES ASSUME RunsInv, DirectoryInv, [Next]_vars PROVE DirectoryInv'
  OBVIOUS
<1>1. CASE UNCHANGED vars
  BY <1>1 DEF vars, localVars, creation, DirectoryInv, DirectoriesAreDistinct
<1>2. ASSUME NEW r \in Runs, Move(r) PROVE DirectoryInv'
  <2>1. \A s \in Runs \ {r} : files'[s] = files[s] /\ directory'[s] = directory[s]
    BY <1>2, OthersKept DEF RunsInv
  <2>2. \/ /\ "config" \in files'[r] => "config" \in files[r] /\ directory'[r] = directory[r]
           /\ made \subseteq made'
        \/ /\ directory[r] \notin made
           /\ directory' = directory /\ made' = made \cup {directory[r]}
    BY <1>2, MoveConfig DEF RunsInv
  <2>3. CASE /\ "config" \in files'[r] => "config" \in files[r] /\ directory'[r] = directory[r]
             /\ made \subseteq made'
    BY <2>1, <2>3 DEF DirectoryInv, DirectoriesAreDistinct
  <2>4. CASE /\ directory[r] \notin made
             /\ directory' = directory /\ made' = made \cup {directory[r]}
    BY <2>1, <2>4 DEF DirectoryInv, DirectoriesAreDistinct
  <2> QED
    BY <2>2, <2>3, <2>4
<1> QED
  BY <1>1, <1>2, NextIsMove

\* No two runs share a directory, even when both found its name free.
THEOREM OwnDirectory == Spec => []DirectoriesAreDistinct
<1>1. Init => DirectoryInv
  BY DEF Init, DirectoryInv, DirectoriesAreDistinct
<1>2. DirectoryInv => DirectoriesAreDistinct
  BY DEF DirectoryInv
<1> QED
  BY <1>1, <1>2, StepDirectory, RunsAlways, PTL DEF Spec

-----------------------------------------------------------------------------
(* The snapshot *)

\* A copy of a completed run, whole or not.
OfCompletedRun(dir) ==
  Exists(dir) =>
    /\ dir.run \in Runs /\ completed[dir.run]
    /\ dir.files \subseteq {"config", "result", "stats", "audit"}
    /\ dir.whole => dir.files = {"config", "result", "stats", "audit"}

SnapshotInv == OfCompletedRun(latest) /\ OfCompletedRun(backup)

\* Completed runs stay completed, and a publishing run has one more.
LEMMA MoveCompleted ==
  ASSUME TypeOK, NEW r \in Runs, RunInv(r), Move(r)
  PROVE  \A s \in Runs : completed[s] => completed'[s]
<1> USE DEF TypeOK, RunInv
<1>1. CASE OperationReturns(r) /\ UNCHANGED creation
  BY <1>1 DEF OperationReturns
<1>2. CASE OperationRaises(r) /\ UNCHANGED creation
  BY <1>2 DEF OperationRaises
<1>3. CASE WriteResult(r) /\ UNCHANGED creation
  BY <1>3 DEF WriteResult
<1>4. CASE WriteResultFails(r) /\ UNCHANGED creation
  BY <1>4 DEF WriteResultFails
<1>5. CASE Complete(r) /\ UNCHANGED creation
  BY <1>5 DEF Complete
<1>6. CASE MarkIncomplete(r) /\ UNCHANGED creation
  BY <1>6 DEF MarkIncomplete
<1>7. CASE WriteStats(r) /\ UNCHANGED creation
  BY <1>7 DEF WriteStats
<1>8. CASE WriteAudit(r) /\ UNCHANGED creation
  BY <1>8 DEF WriteAudit
<1>9. CASE WriteFails(r) /\ UNCHANGED creation
  BY <1>9 DEF WriteFails
<1>10. CASE BeginStaging(r) /\ UNCHANGED creation
  BY <1>10 DEF BeginStaging
<1>11. CASE FinishStaging(r) /\ UNCHANGED creation
  BY <1>11 DEF FinishStaging, Fail
<1>12. CASE FindBackup(r) /\ UNCHANGED creation
  BY <1>12 DEF FindBackup
<1>13. CASE FindLatest(r) /\ UNCHANGED creation
  BY <1>13 DEF FindLatest
<1>14. CASE DropBackup(r) /\ UNCHANGED creation
  BY <1>14 DEF DropBackup, Fail
<1>15. CASE EmptyBackup(r) /\ UNCHANGED creation
  BY <1>15 DEF EmptyBackup, Fail
<1>16. CASE RestoreBackup(r) /\ UNCHANGED creation
  BY <1>16 DEF RestoreBackup, Fail
<1>17. CASE HaveLatest(r) /\ UNCHANGED creation
  BY <1>17 DEF HaveLatest
<1>18. CASE MoveLatest(r) /\ UNCHANGED creation
  BY <1>18 DEF MoveLatest, Fail
<1>19. CASE Install(r) /\ UNCHANGED creation
  BY <1>19 DEF Install, Snapshot
<1>20. CASE RollBack(r) /\ UNCHANGED creation
  BY <1>20 DEF RollBack, Fail
<1>21. CASE LookAgain(r) /\ UNCHANGED creation
  BY <1>21 DEF LookAgain, Fail
<1>22. CASE MoveBack(r) /\ UNCHANGED creation
  BY <1>22 DEF MoveBack, Fail
<1>23. CASE RemoveBackup(r) /\ UNCHANGED creation
  BY <1>23 DEF RemoveBackup
<1>24. CASE FinishBackup(r) /\ UNCHANGED creation
  BY <1>24 DEF FinishBackup
<1>25. CASE Leave(r) /\ UNCHANGED creation
  BY <1>25 DEF Leave, ExitCode
<1>26. CASE Refuse(r)
  BY <1>26 DEF Refuse, Begin
<1>27. CASE ChooseDirectory(r)
  BY <1>27 DEF ChooseDirectory, Begin
<1>28. CASE MakeDirectory(r)
  BY <1>28 DEF MakeDirectory
<1>29. CASE Interrupt(r)
  BY <1>29 DEF Interrupt, Publishing
<1>30. CASE Kill(r)
  BY <1>30 DEF Kill
<1> QED
  BY <1>1, <1>2, <1>3, <1>4, <1>5, <1>6, <1>7, <1>8, <1>9, <1>10, <1>11, <1>12, <1>13, <1>14, <1>15, <1>16, <1>17, <1>18, <1>19, <1>20, <1>21, <1>22, <1>23, <1>24, <1>25, <1>26, <1>27, <1>28, <1>29,
     <1>30 DEF Move, Step

\* The copy of a publishing run is one of a completed run.
LEMMA SnapshotCompleted ==
  ASSUME TypeOK, NEW r \in Runs, RunInv(r), pc[r] = "install"
  PROVE  OfCompletedRun(Snapshot(r))
<1>1. /\ completed[r] /\ "failure" \notin files[r]
      /\ {"config", "result", "stats", "audit"} \subseteq files[r]
  BY DEF RunInv, FilesInv, CourseInv, Publishing
<1>2. files[r] \ {"worktree"} = {"config", "result", "stats", "audit"}
  BY <1>1 DEF TypeOK, File
<1> QED
  BY <1>1, <1>2 DEF OfCompletedRun, Snapshot

\* What a step leaves at the two places is absent, was at one of them, is torn, or
\* is the copy of the run that installs.
LEMMA MoveDisk ==
  ASSUME TypeOK, NEW r \in Runs, Move(r)
  PROVE  /\ latest' \in {latest, backup, Absent} \/ (pc[r] = "install" /\ latest' = Snapshot(r))
         /\ backup' \in {latest, backup, Absent}
            \/ (Exists(backup) /\ \E left \in SUBSET backup.files : backup' = Torn(backup, left))
<1> USE DEF diskVars
<1>1. CASE OperationReturns(r) /\ UNCHANGED creation
  BY <1>1 DEF OperationReturns
<1>2. CASE OperationRaises(r) /\ UNCHANGED creation
  BY <1>2 DEF OperationRaises
<1>3. CASE WriteResult(r) /\ UNCHANGED creation
  BY <1>3 DEF WriteResult
<1>4. CASE WriteResultFails(r) /\ UNCHANGED creation
  BY <1>4 DEF WriteResultFails
<1>5. CASE Complete(r) /\ UNCHANGED creation
  BY <1>5 DEF Complete
<1>6. CASE MarkIncomplete(r) /\ UNCHANGED creation
  BY <1>6 DEF MarkIncomplete
<1>7. CASE WriteStats(r) /\ UNCHANGED creation
  BY <1>7 DEF WriteStats
<1>8. CASE WriteAudit(r) /\ UNCHANGED creation
  BY <1>8 DEF WriteAudit
<1>9. CASE WriteFails(r) /\ UNCHANGED creation
  BY <1>9 DEF WriteFails
<1>10. CASE BeginStaging(r) /\ UNCHANGED creation
  BY <1>10 DEF BeginStaging
<1>11. CASE FinishStaging(r) /\ UNCHANGED creation
  BY <1>11 DEF FinishStaging, Fail
<1>12. CASE FindBackup(r) /\ UNCHANGED creation
  BY <1>12 DEF FindBackup
<1>13. CASE FindLatest(r) /\ UNCHANGED creation
  BY <1>13 DEF FindLatest
<1>14. CASE DropBackup(r) /\ UNCHANGED creation
  BY <1>14 DEF DropBackup, Fail
<1>15. CASE EmptyBackup(r) /\ UNCHANGED creation
  BY <1>15 DEF EmptyBackup, Fail
<1>16. CASE RestoreBackup(r) /\ UNCHANGED creation
  BY <1>16 DEF RestoreBackup, Fail
<1>17. CASE HaveLatest(r) /\ UNCHANGED creation
  BY <1>17 DEF HaveLatest
<1>18. CASE MoveLatest(r) /\ UNCHANGED creation
  BY <1>18 DEF MoveLatest, Fail
<1>19. CASE Install(r) /\ UNCHANGED creation
  BY <1>19 DEF Install, Snapshot
<1>20. CASE RollBack(r) /\ UNCHANGED creation
  BY <1>20 DEF RollBack, Fail
<1>21. CASE LookAgain(r) /\ UNCHANGED creation
  BY <1>21 DEF LookAgain, Fail
<1>22. CASE MoveBack(r) /\ UNCHANGED creation
  BY <1>22 DEF MoveBack, Fail
<1>23. CASE RemoveBackup(r) /\ UNCHANGED creation
  BY <1>23 DEF RemoveBackup
<1>24. CASE FinishBackup(r) /\ UNCHANGED creation
  BY <1>24 DEF FinishBackup
<1>25. CASE Leave(r) /\ UNCHANGED creation
  BY <1>25 DEF Leave, ExitCode
<1>26. CASE Refuse(r)
  BY <1>26 DEF Refuse, Begin
<1>27. CASE ChooseDirectory(r)
  BY <1>27 DEF ChooseDirectory, Begin
<1>28. CASE MakeDirectory(r)
  BY <1>28 DEF MakeDirectory
<1>29. CASE Interrupt(r)
  BY <1>29 DEF Interrupt, Publishing
<1>30. CASE Kill(r)
  BY <1>30 DEF Kill
<1> QED
  BY <1>1, <1>2, <1>3, <1>4, <1>5, <1>6, <1>7, <1>8, <1>9, <1>10, <1>11, <1>12, <1>13, <1>14, <1>15, <1>16, <1>17, <1>18, <1>19, <1>20, <1>21, <1>22, <1>23, <1>24, <1>25, <1>26, <1>27, <1>28, <1>29,
     <1>30 DEF Move, Step

\* Every step leaves a completed run's copy, or none, at both places.
LEMMA StepSnapshot == RunsInv /\ SnapshotInv /\ [Next]_vars => SnapshotInv'
<1> SUFFICES ASSUME RunsInv, SnapshotInv, [Next]_vars PROVE SnapshotInv'
  OBVIOUS
<1>1. CASE UNCHANGED vars
  BY <1>1 DEF vars, localVars, diskVars, SnapshotInv, OfCompletedRun
<1>2. ASSUME NEW r \in Runs, Move(r) PROVE SnapshotInv'
  <2>1. \A s \in Runs : completed[s] => completed'[s]
    BY <1>2, MoveCompleted DEF RunsInv
  <2>2. ASSUME NEW dir, OfCompletedRun(dir)
        PROVE  Exists(dir) =>
                 /\ dir.run \in Runs /\ completed'[dir.run]
                 /\ dir.files \subseteq {"config", "result", "stats", "audit"}
                 /\ dir.whole => dir.files = {"config", "result", "stats", "audit"}
    BY <2>1, <2>2 DEF OfCompletedRun
  <2>3. OfCompletedRun(Absent)
    BY DEF OfCompletedRun, Exists
  <2>4. Exists(backup) => \A left \in SUBSET backup.files : OfCompletedRun(Torn(backup, left))
    BY DEF SnapshotInv, OfCompletedRun, Torn
  <2>5. pc[r] = "install" => OfCompletedRun(Snapshot(r))
    BY SnapshotCompleted DEF RunsInv
  <2>6. OfCompletedRun(latest)'
    <3>1. \/ latest' \in {latest, backup, Absent}
          \/ pc[r] = "install" /\ latest' = Snapshot(r)
      BY <1>2, MoveDisk DEF RunsInv
    <3>2. OfCompletedRun(latest')
      BY <3>1, <2>3, <2>5 DEF SnapshotInv
    <3> QED
      BY <3>2, <2>2 DEF OfCompletedRun, Exists, Absent
  <2>7. OfCompletedRun(backup)'
    <3>1. \/ backup' \in {latest, backup, Absent}
          \/ Exists(backup) /\ \E left \in SUBSET backup.files : backup' = Torn(backup, left)
      BY <1>2, MoveDisk DEF RunsInv
    <3>2. OfCompletedRun(backup')
      BY <3>1, <2>3, <2>4 DEF SnapshotInv
    <3> QED
      BY <3>2, <2>2 DEF OfCompletedRun, Exists, Absent
  <2> QED
    BY <2>6, <2>7 DEF SnapshotInv
<1> QED
  BY <1>1, <1>2, NextIsMove

-----------------------------------------------------------------------------
(* Recovery, as long as commands come one after the other *)

\* The newest snapshot is at one of the two places.
Recoverable ==
  installed # "none" =>
    \/ latest.run = installed /\ latest.whole
    \/ ~ Exists(latest) /\ backup.run = installed /\ backup.whole

\* No snapshot of which a part is missing is, or can come to be, all that there is.
Whole ==
  /\ Exists(latest) => latest.whole
  /\ Exists(backup) /\ ~ backup.whole => Exists(latest)

\* The steps that remove a backup.
Removing == {"dropBackup", "emptyBackup", "removeBackup", "finishBackup"}

RecoveryInv ==
  ~ overlapped =>
    /\ \A r, s \in Runs : r \in Active /\ s \in Active => r = s
    /\ Recoverable /\ Whole
    /\ \A r \in Runs : pc[r] \in Removing => Exists(latest)

\* A step of the only active run keeps the newest snapshot, and removes a backup
\* only when there is a latest.
LEMMA MoveRecovery ==
  ASSUME TypeOK, NEW r \in Runs, Move(r), Recoverable, Whole, pc[r] \in Removing => Exists(latest),
         Free(latest) => ~ Exists(latest)
  PROVE  Recoverable' /\ Whole' /\ (pc'[r] \in Removing => Exists(latest)')
<1> USE DEF TypeOK, Goto, diskVars, history, Recoverable, Whole, Removing, Exists, Free
<1>1. CASE OperationReturns(r) /\ UNCHANGED creation
  BY <1>1 DEF OperationReturns
<1>2. CASE OperationRaises(r) /\ UNCHANGED creation
  BY <1>2 DEF OperationRaises
<1>3. CASE WriteResult(r) /\ UNCHANGED creation
  BY <1>3 DEF WriteResult
<1>4. CASE WriteResultFails(r) /\ UNCHANGED creation
  BY <1>4 DEF WriteResultFails
<1>5. CASE Complete(r) /\ UNCHANGED creation
  BY <1>5 DEF Complete
<1>6. CASE MarkIncomplete(r) /\ UNCHANGED creation
  BY <1>6 DEF MarkIncomplete
<1>7. CASE WriteStats(r) /\ UNCHANGED creation
  BY <1>7 DEF WriteStats
<1>8. CASE WriteAudit(r) /\ UNCHANGED creation
  BY <1>8 DEF WriteAudit
<1>9. CASE WriteFails(r) /\ UNCHANGED creation
  BY <1>9 DEF WriteFails
<1>10. CASE BeginStaging(r) /\ UNCHANGED creation
  BY <1>10 DEF BeginStaging
<1>11. CASE FinishStaging(r) /\ UNCHANGED creation
  BY <1>11 DEF FinishStaging, Fail
<1>12. CASE FindBackup(r) /\ UNCHANGED creation
  BY <1>12 DEF FindBackup
<1>13. CASE FindLatest(r) /\ UNCHANGED creation
  BY <1>13 DEF FindLatest
<1>14. CASE DropBackup(r) /\ UNCHANGED creation
  BY <1>14 DEF DropBackup, Fail, Torn, Absent
<1>15. CASE EmptyBackup(r) /\ UNCHANGED creation
  BY <1>15 DEF EmptyBackup, Fail, Torn, Absent
<1>16. CASE RestoreBackup(r) /\ UNCHANGED creation
  BY <1>16 DEF RestoreBackup, Fail, Torn, Absent
<1>17. CASE HaveLatest(r) /\ UNCHANGED creation
  BY <1>17 DEF HaveLatest
<1>18. CASE MoveLatest(r) /\ UNCHANGED creation
  BY <1>18 DEF MoveLatest, Fail, Torn, Absent
<1>19. CASE Install(r) /\ UNCHANGED creation
  BY <1>19 DEF Install, Snapshot, Torn, Absent
<1>20. CASE RollBack(r) /\ UNCHANGED creation
  BY <1>20 DEF RollBack, Fail, Torn, Absent
<1>21. CASE LookAgain(r) /\ UNCHANGED creation
  BY <1>21 DEF LookAgain, Fail, Torn, Absent
<1>22. CASE MoveBack(r) /\ UNCHANGED creation
  BY <1>22 DEF MoveBack, Fail, Torn, Absent
<1>23. CASE RemoveBackup(r) /\ UNCHANGED creation
  BY <1>23 DEF RemoveBackup, Torn, Absent
<1>24. CASE FinishBackup(r) /\ UNCHANGED creation
  BY <1>24 DEF FinishBackup, Torn, Absent
<1>25. CASE Leave(r) /\ UNCHANGED creation
  BY <1>25 DEF Leave, ExitCode
<1>26. CASE Refuse(r)
  BY <1>26 DEF Refuse, Begin
<1>27. CASE ChooseDirectory(r)
  BY <1>27 DEF ChooseDirectory, Begin
<1>28. CASE MakeDirectory(r)
  BY <1>28 DEF MakeDirectory
<1>29. CASE Interrupt(r)
  BY <1>29 DEF Interrupt, Publishing
<1>30. CASE Kill(r)
  BY <1>30 DEF Kill
<1> QED
  BY <1>1, <1>2, <1>3, <1>4, <1>5, <1>6, <1>7, <1>8, <1>9, <1>10, <1>11, <1>12, <1>13, <1>14, <1>15, <1>16, <1>17, <1>18, <1>19, <1>20, <1>21, <1>22, <1>23, <1>24, <1>25, <1>26, <1>27, <1>28, <1>29,
     <1>30 DEF Move, Step

\* A step that leaves commands in sequence is of the only one that is active.
LEMMA MoveAlone ==
  ASSUME TypeOK, NEW r \in Runs, Move(r), ~ overlapped',
         ~ overlapped => \A p, q \in Runs : p \in Active /\ q \in Active => p = q
  PROVE  /\ ~ overlapped
         /\ \A s \in Runs : s # r => s \notin Active
<1> USE DEF creation, Active, TypeOK
<1>1. CASE OperationReturns(r) /\ UNCHANGED creation
  BY <1>1 DEF OperationReturns
<1>2. CASE OperationRaises(r) /\ UNCHANGED creation
  BY <1>2 DEF OperationRaises
<1>3. CASE WriteResult(r) /\ UNCHANGED creation
  BY <1>3 DEF WriteResult
<1>4. CASE WriteResultFails(r) /\ UNCHANGED creation
  BY <1>4 DEF WriteResultFails
<1>5. CASE Complete(r) /\ UNCHANGED creation
  BY <1>5 DEF Complete
<1>6. CASE MarkIncomplete(r) /\ UNCHANGED creation
  BY <1>6 DEF MarkIncomplete
<1>7. CASE WriteStats(r) /\ UNCHANGED creation
  BY <1>7 DEF WriteStats
<1>8. CASE WriteAudit(r) /\ UNCHANGED creation
  BY <1>8 DEF WriteAudit
<1>9. CASE WriteFails(r) /\ UNCHANGED creation
  BY <1>9 DEF WriteFails
<1>10. CASE BeginStaging(r) /\ UNCHANGED creation
  BY <1>10 DEF BeginStaging
<1>11. CASE FinishStaging(r) /\ UNCHANGED creation
  BY <1>11 DEF FinishStaging, Fail
<1>12. CASE FindBackup(r) /\ UNCHANGED creation
  BY <1>12 DEF FindBackup
<1>13. CASE FindLatest(r) /\ UNCHANGED creation
  BY <1>13 DEF FindLatest
<1>14. CASE DropBackup(r) /\ UNCHANGED creation
  BY <1>14 DEF DropBackup, Fail
<1>15. CASE EmptyBackup(r) /\ UNCHANGED creation
  BY <1>15 DEF EmptyBackup, Fail
<1>16. CASE RestoreBackup(r) /\ UNCHANGED creation
  BY <1>16 DEF RestoreBackup, Fail
<1>17. CASE HaveLatest(r) /\ UNCHANGED creation
  BY <1>17 DEF HaveLatest
<1>18. CASE MoveLatest(r) /\ UNCHANGED creation
  BY <1>18 DEF MoveLatest, Fail
<1>19. CASE Install(r) /\ UNCHANGED creation
  BY <1>19 DEF Install, Snapshot
<1>20. CASE RollBack(r) /\ UNCHANGED creation
  BY <1>20 DEF RollBack, Fail
<1>21. CASE LookAgain(r) /\ UNCHANGED creation
  BY <1>21 DEF LookAgain, Fail
<1>22. CASE MoveBack(r) /\ UNCHANGED creation
  BY <1>22 DEF MoveBack, Fail
<1>23. CASE RemoveBackup(r) /\ UNCHANGED creation
  BY <1>23 DEF RemoveBackup
<1>24. CASE FinishBackup(r) /\ UNCHANGED creation
  BY <1>24 DEF FinishBackup
<1>25. CASE Leave(r) /\ UNCHANGED creation
  BY <1>25 DEF Leave, ExitCode
<1>26. CASE Refuse(r)
  BY <1>26 DEF Refuse, Begin
<1>27. CASE ChooseDirectory(r)
  BY <1>27 DEF ChooseDirectory, Begin
<1>28. CASE MakeDirectory(r)
  BY <1>28 DEF MakeDirectory
<1>29. CASE Interrupt(r)
  BY <1>29 DEF Interrupt, Publishing
<1>30. CASE Kill(r)
  BY <1>30 DEF Kill
<1> QED
  BY <1>1, <1>2, <1>3, <1>4, <1>5, <1>6, <1>7, <1>8, <1>9, <1>10, <1>11, <1>12, <1>13, <1>14, <1>15, <1>16, <1>17, <1>18, <1>19, <1>20, <1>21, <1>22, <1>23, <1>24, <1>25, <1>26, <1>27, <1>28, <1>29,
     <1>30 DEF Move, Step

\* Every step keeps the newest snapshot recoverable.
LEMMA StepRecovery == TypeOK /\ SnapshotInv /\ RecoveryInv /\ [Next]_vars => RecoveryInv'
<1> SUFFICES ASSUME TypeOK, SnapshotInv, RecoveryInv, [Next]_vars PROVE RecoveryInv'
  OBVIOUS
<1>1. CASE UNCHANGED vars
  BY <1>1 DEF vars, localVars, diskVars, history, creation, RecoveryInv, Recoverable, Whole,
              Active, Exists
<1>2. ASSUME NEW r \in Runs, Move(r), ~ overlapped'
      PROVE  /\ \A p, q \in Runs : p \in Active' /\ q \in Active' => p = q
             /\ Recoverable' /\ Whole'
             /\ \A s \in Runs : pc'[s] \in Removing => Exists(latest)'
  <2>1. ~ overlapped /\ \A s \in Runs : s # r => s \notin Active
    BY <1>2, MoveAlone DEF RecoveryInv
  <2>2. \A s \in Runs : s # r => pc'[s] = pc[s]
    BY <1>2, OthersKept
  <2>3. \A s \in Runs : s # r => s \notin Active' /\ pc'[s] \notin Removing
    BY <2>1, <2>2 DEF Active, Removing
  <2>4. Free(latest) => ~ Exists(latest)
    BY <2>1 DEF RecoveryInv, Whole, SnapshotInv, OfCompletedRun, Free
  <2>5. Recoverable' /\ Whole' /\ (pc'[r] \in Removing => Exists(latest)')
    BY <1>2, <2>1, <2>4, MoveRecovery DEF RecoveryInv
  <2> QED
    BY <2>3, <2>5
<1> QED
  BY <1>1, <1>2, NextIsMove DEF RecoveryInv

\* Nothing is installed yet.
LEMMA RecoveryInit == Init => RecoveryInv
BY DEF Init, RecoveryInv, Recoverable, Whole, Exists, Active, Removing

\* Both hold throughout.
LEMMA SnapshotAlways == Spec => [](SnapshotInv /\ RecoveryInv)
<1>1. Init => SnapshotInv
  BY DEF Init, SnapshotInv, OfCompletedRun, Exists
<1> QED
  BY <1>1, RecoveryInit, StepSnapshot, StepRecovery, RunsAlways, Types, PTL DEF Spec

\* The newest snapshot survives any sequence of failures, interrupts and kills.
THEOREM Survival == Spec => []SnapshotSurvives
<1>1. RecoveryInv => SnapshotSurvives
  BY DEF RecoveryInv, Recoverable, SnapshotSurvives
<1> QED
  BY <1>1, SnapshotAlways, PTL

\* latest is of a completed run, whoever publishes at the same time, and has all its
\* accounts unless a command moved back what another one was removing.
THEOREM CompletedLatest == Spec => []LatestIsCompletedRun
<1>1. SnapshotInv /\ RecoveryInv => LatestIsCompletedRun
  BY DEF SnapshotInv, OfCompletedRun, RecoveryInv, Whole, LatestIsCompletedRun
<1> QED
  BY <1>1, SnapshotAlways, PTL
=============================================================================
