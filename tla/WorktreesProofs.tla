-------------------------- MODULE WorktreesProofs ---------------------------
(***************************************************************************)
(* The properties of Worktrees, for any files, manifests, limits and       *)
(* bounds.                                                                 *)
(***************************************************************************)
EXTENDS WorktreesProperties, SequenceTheorems, TLAPS

-----------------------------------------------------------------------------
(* Types *)

\* The values of the model have their types.
LEMMA Values ==
  /\ NoTree \in Tree /\ NoEdits \in Edits /\ NoPatch \in Patches
  /\ NoConfig \in Audits /\ NoProject \in Projects
  /\ << 1, 1 >> \in Round
  /\ Untouched \in [round : Round \cup {<< 0, 0 >>}, tidy : BOOLEAN]
BY RoundsAssumption DEF NoTree, NoEdits, NoPatch, NoConfig, Projects, Tree, Edits, Patches,
  Audits, Round, Untouched

\* Everything starts with its type.
LEMMA InitTypes == Init => TypeOK
<1> SUFFICES ASSUME Init PROVE TypeOK
  OBVIOUS
<1>1. head \in Tree /\ work \in Tree
  BY FilesAssumption DEF Init, Tree
<1>2. calls \in Nat /\ changed \in Nat /\ irregular \in BOOLEAN
  BY DEF Init
<1> QED
  BY <1>1, <1>2, Values DEF Init, TypeOK

\* A round is an analysis and a patch round.
LEMMA Rounds == ASSUME NEW r \in Round
  PROVE r = << r[1], r[2] >> /\ r[1] \in 1 .. MaxAnalyses /\ r[2] \in 1 .. MaxPatches
BY DEF Round

\* What is written has its type.
LEMMA WrittenTypes == TypeOK => \A tidy \in BOOLEAN : Written(tidy) \in Edits
BY DEF TypeOK, Written, Edits

\* A patch that is taken has its type.
LEMMA PatchTypes == TypeOK => \A files \in SUBSET Files : Patch(files) \in Patches
BY Values DEF TypeOK, Patch, Patches, Edits

\* The next intents to add, and the patch Diff takes, have their types.
LEMMA DiffTypes == TypeOK => Diff \in Patches /\ IntentToAdd \subseteq Files
<1> SUFFICES ASSUME TypeOK PROVE Diff \in Patches /\ IntentToAdd \subseteq Files
  OBVIOUS
<1>1. IntentToAdd \subseteq Files
  BY DEF IntentToAdd, TypeOK
<1>2. Compared(IntentToAdd) \subseteq Files
  BY <1>1 DEF Compared
<1> QED
  BY <1>1, <1>2, PatchTypes DEF Diff

\* A change of some files, by a tool or a test, keeps the types.
LEMMA ChangeTypes ==
  ASSUME TypeOK, NEW written \in Edits, NEW files, Change(files, written), irregular' \in BOOLEAN
  PROVE  TypeOK'
BY DEF Change, TypeOK, Edits, target, start, patches, history, user

\* The next round has its type.
LEMMA NextRoundTypes ==
  ASSUME TypeOK, NEW patch \in Patches, NextRound(patch)
  PROVE  kept' \in Patches /\ last' \in Edits /\ round' \in Round /\ pc' \in {"create", "stopped"}
<1>1. round' \in Round
  BY Rounds, RoundsAssumption DEF NextRound, TypeOK, Round
<1> QED
  BY <1>1, Values DEF NextRound, TypeOK

LEMMA StepTypes == TypeOK /\ [Next]_vars => TypeOK'
<1> SUFFICES ASSUME TypeOK, [Next]_vars PROVE TypeOK'
  OBVIOUS
<1> USE DEF target, start, worktree, patches, tools, history, user
<1>1. CASE Load
  BY <1>1 DEF Load, TypeOK, Projects
<1>2. CASE Gate
  BY <1>2 DEF Gate, TypeOK
<1>3. CASE Record
  BY <1>3, Values DEF Record, TypeOK, AuditState, Audits, Dirty
<1>4. CASE Baseline
  BY <1>4 DEF Baseline, TypeOK, Tree
<1>5. CASE Analyze
  BY <1>5, Values DEF Analyze, TypeOK
<1>6. CASE CreateWorktree
  BY <1>6, Values DEF CreateWorktree, WorktreeName, TypeOK
<1>7. CASE Replay
  BY <1>7 DEF Replay, TypeOK, Patches
<1>8. CASE WriteFile
  BY <1>8, ChangeTypes, WrittenTypes, Values DEF WriteFile, TypeOK
<1>9. CASE PatchFiles
  BY <1>9, ChangeTypes, WrittenTypes DEF PatchFiles, TypeOK
<1>10. CASE RunTests
  BY <1>10, ChangeTypes, WrittenTypes DEF RunTests, TypeOK
<1>11. CASE AgentReturns
  BY <1>11 DEF AgentReturns, TypeOK
<1>12. CASE Discard
  BY <1>12, NextRoundTypes, Values DEF Discard, TypeOK
<1>13. CASE Classify
  BY <1>13 DEF Classify, TypeOK
<1>14. CASE Format
  BY <1>14, DiffTypes DEF Format, Gofmt, TypeOK, Edits
<1>15. CASE Build
  <2>1. Written(TRUE) \in Edits
    BY WrittenTypes
  <2>2. edits' \in Edits
    BY <1>15, <2>1 DEF Build, TypeOK, Edits
  <2>3. built' = built \/ built' = [held |-> TRUE, base |-> base, edits |-> edits']
    BY <1>15 DEF Build
  <2>5. [held |-> TRUE, base |-> base, edits |-> edits'] \in Patches
    BY <2>2 DEF TypeOK, Patches
  <2>6. built' \in Patches
    BY <2>3, <2>5 DEF TypeOK
  <2>4. pc' \in {"candidate", "retry"}
    BY <1>15 DEF Build
  <2> QED
    BY <1>15, <2>2, <2>4, <2>6 DEF Build, TypeOK
<1>16. CASE Retry
  BY <1>16, DiffTypes, NextRoundTypes DEF Retry, TypeOK
<1>17. CASE RecordCandidate
  BY <1>17, DiffTypes DEF RecordCandidate, TypeOK
<1>18. CASE Revise
  BY <1>18, NextRoundTypes DEF Revise, TypeOK
<1>19. CASE Reanalyse
  BY <1>19, Rounds, RoundsAssumption DEF Reanalyse, TypeOK, Round
<1>20. CASE Decide
  BY <1>20 DEF Decide, TypeOK
<1>21. CASE Raise
  BY <1>21 DEF Raise, TypeOK
<1>22. CASE UserEdits
  BY <1>22 DEF UserEdits, Changing, TypeOK, Tree
<1>23. CASE UserCommits
  BY <1>23 DEF UserCommits, Changing, TypeOK, Tree
<1>24. CASE UNCHANGED vars
  BY <1>24 DEF vars, TypeOK
<1> QED
  BY <1>1, <1>2, <1>3, <1>4, <1>5, <1>6, <1>7, <1>8, <1>9, <1>10, <1>11, <1>12, <1>13, <1>14,
     <1>15, <1>16, <1>17, <1>18, <1>19, <1>20, <1>21, <1>22, <1>23, <1>24 DEF Next

\* Every variable has its type in every reachable state.
THEOREM Types == Spec => []TypeOK
BY InitTypes, StepTypes, PTL DEF Spec

-----------------------------------------------------------------------------
(* What a patch shows *)

\* The index has an intent to add of new files only, and of none that is ignored.
AddedIsNew == \A f \in added : base[f] = 0 /\ f \notin Ignored

\* A patch of a worktree has its edits that Git shows.
Shows(patch, tree, done) ==
  /\ patch.held /\ patch.base = tree
  /\ \A f \in Files : patch.edits[f] = IF Shown(tree, f) THEN done[f] ELSE Untouched

\* GitWorktree.diff takes what Git shows.
LEMMA DiffShows == TypeOK /\ AddedIsNew => Shows(Diff, base, edits)
<1> SUFFICES ASSUME TypeOK, AddedIsNew PROVE Shows(Diff, base, edits)
  OBVIOUS
<1>1. Diff.held /\ Diff.base = base
  BY DEF Diff, Patch
<1>2. ASSUME NEW f \in Files
      PROVE  Diff.edits[f] = IF Shown(base, f) THEN edits[f] ELSE Untouched
  <2>1. Diff.edits[f] = IF f \in Compared(IntentToAdd) THEN edits[f] ELSE Untouched
    BY DEF Diff, Patch
  <2>2. f \in Compared(IntentToAdd) => Shown(base, f)
    BY DEF Compared, IntentToAdd, AddedIsNew, Shown
  <2>3. Shown(base, f) /\ edits[f] # Untouched => f \in Compared(IntentToAdd)
    BY DEF Compared, IntentToAdd, Shown
  <2> QED
    BY <2>1, <2>2, <2>3
<1> QED
  BY <1>1, <1>2 DEF Shows

\* The intents to add stay new files that are not ignored.
LEMMA IntentIsNew == AddedIsNew => \A f \in IntentToAdd : base[f] = 0 /\ f \notin Ignored
BY DEF IntentToAdd, AddedIsNew

-----------------------------------------------------------------------------
(* Built *)

\* What Git shows of the worktree is formatted.
ShownIsTidy == \A f \in Files \cap GoFiles : Shown(base, f) => edits[f].tidy

\* From formatting on, what was formatted and built is what is there, and at last what
\* is recorded.
BuiltInv ==
  /\ AddedIsNew
  /\ pc \in {"build", "candidate"} => ShownIsTidy
  /\ pc = "candidate" => built.base = base /\ built.edits = edits
  /\ DeliveredIsBuilt

\* Nothing is built at first.
LEMMA InitBuilt == Init => BuiltInv
BY DEF Init, BuiltInv, AddedIsNew, DeliveredIsBuilt

\* Formatting, which is of every Go file that Git shows.
LEMMA FormatBuilt == TypeOK /\ BuiltInv /\ Format => BuiltInv'
<1> SUFFICES ASSUME TypeOK, BuiltInv, Format PROVE BuiltInv'
  OBVIOUS
<1>1. base' = base /\ added' = IntentToAdd /\ pc' \in {"build", "retry"}
  BY DEF Format, Gofmt
<1>2. AddedIsNew'
  BY <1>1, IntentIsNew DEF BuiltInv, AddedIsNew
<1>3. ASSUME pc' = "build" PROVE ShownIsTidy'
  <2> DEFINE go == {f \in Compared(IntentToAdd) \cap GoFiles : edits[f] # Untouched}
  <2>1. edits' = [f \in Files |-> IF f \in go THEN [round |-> edits[f].round, tidy |-> TRUE]
                                  ELSE edits[f]]
    BY <1>3 DEF Format, Gofmt
  <2>2. ASSUME NEW f \in Files \cap GoFiles, Shown(base, f) PROVE edits'[f].tidy
    <3>1. CASE edits[f] = Untouched
      BY <2>1, <3>1 DEF Untouched
    <3>2. CASE edits[f] # Untouched
      <4>1. f \in Compared(IntentToAdd)
        BY <2>2, <3>2 DEF Compared, IntentToAdd, Shown
      <4> QED
        BY <2>1, <3>2, <4>1
    <3> QED
      BY <3>1, <3>2
  <2> QED
    BY <1>1, <2>2 DEF ShownIsTidy, Shown
<1> QED
  BY <1>1, <1>2, <1>3 DEF BuiltInv, DeliveredIsBuilt

\* The build, which changes no Go file.
LEMMA BuildBuilt == TypeOK /\ BuiltInv /\ Build => BuiltInv'
<1> SUFFICES ASSUME TypeOK, BuiltInv, Build PROVE BuiltInv'
  OBVIOUS
<1>1. pc = "build" /\ pc' \in {"candidate", "retry"} /\ base' = base /\ added' = added
  BY DEF Build, worktree
<1>2. ASSUME pc' = "candidate" PROVE built'.base = base' /\ built'.edits = edits'
  <2>1. built' = [held |-> TRUE, base |-> base, edits |-> edits']
    BY <1>2 DEF Build
  <2> QED
    BY <1>1, <2>1
<1>3. \A f \in Files \cap GoFiles : edits'[f] = edits[f]
  BY FilesAssumption DEF Build
<1>4. ShownIsTidy'
  BY <1>1, <1>3 DEF BuiltInv, ShownIsTidy, Shown
<1> QED
  BY <1>1, <1>2, <1>4 DEF BuiltInv, AddedIsNew, DeliveredIsBuilt

\* Recording the candidate.
LEMMA RecordBuilt == TypeOK /\ BuiltInv /\ RecordCandidate => BuiltInv'
<1> SUFFICES ASSUME TypeOK, BuiltInv, RecordCandidate PROVE BuiltInv'
  OBVIOUS
<1>1. /\ pc = "candidate" /\ pc' = "review" /\ changes' = Diff /\ added' = IntentToAdd
      /\ base' = base /\ edits' = edits /\ built' = built
  BY DEF RecordCandidate, history
<1>2. AddedIsNew'
  BY <1>1, IntentIsNew DEF BuiltInv, AddedIsNew
<1>3. Shows(changes', base, edits)
  BY <1>1, DiffShows DEF BuiltInv
<1>4. built.base = base /\ built.edits = edits /\ ShownIsTidy
  BY <1>1 DEF BuiltInv
<1>5. ASSUME NEW f \in Files PROVE f \in GoFiles => changes'.edits[f].tidy
  BY <1>3, <1>4 DEF Shows, ShownIsTidy, Untouched
<1>6. DeliveredIsBuilt'
  BY <1>1, <1>3, <1>4, <1>5 DEF DeliveredIsBuilt, Shows, Shown
<1> QED
  BY <1>1, <1>2, <1>6 DEF BuiltInv

\* No step loses what was formatted and built.
LEMMA StepBuilt == TypeOK /\ BuiltInv /\ [Next]_vars => BuiltInv'
<1> SUFFICES ASSUME TypeOK, BuiltInv, [Next]_vars PROVE BuiltInv'
  OBVIOUS
<1> USE DEF target, start, worktree, patches, tools, history, user
<1>1. CASE Load
  BY <1>1 DEF Load, BuiltInv, AddedIsNew, DeliveredIsBuilt, ShownIsTidy
<1>2. CASE Gate
  BY <1>2 DEF Gate, BuiltInv, AddedIsNew, DeliveredIsBuilt, ShownIsTidy
<1>3. CASE Record
  BY <1>3 DEF Record, BuiltInv, AddedIsNew, DeliveredIsBuilt, ShownIsTidy
<1>4. CASE Baseline
  BY <1>4 DEF Baseline, BuiltInv, AddedIsNew, DeliveredIsBuilt, ShownIsTidy
<1>5. CASE Analyze
  BY <1>5 DEF Analyze, BuiltInv, AddedIsNew, DeliveredIsBuilt, ShownIsTidy
<1>6. CASE CreateWorktree
  BY <1>6 DEF CreateWorktree, BuiltInv, AddedIsNew, DeliveredIsBuilt
<1>7. CASE Replay
  BY <1>7 DEF Replay, BuiltInv, AddedIsNew, DeliveredIsBuilt, ShownIsTidy
<1>8. CASE WriteFile
  BY <1>8 DEF WriteFile, MayCall, Change, BuiltInv, AddedIsNew, DeliveredIsBuilt
<1>9. CASE PatchFiles
  BY <1>9 DEF PatchFiles, MayCall, Change, BuiltInv, AddedIsNew, DeliveredIsBuilt
<1>10. CASE RunTests
  BY <1>10 DEF RunTests, MayCall, Change, BuiltInv, AddedIsNew, DeliveredIsBuilt
<1>11. CASE AgentReturns
  BY <1>11 DEF AgentReturns, BuiltInv, AddedIsNew, DeliveredIsBuilt, ShownIsTidy
<1>12. CASE Discard
  BY <1>12 DEF Discard, NextRound, BuiltInv, AddedIsNew, DeliveredIsBuilt
<1>13. CASE Classify
  BY <1>13 DEF Classify, BuiltInv, AddedIsNew, DeliveredIsBuilt, ShownIsTidy
<1>14. CASE Format
  BY <1>14, FormatBuilt
<1>15. CASE Build
  BY <1>15, BuildBuilt
<1>16. CASE Retry
  BY <1>16, IntentIsNew DEF Retry, NextRound, BuiltInv, AddedIsNew, DeliveredIsBuilt
<1>17. CASE RecordCandidate
  BY <1>17, RecordBuilt
<1>18. CASE Revise
  BY <1>18 DEF Revise, NextRound, BuiltInv, AddedIsNew, DeliveredIsBuilt
<1>19. CASE Reanalyse
  BY <1>19 DEF Reanalyse, BuiltInv, AddedIsNew, DeliveredIsBuilt, ShownIsTidy
<1>20. CASE Decide
  BY <1>20 DEF Decide, BuiltInv, AddedIsNew, DeliveredIsBuilt, ShownIsTidy
<1>21. CASE Raise
  BY <1>21 DEF Raise, BuiltInv, AddedIsNew, DeliveredIsBuilt, ShownIsTidy
<1>22. CASE UserEdits
  BY <1>22 DEF UserEdits, Changing, BuiltInv, AddedIsNew, DeliveredIsBuilt, ShownIsTidy
<1>23. CASE UserCommits
  BY <1>23 DEF UserCommits, Changing, BuiltInv, AddedIsNew, DeliveredIsBuilt, ShownIsTidy
<1>24. CASE UNCHANGED vars
  BY <1>24 DEF vars, BuiltInv, AddedIsNew, DeliveredIsBuilt, ShownIsTidy
<1> QED
  BY <1>1, <1>2, <1>3, <1>4, <1>5, <1>6, <1>7, <1>8, <1>9, <1>10, <1>11, <1>12, <1>13, <1>14,
     <1>15, <1>16, <1>17, <1>18, <1>19, <1>20, <1>21, <1>22, <1>23, <1>24 DEF Next

\* What is recorded, reviewed and delivered is what was formatted and built.
THEOREM Built == Spec => []DeliveredIsBuilt
<1>1. TypeOK /\ BuiltInv /\ [Next]_vars => BuiltInv'
  BY StepBuilt
<1>2. BuiltInv => DeliveredIsBuilt
  BY DEF BuiltInv
<1> QED
  BY <1>1, <1>2, InitBuilt, Types, PTL DEF Spec

-----------------------------------------------------------------------------
(* Tests *)

\* A patch, or a worktree, leaves these tests of the tree it is against alone.
Untouches(tests, tree, done) ==
  \A f \in tests : tree[f] # 0 => done[f] = Untouched

Tests == GoTests \cap Files

\* Once a candidate is classified its worktree has the tests of its base, save those
\* whose names Git quotes; and once it is formatted these too.
TestsInv ==
  /\ pc \in {"format", "build", "retry", "candidate"} => Untouches(Tests \ Quoted, base, edits)
  /\ pc \in {"build", "candidate"} => Untouches(Tests, base, edits)
  /\ kept.held => Untouches(Tests \ Quoted, kept.base, kept.edits)
  /\ changes.held => Untouches(Tests, changes.base, changes.edits)

\* There are no patches at first.
LEMMA InitTests == Init => TestsInv
BY DEF Init, TestsInv, NoPatch

\* A patch of a worktree that leaves them alone does.
LEMMA DiffTests ==
  ASSUME TypeOK, NEW tests \in SUBSET Tests, Untouches(tests, base, edits)
  PROVE  Untouches(tests, Diff.base, Diff.edits)
BY DEF Untouches, Tests, Diff, Patch


\* Formatting, which fails on a file whose name Git quotes.
LEMMA FormatTests == TypeOK /\ TestsInv /\ Format => TestsInv'
<1> SUFFICES ASSUME TypeOK, TestsInv, Format PROVE TestsInv'
  OBVIOUS
<1>1. /\ pc = "format" /\ base' = base /\ kept' = kept /\ changes' = changes
      /\ pc' \in {"build", "retry"}
      /\ \A f \in Files : edits[f] = Untouched => edits'[f] = Untouched
  BY DEF Format, Gofmt, patches
<1>2. Untouches(Tests \ Quoted, base', edits')
  BY <1>1 DEF TestsInv, Untouches, Tests
<1>3. ASSUME pc' = "build" PROVE Untouches(Tests, base', edits')
  <2> DEFINE go == {f \in Compared(IntentToAdd) \cap GoFiles : edits[f] # Untouched}
  <2>1. go \cap Quoted = {}
    BY <1>3 DEF Format, Gofmt
  <2>2. ASSUME NEW f \in Tests, base[f] # 0, edits[f] # Untouched PROVE f \in go /\ f \notin Quoted
    BY <2>1, <2>2, FilesAssumption DEF Tests, Compared
  <2>3. \A f \in Tests : base[f] # 0 => edits[f] = Untouched
    BY <1>1, <2>2 DEF TestsInv, Untouches
  <2> QED
    BY <1>1, <2>3 DEF Untouches, Tests
<1> QED
  BY <1>1, <1>2, <1>3 DEF TestsInv

\* No step makes a patch that changes an existing test.
LEMMA StepTests == TypeOK /\ TestsInv /\ [Next]_vars => TestsInv'
<1> SUFFICES ASSUME TypeOK, TestsInv, [Next]_vars PROVE TestsInv'
  OBVIOUS
<1> USE DEF target, start, worktree, patches, tools, history, user
<1>1. CASE Load
  BY <1>1 DEF Load, TestsInv, NoPatch
<1>2. CASE Gate
  BY <1>2 DEF Gate, TestsInv, NoPatch
<1>3. CASE Record
  BY <1>3 DEF Record, TestsInv, NoPatch
<1>4. CASE Baseline
  BY <1>4 DEF Baseline, TestsInv, NoPatch
<1>5. CASE Analyze
  BY <1>5 DEF Analyze, TestsInv, NoPatch
<1>6. CASE CreateWorktree
  BY <1>6 DEF CreateWorktree, TestsInv, NoPatch
<1>7. CASE Replay
  BY <1>7 DEF Replay, TestsInv, NoPatch
<1>8. CASE WriteFile
  BY <1>8 DEF WriteFile, MayCall, Change, TestsInv, NoPatch
<1>9. CASE PatchFiles
  BY <1>9 DEF PatchFiles, MayCall, Change, TestsInv, NoPatch
<1>10. CASE RunTests
  BY <1>10 DEF RunTests, MayCall, Change, TestsInv, NoPatch
<1>11. CASE AgentReturns
  BY <1>11 DEF AgentReturns, TestsInv, NoPatch
<1>12. CASE Discard
  BY <1>12 DEF Discard, NextRound, TestsInv, NoPatch
<1>13. CASE Classify
  BY <1>13 DEF Classify, ModifiedTests, Untouches, Tests, TestsInv, NoPatch
<1>14. CASE Format
  BY <1>14, FormatTests
<1>15. CASE Build
  <2>1. pc = "build" /\ base' = base /\ kept' = kept /\ changes' = changes
    BY <1>15 DEF Build
  <2>2. \A f \in Tests : edits'[f] = edits[f]
    BY <1>15, FilesAssumption DEF Build, Tests
  <2>3. Untouches(Tests, base', edits')
    BY <2>1, <2>2 DEF TestsInv, Untouches
  <2>4. Untouches(Tests \ Quoted, base', edits')
    BY <2>3 DEF Untouches
  <2> QED
    BY <2>1, <2>3, <2>4 DEF TestsInv
<1>16. CASE Retry
  <2>1. Untouches(Tests \ Quoted, Diff.base, Diff.edits)
    BY <1>16, DiffTests DEF Retry, TestsInv
  <2> QED
    BY <1>16, <2>1 DEF Retry, NextRound, TestsInv
<1>17. CASE RecordCandidate
  <2>1. Untouches(Tests, Diff.base, Diff.edits)
    BY <1>17, DiffTests DEF RecordCandidate, TestsInv
  <2> QED
    BY <1>17, <2>1 DEF RecordCandidate, TestsInv
<1>18. CASE Revise
  <2>1. changes.held => Untouches(Tests \ Quoted, changes.base, changes.edits)
    BY DEF TestsInv, Untouches
  <2> QED
    BY <1>18, <2>1 DEF Revise, NextRound, TestsInv
<1>19. CASE Reanalyse
  <2>1. changes.held => Untouches(Tests \ Quoted, changes.base, changes.edits)
    BY DEF TestsInv, Untouches
  <2> QED
    BY <1>19, <2>1 DEF Reanalyse, TestsInv
<1>20. CASE Decide
  BY <1>20 DEF Decide, TestsInv, NoPatch
<1>21. CASE Raise
  BY <1>21 DEF Raise, TestsInv, NoPatch
<1>22. CASE UserEdits
  BY <1>22 DEF UserEdits, Changing, TestsInv, NoPatch
<1>23. CASE UserCommits
  BY <1>23 DEF UserCommits, Changing, TestsInv, NoPatch
<1>24. CASE UNCHANGED vars
  BY <1>24 DEF vars, TestsInv, NoPatch
<1> QED
  BY <1>1, <1>2, <1>3, <1>4, <1>5, <1>6, <1>7, <1>8, <1>9, <1>10, <1>11, <1>12, <1>13, <1>14,
     <1>15, <1>16, <1>17, <1>18, <1>19, <1>20, <1>21, <1>22, <1>23, <1>24 DEF Next

\* No patch changes a test that exists in the tree it is against.
THEOREM TestsUntouched == Spec => []BaseTestsUntouched
<1>1. TypeOK /\ TestsInv /\ [Next]_vars => TestsInv'
  BY StepTests
<1>2. TestsInv => BaseTestsUntouched
  BY DEF TestsInv, Untouches, Tests, BaseTestsUntouched
<1> QED
  BY <1>1, <1>2, InitTests, Types, PTL DEF Spec

-----------------------------------------------------------------------------
(* The target *)

\* While the user leaves the target alone, everything is of its one HEAD; before the
\* command has looked at it, nothing is of any.
HeadInv ==
  /\ pc \in {"load", "gate", "record"} => ~ config.known /\ ~ kept.held /\ ~ changes.held
  /\ "run" \notin disturbed =>
       /\ config.known => config.revision = head
       /\ kept.held => kept.base = head
       /\ changes.held => changes.base = head
       /\ pc \in {"replay", "edit", "classify", "format", "build", "retry", "candidate", "review"}
            => base = head

\* Nothing is known at first.
LEMMA InitHead == Init => HeadInv
BY DEF Init, HeadInv, NoConfig, NoPatch

\* Only the user moves HEAD.
LEMMA StepHead == TypeOK /\ HeadInv /\ [Next]_vars => HeadInv'
<1> SUFFICES ASSUME TypeOK, HeadInv, [Next]_vars PROVE HeadInv'
  OBVIOUS
<1> USE DEF target, start, worktree, patches, tools, history, user
<1>1. CASE Load
  BY <1>1 DEF Load, HeadInv, NoPatch
<1>2. CASE Gate
  BY <1>2 DEF Gate, HeadInv, NoPatch
<1>3. CASE Record
  BY <1>3 DEF Record, AuditState, HeadInv, NoPatch
<1>4. CASE Baseline
  BY <1>4 DEF Baseline, HeadInv, NoPatch
<1>5. CASE Analyze
  BY <1>5 DEF Analyze, HeadInv, NoPatch
<1>6. CASE CreateWorktree
  BY <1>6 DEF CreateWorktree, HeadInv, NoPatch
<1>7. CASE Replay
  BY <1>7 DEF Replay, HeadInv, NoPatch
<1>8. CASE WriteFile
  BY <1>8 DEF WriteFile, MayCall, Change, HeadInv, NoPatch
<1>9. CASE PatchFiles
  BY <1>9 DEF PatchFiles, MayCall, Change, HeadInv, NoPatch
<1>10. CASE RunTests
  BY <1>10 DEF RunTests, MayCall, Change, HeadInv, NoPatch
<1>11. CASE AgentReturns
  BY <1>11 DEF AgentReturns, HeadInv, NoPatch
<1>12. CASE Discard
  BY <1>12 DEF Discard, NextRound, HeadInv, NoPatch
<1>13. CASE Classify
  BY <1>13 DEF Classify, HeadInv, NoPatch
<1>14. CASE Format
  BY <1>14 DEF Format, Gofmt, HeadInv, NoPatch
<1>15. CASE Build
  BY <1>15 DEF Build, HeadInv, NoPatch
<1>16. CASE Retry
  BY <1>16 DEF Retry, NextRound, Diff, Patch, HeadInv, NoPatch
<1>17. CASE RecordCandidate
  BY <1>17 DEF RecordCandidate, Diff, Patch, HeadInv, NoPatch
<1>18. CASE Revise
  BY <1>18 DEF Revise, NextRound, HeadInv, NoPatch
<1>19. CASE Reanalyse
  BY <1>19 DEF Reanalyse, HeadInv, NoPatch
<1>20. CASE Decide
  BY <1>20 DEF Decide, HeadInv, NoPatch
<1>21. CASE Raise
  BY <1>21 DEF Raise, HeadInv, NoPatch
<1>22. CASE UserEdits
  BY <1>22 DEF UserEdits, Changing, HeadInv, NoPatch
<1>23. CASE UserCommits
  BY <1>23 DEF UserCommits, Changing, HeadInv, NoPatch
<1>24. CASE UNCHANGED vars
  BY <1>24 DEF vars, HeadInv, NoPatch
<1> QED
  BY <1>1, <1>2, <1>3, <1>4, <1>5, <1>6, <1>7, <1>8, <1>9, <1>10, <1>11, <1>12, <1>13, <1>14,
     <1>15, <1>16, <1>17, <1>18, <1>19, <1>20, <1>21, <1>22, <1>23, <1>24 DEF Next

-----------------------------------------------------------------------------
(* Revision *)

\* The phases of the command in which the current round has no worktree.
NoRound == {"load", "gate", "record", "baseline", "analyze", "create"}

Earlier(r) == r[1] < round[1] \/ (r[1] = round[1] /\ r[2] < round[2])

\* The worktrees are those of the rounds so far, and while its patch is reviewed the
\* worktree is still as it was when that was taken.
RevisionInv ==
  /\ AddedIsNew
  /\ pc = "review" => Shows(changes, base, edits)
  /\ kept.held => Shows(kept, kept.base, last)
  /\ \A r \in created : Earlier(r) \/ (r = round /\ pc \notin NoRound)
  /\ raised # "none" => pc = "stopped"
  /\ raised = "replay" => Empty(kept) \/ "run" \in disturbed
  /\ raised = "create" => git # "top"

\* No round has begun at first.
LEMMA InitRevision == Init => RevisionInv
BY DEF Init, RevisionInv, NoRound, AddedIsNew, NoPatch

\* The next round's worktree is a new one.
LEMMA NextRoundRevision ==
  ASSUME TypeOK, RevisionInv, NEW patch, NextRound(patch), patch.held => Shows(patch, base, edits),
         pc \notin NoRound,
         created' = created
  PROVE  /\ kept'.held => Shows(kept', kept'.base, last')
         /\ \A r \in created : Earlier(r)' \/ (r = round' /\ pc' \notin NoRound)
<1>1. kept'.held => Shows(kept', kept'.base, last')
  BY DEF NextRound, Shows
<1>2. ASSUME NEW r \in created
      PROVE  Earlier(r)' \/ (r = round' /\ pc' \notin NoRound)
  <2>1. Earlier(r) \/ r = round
    BY DEF RevisionInv, NoRound
  <2>2. r[1] \in Int /\ r[2] \in Int /\ round[1] \in Int /\ round[2] \in Int
    BY Rounds, RoundsAssumption DEF TypeOK
  <2>3. CASE round' = << round[1], round[2] + 1 >>
    BY <2>1, <2>2, <2>3 DEF NoRound, Earlier
  <2>4. CASE round' = round /\ pc' = "stopped"
    BY <2>1, <2>4 DEF NoRound, Earlier
  <2> QED
    BY <2>3, <2>4 DEF NextRound
<1> QED
  BY <1>1, <1>2

\* A kept candidate that is refused is empty, or HEAD has moved.
LEMMA ReplayRevision == TypeOK /\ HeadInv /\ RevisionInv /\ Replay => RevisionInv'
<1> SUFFICES ASSUME TypeOK, HeadInv, RevisionInv, Replay PROVE RevisionInv'
  OBVIOUS
<1>1. /\ pc = "replay" /\ kept' = kept /\ last' = last /\ created' = created /\ round' = round
      /\ added' = added /\ base' = base /\ disturbed' = disturbed /\ git' = git
      /\ pc' \in {"edit", "stopped"}
  BY DEF Replay, target, patches, history, user
<1>2. raised = "none"
  BY <1>1 DEF RevisionInv, NoRound
<1>3. raised' = "none" \/ (raised' = "replay" /\ pc' = "stopped")
  BY <1>2 DEF Replay
<1>4. ASSUME raised' = "replay" PROVE Empty(kept) \/ "run" \in disturbed
  <2>1. /\ kept.held
        /\ (\A f \in Files : kept.edits[f] = Untouched) \/ (\E f \in Files : kept.base[f] # base[f])
    BY <1>2, <1>4 DEF Replay
  <2>2. "run" \notin disturbed => kept.base = base
    BY <1>1, <2>1 DEF HeadInv
  <2> QED
    BY <2>1, <2>2 DEF Empty
<1>5. Empty(kept)' <=> Empty(kept)
  BY <1>1 DEF Empty
<1>6. \A r \in created' : Earlier(r)' \/ (r = round' /\ pc' \notin NoRound)
  BY <1>1 DEF RevisionInv, NoRound, Earlier
<1> QED
  BY <1>1, <1>2, <1>3, <1>4, <1>5, <1>6 DEF RevisionInv, NoRound, AddedIsNew

\* A worktree is created where there is none.
LEMMA CreateRevision == TypeOK /\ RevisionInv /\ CreateWorktree => RevisionInv'
<1> SUFFICES ASSUME TypeOK, RevisionInv, CreateWorktree PROVE RevisionInv'
  OBVIOUS
<1>1. /\ pc = "create" /\ kept' = kept /\ last' = last /\ round' = round
      /\ disturbed' = disturbed /\ git' = git /\ pc' \in {"replay", "stopped"}
  BY DEF CreateWorktree, target, patches, history, user
<1>2. raised = "none" /\ \A r \in created : Earlier(r)
  BY <1>1 DEF RevisionInv, NoRound
<1>3. round \notin created
  BY <1>2, Rounds, RoundsAssumption DEF NoRound, Earlier, TypeOK
<1>4. git = "top" => raised' = "none"
  BY <1>2, <1>3 DEF CreateWorktree, WorktreeName
<1>5. raised' = "none" \/ (raised' = "create" /\ pc' = "stopped")
  BY <1>2 DEF CreateWorktree
<1>6. created' \subseteq created \cup {round}
  BY DEF CreateWorktree, WorktreeName
<1>7. \A r \in created' : Earlier(r)' \/ (r = round' /\ pc' \notin NoRound)
  BY <1>1, <1>2, <1>6 DEF NoRound, Earlier
<1>8. AddedIsNew'
  BY DEF CreateWorktree, worktree, RevisionInv, AddedIsNew
<1> QED
  BY <1>1, <1>4, <1>5, <1>7, <1>8 DEF RevisionInv, NoRound

\* No step loses an edit or takes a directory twice.
LEMMA StepRevision == TypeOK /\ HeadInv /\ RevisionInv /\ [Next]_vars => RevisionInv'
<1> SUFFICES ASSUME TypeOK, HeadInv, RevisionInv, [Next]_vars PROVE RevisionInv'
  OBVIOUS
<1> USE DEF target, start, worktree, patches, tools, history, user
<1>1. CASE Load
  BY <1>1 DEF Load, RevisionInv, NoRound, AddedIsNew, Earlier, Empty
<1>2. CASE Gate
  BY <1>2 DEF Gate, RevisionInv, NoRound, AddedIsNew, Earlier, Empty
<1>3. CASE Record
  BY <1>3 DEF Record, RevisionInv, NoRound, AddedIsNew, Earlier, Empty
<1>4. CASE Baseline
  BY <1>4 DEF Baseline, RevisionInv, NoRound, AddedIsNew, Earlier, Empty
<1>5. CASE Analyze
  BY <1>5 DEF Analyze, NoPatch, RevisionInv, NoRound, AddedIsNew, Earlier, Empty
<1>6. CASE CreateWorktree
  BY <1>6, CreateRevision
<1>7. CASE Replay
  BY <1>7, ReplayRevision
<1>8. CASE WriteFile
  BY <1>8 DEF WriteFile, MayCall, Change, RevisionInv, NoRound, AddedIsNew, Earlier, Empty
<1>9. CASE PatchFiles
  BY <1>9 DEF PatchFiles, MayCall, Change, RevisionInv, NoRound, AddedIsNew, Earlier, Empty
<1>10. CASE RunTests
  BY <1>10 DEF RunTests, MayCall, Change, RevisionInv, NoRound, AddedIsNew, Earlier, Empty
<1>11. CASE AgentReturns
  BY <1>11 DEF AgentReturns, RevisionInv, NoRound, AddedIsNew, Earlier, Empty
<1>12. CASE Discard
  <2>1. NextRound(NoPatch) /\ pc = "classify" /\ created' = created /\ UNCHANGED << worktree, raised >>
    BY <1>12 DEF Discard
  <2>2. raised = "none"
    BY <2>1 DEF RevisionInv, NoRound
  <2>3. pc' \in {"create", "stopped"}
    BY <2>1 DEF NextRound
  <2> QED
    BY <2>1, <2>2, <2>3, NextRoundRevision DEF RevisionInv, NoRound, AddedIsNew, NoPatch
<1>13. CASE Classify
  BY <1>13 DEF Classify, RevisionInv, NoRound, AddedIsNew, Earlier, Empty
<1>14. CASE Format
  BY <1>14, IntentIsNew DEF Format, Gofmt, RevisionInv, NoRound, AddedIsNew, Earlier, Empty
<1>15. CASE Build
  BY <1>15 DEF Build, RevisionInv, NoRound, AddedIsNew, Earlier, Empty
<1>16. CASE Retry
  <2>1. /\ NextRound(Diff) /\ pc = "retry" /\ created' = created /\ base' = base
        /\ added' = IntentToAdd /\ raised' = raised
    BY <1>16 DEF Retry
  <2>2. raised = "none"
    BY <2>1 DEF RevisionInv, NoRound
  <2>3. pc' \in {"create", "stopped"}
    BY <2>1 DEF NextRound
  <2>4. AddedIsNew'
    BY <2>1, IntentIsNew DEF RevisionInv, NoRound, AddedIsNew
  <2>5. Shows(Diff, base, edits)
    BY DiffShows DEF RevisionInv, NoRound
  <2>6. /\ kept'.held => Shows(kept', kept'.base, last')
        /\ \A r \in created : Earlier(r)' \/ (r = round' /\ pc' \notin NoRound)
    BY <2>1, <2>5, NextRoundRevision DEF NoRound
  <2> QED
    BY <2>1, <2>2, <2>3, <2>4, <2>6 DEF RevisionInv, NoRound
<1>17. CASE RecordCandidate
  <2>1. /\ pc = "candidate" /\ changes' = Diff /\ base' = base /\ edits' = edits
        /\ added' = IntentToAdd
    BY <1>17 DEF RecordCandidate
  <2>2. Shows(changes', base', edits')
    BY <2>1, DiffShows DEF RevisionInv, NoRound
  <2>3. AddedIsNew'
    BY <2>1, IntentIsNew DEF RevisionInv, NoRound, AddedIsNew
  <2> QED
    BY <1>17, <2>1, <2>2, <2>3 DEF RecordCandidate, RevisionInv, NoRound, Earlier, Empty
<1>18. CASE Revise
  <2>1. /\ NextRound(changes) /\ pc = "review" /\ created' = created
        /\ UNCHANGED << worktree, raised >>
    BY <1>18 DEF Revise
  <2>2. raised = "none"
    BY <2>1 DEF RevisionInv, NoRound
  <2>3. pc' \in {"create", "stopped"}
    BY <2>1 DEF NextRound
  <2>4. Shows(changes, base, edits)
    BY <2>1 DEF RevisionInv, NoRound
  <2>5. /\ kept'.held => Shows(kept', kept'.base, last')
        /\ \A r \in created : Earlier(r)' \/ (r = round' /\ pc' \notin NoRound)
    BY <2>1, <2>4, NextRoundRevision DEF NoRound
  <2> QED
    BY <2>1, <2>2, <2>3, <2>5 DEF RevisionInv, NoRound, AddedIsNew
<1>19. CASE Reanalyse
  <2>1. /\ pc = "review" /\ created' = created /\ kept' = changes /\ last' = edits
        /\ pc' \in {"analyze", "stopped"} /\ UNCHANGED << worktree, raised >>
    BY <1>19 DEF Reanalyse
  <2>2. raised = "none"
    BY <2>1 DEF RevisionInv, NoRound
  <2>3. Shows(kept', kept'.base, last')
    BY <2>1 DEF RevisionInv, Shows
  <2>4. ASSUME NEW r \in created
        PROVE  Earlier(r)' \/ (r = round' /\ pc' \notin NoRound)
    <3>1. r = round \/ Earlier(r)
      BY DEF RevisionInv, NoRound
    <3>2. r[1] \in Int /\ r[2] \in Int /\ round[1] \in Int /\ round[2] \in Int
      BY Rounds, RoundsAssumption DEF TypeOK
    <3>3. CASE round' = << round[1] + 1, 1 >>
      BY <3>1, <3>2, <3>3 DEF NoRound, Earlier
    <3>4. CASE round' = round /\ pc' = "stopped"
      BY <3>1, <3>4 DEF NoRound, Earlier
    <3> QED
      BY <1>19, <3>3, <3>4 DEF Reanalyse
  <2> QED
    BY <2>1, <2>2, <2>3, <2>4 DEF RevisionInv, NoRound, AddedIsNew
<1>20. CASE Decide
  BY <1>20 DEF Decide, RevisionInv, NoRound, AddedIsNew, Earlier, Empty
<1>21. CASE Raise
  BY <1>21 DEF Raise, RevisionInv, NoRound, AddedIsNew, Earlier, Empty
<1>22. CASE UserEdits
  BY <1>22 DEF UserEdits, Changing, RevisionInv, NoRound, AddedIsNew, Earlier, Empty
<1>23. CASE UserCommits
  BY <1>23 DEF UserCommits, Changing, RevisionInv, NoRound, AddedIsNew, Earlier, Empty
<1>24. CASE UNCHANGED vars
  BY <1>24 DEF vars, RevisionInv, NoRound, AddedIsNew, Earlier, Empty
<1> QED
  BY <1>1, <1>2, <1>3, <1>4, <1>5, <1>6, <1>7, <1>8, <1>9, <1>10, <1>11, <1>12, <1>13, <1>14,
     <1>15, <1>16, <1>17, <1>18, <1>19, <1>20, <1>21, <1>22, <1>23, <1>24 DEF Next

\* A revision continues what the round before it ended with.
THEOREM Revision == Spec => []RevisionContinues
<1>1. TypeOK /\ HeadInv /\ [Next]_vars => HeadInv'
  BY StepHead
<1>2. TypeOK /\ HeadInv /\ RevisionInv /\ [Next]_vars => RevisionInv'
  BY StepRevision
<1>3. RevisionInv => RevisionContinues
  BY DEF RevisionInv, RevisionContinues, Shows
<1> QED
  BY <1>1, <1>2, <1>3, InitHead, InitRevision, Types, PTL DEF Spec

-----------------------------------------------------------------------------
(* The record *)

\* A working tree is of a revision, save for what Git ignores.
AsRevision(tree, revision) ==
  \A f \in Files \ Leftovers : tree[f] = revision[f] \/ (f \in Ignored /\ revision[f] = 0)

KnownClean(state) == state.known /\ ~ state.dirty

\* A clean target stays as it was recorded until the user changes it; and a formal
\* experiment passes its gate, and so records, only such a target.
RecordInv ==
  /\ pc \in {"load", "gate", "record"} =>
       config = NoConfig /\ analysed = NoTree
  /\ pc \in {"load", "gate", "record", "baseline", "analyze"} /\ round = << 1, 1 >> =>
       created = {}
  /\ pc \in {"load", "gate", "record"} => round = << 1, 1 >>
  /\ KnownClean(config) /\ "run" \notin disturbed =>
       /\ AsRevision(work, config.revision)
       /\ analysed = NoTree \/ AsRevision(analysed, config.revision)
  /\ project.formal /\ "gate" \notin disturbed =>
       /\ pc = "record" => KnownClean(AuditState)
       /\ created # {} \/ pc \notin {"load", "gate", "record", "stopped"} => KnownClean(config)

\* Nothing is recorded at first.
LEMMA InitRecord == Init => RecordInv
BY DEF Init, RecordInv, NoProject, KnownClean, NoConfig

\* What is recorded of a clean target is its HEAD, which its working tree is.
LEMMA AuditAsRevision ==
  TypeOK /\ KnownClean(AuditState) => AuditState.revision = head /\ AsRevision(work, head)
BY DEF KnownClean, AuditState, Dirty, AsRevision

\* The target is recorded.
LEMMA RecordRecord == TypeOK /\ RecordInv /\ Record => RecordInv'
<1> SUFFICES ASSUME TypeOK, RecordInv, Record PROVE RecordInv'
  OBVIOUS
<1>1. /\ pc = "record" /\ pc' = "baseline" /\ config' = AuditState /\ project' = project
      /\ work' = work /\ analysed' = analysed /\ round' = round /\ created' = created
      /\ disturbed' = disturbed
  BY DEF Record, target, user
<1>2. analysed = NoTree /\ round = << 1, 1 >> /\ created = {}
  BY <1>1 DEF RecordInv
<1>3. KnownClean(config)' => AsRevision(work', config'.revision)
  BY <1>1, AuditAsRevision DEF KnownClean
<1>4. project.formal /\ "gate" \notin disturbed => KnownClean(AuditState)
  BY <1>1 DEF RecordInv
<1>5. project.formal /\ "gate" \notin disturbed => KnownClean(config)'
  BY <1>1, <1>4 DEF KnownClean
<1> QED
  BY <1>1, <1>2, <1>3, <1>5 DEF RecordInv, AsRevision, KnownClean

\* The user changes the target.
LEMMA ChangingRecord == TypeOK /\ RecordInv /\ (UserEdits \/ UserCommits) => RecordInv'
<1> SUFFICES ASSUME TypeOK, RecordInv, UserEdits \/ UserCommits PROVE RecordInv'
  OBVIOUS
<1>1. /\ UNCHANGED << pc, project, config, analysed, round, created >>
      /\ pc # "stopped"
      /\ disturbed' = disturbed \cup (IF pc \in {"load", "gate"} THEN {}
                                      ELSE IF pc = "record" THEN {"gate"} ELSE {"run"})
  BY DEF UserEdits, UserCommits, Changing, start
<1>2. CASE pc \in {"load", "gate", "record"}
  BY <1>1, <1>2 DEF RecordInv, KnownClean, NoConfig
<1>3. CASE pc \notin {"load", "gate", "record"}
  BY <1>1, <1>3 DEF RecordInv, KnownClean
<1> QED
  BY <1>2, <1>3

\* Only the user makes the target another one.
LEMMA StepRecord == TypeOK /\ RecordInv /\ [Next]_vars => RecordInv'
<1> SUFFICES ASSUME TypeOK, RecordInv, [Next]_vars PROVE RecordInv'
  OBVIOUS
<1> USE DEF target, start, worktree, patches, tools, history, user
<1>1. CASE Load
  BY <1>1, Values DEF Load, AuditState, NoConfig, RecordInv, KnownClean
<1>2. CASE Gate
  <2>1. /\ pc = "gate" /\ pc' \in {"record", "stopped"} /\ UNCHANGED << project, config, analysed >>
        /\ UNCHANGED << git, head, work, round, created, disturbed >>
    BY <1>2 DEF Gate
  <2>2. pc' = "record" /\ project.formal => KnownClean(AuditState)
    BY <1>2 DEF Gate, KnownClean
  <2>3. KnownClean(AuditState)' <=> KnownClean(AuditState)
    BY <2>1 DEF KnownClean, AuditState, Dirty
  <2>4. config = NoConfig /\ created = {}
    BY <2>1 DEF RecordInv
  <2> QED
    BY <2>1, <2>2, <2>3, <2>4 DEF RecordInv, KnownClean, NoConfig
<1>3. CASE Record
  BY <1>3, RecordRecord
<1>4. CASE Baseline
  <2>1. /\ pc = "baseline" /\ pc' \in {"analyze", "stopped"}
        /\ UNCHANGED << project, config, analysed, round, created, disturbed >>
        /\ \A f \in Files \ Leftovers : work'[f] = work[f]
    BY <1>4 DEF Baseline
  <2>2. AsRevision(work, config.revision) => AsRevision(work', config.revision)
    BY <2>1 DEF AsRevision
  <2> QED
    BY <2>1, <2>2 DEF RecordInv, KnownClean
<1>5. CASE Analyze
  BY <1>5 DEF Analyze, RecordInv, KnownClean
<1>6. CASE CreateWorktree
  <2>1. /\ pc = "create" /\ pc' \in {"replay", "stopped"}
        /\ UNCHANGED << project, config, analysed, work, disturbed >>
    BY <1>6 DEF CreateWorktree
  <2>2. project.formal /\ "gate" \notin disturbed => KnownClean(config)
    BY <2>1 DEF RecordInv
  <2> QED
    BY <2>1, <2>2 DEF RecordInv, KnownClean
<1>7. CASE Replay
  BY <1>7 DEF Replay, RecordInv, KnownClean
<1>8. CASE WriteFile
  BY <1>8 DEF WriteFile, MayCall, Change, RecordInv, KnownClean
<1>9. CASE PatchFiles
  BY <1>9 DEF PatchFiles, MayCall, Change, RecordInv, KnownClean
<1>10. CASE RunTests
  BY <1>10 DEF RunTests, MayCall, Change, RecordInv, KnownClean
<1>11. CASE AgentReturns
  BY <1>11 DEF AgentReturns, RecordInv, KnownClean
<1>12. CASE Discard
  BY <1>12 DEF Discard, NextRound, RecordInv, KnownClean
<1>13. CASE Classify
  BY <1>13 DEF Classify, RecordInv, KnownClean
<1>14. CASE Format
  BY <1>14 DEF Format, Gofmt, RecordInv, KnownClean
<1>15. CASE Build
  BY <1>15 DEF Build, RecordInv, KnownClean
<1>16. CASE Retry
  BY <1>16 DEF Retry, NextRound, RecordInv, KnownClean
<1>17. CASE RecordCandidate
  BY <1>17 DEF RecordCandidate, RecordInv, KnownClean
<1>18. CASE Revise
  BY <1>18 DEF Revise, NextRound, RecordInv, KnownClean
<1>19. CASE Reanalyse
  <2>1. /\ pc = "review" /\ pc' \in {"analyze", "stopped"}
        /\ UNCHANGED << project, config, analysed, work, created, disturbed >>
        /\ round' = << round[1] + 1, 1 >> \/ pc' = "stopped"
    BY <1>19 DEF Reanalyse
  <2>2. pc' = "analyze" => round' # << 1, 1 >>
    BY <2>1, Rounds, RoundsAssumption DEF TypeOK
  <2> QED
    BY <2>1, <2>2 DEF RecordInv, KnownClean
<1>20. CASE Decide
  BY <1>20 DEF Decide, RecordInv, KnownClean
<1>21. CASE Raise
  BY <1>21 DEF Raise, RecordInv, KnownClean
<1>22. CASE UserEdits
  BY <1>22, ChangingRecord
<1>23. CASE UserCommits
  BY <1>23, ChangingRecord
<1>24. CASE UNCHANGED vars
  BY <1>24 DEF vars, AuditState, Dirty, RecordInv, KnownClean
<1> QED
  BY <1>1, <1>2, <1>3, <1>4, <1>5, <1>6, <1>7, <1>8, <1>9, <1>10, <1>11, <1>12, <1>13, <1>14,
     <1>15, <1>16, <1>17, <1>18, <1>19, <1>20, <1>21, <1>22, <1>23, <1>24 DEF Next

\* What run-config.json records is what the command works on.
THEOREM Recorded == Spec => []RecordIsOfTheRun
<1>1. TypeOK /\ HeadInv /\ [Next]_vars => HeadInv'
  BY StepHead
<1>2. TypeOK /\ RecordInv /\ [Next]_vars => RecordInv'
  BY StepRecord
<1>3. HeadInv /\ RecordInv => RecordIsOfTheRun
  <2> SUFFICES ASSUME HeadInv, RecordInv PROVE RecordIsOfTheRun
    OBVIOUS
  <2>1. ASSUME config.known, ~ config.dirty, "run" \notin disturbed
        PROVE  /\ analysed = NoTree \/ AsRevision(analysed, config.revision)
               /\ \A patch \in {kept, changes} : patch.held => patch.base = config.revision
    BY <2>1 DEF HeadInv, RecordInv, KnownClean
  <2>2. ASSUME project.formal, "gate" \notin disturbed, created # {}
        PROVE  config.known /\ ~ config.dirty
    BY <2>2 DEF RecordInv, KnownClean
  <2> QED
    BY <2>1, <2>2 DEF RecordIsOfTheRun, AsRevision
<1> QED
  BY <1>1, <1>2, <1>3, InitHead, InitRecord, Types, PTL DEF Spec

-----------------------------------------------------------------------------
(* Roots *)

InScope(f) == \E root \in WritableRoots(project, Top) : IsPrefix(root, Top \o f)

\* Edits are in scope, save those that builds and tests leave behind.
Scoped(done) == \A f \in Files \ Leftovers : done[f] # Untouched => InScope(f)

\* A gated project is a manifest's, and nothing is edited before.
RootsInv ==
  /\ pc = "gate" => \E m \in Manifests : Accepted(m) /\ project = LoadedProject(m)
  /\ ~ irregular => Scoped(edits) /\ Scoped(kept.edits) /\ Scoped(changes.edits)
  /\ pc = "load" => edits = NoEdits /\ kept = NoPatch /\ changes = NoPatch

\* A place below the worktree is its top and the file there.
LEMMA TopAndFile ==
  ASSUME NEW place \in Seq(STRING), IsPrefix(Top, place)
  PROVE  Top \o RelativeTo(place, Top) = place
<1> DEFINE file == RelativeTo(place, Top)
<1>1. Top \in Seq(STRING) /\ Len(Top) <= Len(place)
  BY PlacesAssumption DEF IsPrefix
<1>2. file \in Seq(STRING) /\ Len(file) = Len(place) - Len(Top)
  BY <1>1 DEF RelativeTo
<1>3. \A i \in 1 .. Len(Top) : Top[i] = place[i]
  <2>1. SubSeq(Top, 1, Len(Top)) = SubSeq(place, 1, Len(Top))
    BY DEF IsPrefix
  <2> QED
    BY <1>1, <2>1
<1>4. \A i \in 1 .. Len(file) : file[i] = place[Len(Top) + i]
  BY <1>1, <1>2 DEF RelativeTo
<1>5. Len(Top \o file) = Len(place) /\ Top \o file \in Seq(STRING)
  BY <1>1, <1>2
<1>6. \A i \in 1 .. Len(place) : (Top \o file)[i] = place[i]
  BY <1>1, <1>2, <1>3, <1>4
<1> QED
  BY <1>5, <1>6, SeqEqual

\* A path that is accepted leads into the scope.
LEMMA PathInScope ==
  ASSUME NEW path \in Paths, PathOf(Top, path, WritableRoots(project, Top)) # Refused
  PROVE  InScope(RelativeTo(PathOf(Top, path, WritableRoots(project, Top)), Top))
<1> DEFINE roots == WritableRoots(project, Top)
           place == PathOf(Top, path, roots)
<1>1. /\ place = Resolve(Join(Top, path)) /\ IsPrefix(Top, place)
      /\ \E root \in roots : IsPrefix(root, place)
  BY DEF PathOf
<1>2. Top \o RelativeTo(place, Top) = place
  BY <1>1, PlacesAssumption, TopAndFile
<1> QED
  BY <1>1, <1>2 DEF InScope

\* A header as Git's diffs have it is looked at and written at the same path.
LEMMA DiffHeaderPath ==
  ASSUME NEW side \in {"a", "b"}, NEW path \in Paths \ {<< >>}
  PROVE  LET header == << side >> \o path
         IN CheckedPath(header) = path /\ Len(header) > 1 /\ Tail(header) = path
<1> DEFINE header == << side >> \o path
           Names == STRING \cup {side}
<1>1. path \in Seq(Names) /\ path # << >> /\ << side >> \in Seq(Names)
  <2>1. path \in Seq(STRING)
    BY PlacesAssumption
  <2>2. Len(path) \in Nat /\ path = [i \in 1 .. Len(path) |-> path[i]]
        /\ \A i \in 1 .. Len(path) : path[i] \in Names
    BY <2>1
  <2> HIDE DEF Names
  <2>3. path \in Seq(Names)
    BY <2>2
  <2> QED
    BY <2>3 DEF Names
<1>2. Len(path) \in Nat \ {0}
  BY <1>1
<1>3. /\ header \in Seq(Names) /\ Len(header) = Len(path) + 1 /\ header[1] = side
      /\ \A i \in 1 .. Len(path) : header[i + 1] = path[i]
  BY <1>1
<1> HIDE DEF header
<1>4. Tail(header) = path
  <2>1. /\ Tail(header) \in Seq(Names) /\ Len(Tail(header)) = Len(path)
        /\ \A i \in 1 .. Len(path) : Tail(header)[i] = header[i + 1]
    BY <1>2, <1>3
  <2> QED
    BY <1>1, <1>3, <2>1, SeqEqual
<1>5. CheckedPath(header) = path /\ Len(header) > 1
  BY <1>2, <1>3, <1>4 DEF CheckedPath
<1> QED
  BY <1>4, <1>5 DEF header

\* A file that write_file may write is in scope, and so is one of a patch that names its
\* files as Git's diffs do.
LEMMA WritableInScope == \A f \in Writable \cup Checkable(DiffHeaders) : InScope(f)
<1> DEFINE roots == WritableRoots(project, Top)
<1>1. ASSUME NEW f \in Writable PROVE InScope(f)
  BY <1>1, PathInScope DEF Writable, FilesAt
<1>2. ASSUME NEW f \in Checkable(DiffHeaders) PROVE InScope(f)
  <2>1. PICK side \in {"a", "b"}, path \in Paths \ {<< >>} :
          /\ PatchPathOf(Top, << side >> \o path, roots) # Refused
          /\ f = RelativeTo(PatchPathOf(Top, << side >> \o path, roots), Top)
    <3>1. PICK header \in DiffHeaders : /\ PatchPathOf(Top, header, roots) # Refused
                                        /\ f = RelativeTo(PatchPathOf(Top, header, roots), Top)
      BY <1>2 DEF Checkable, FilesAt
    <3>2. PICK side \in {"a", "b"}, path \in Paths \ {<< >>} : header = << side >> \o path
      BY DEF DiffHeaders
    <3> QED
      BY <3>1, <3>2
  <2> DEFINE header == << side >> \o path
  <2>2. CheckedPath(header) = path /\ Len(header) > 1 /\ Tail(header) = path
    BY DiffHeaderPath
  <2>3. /\ PathOf(Top, path, roots) # Refused
        /\ PatchPathOf(Top, header, roots) = GitPathOf(Top, header)
    BY <2>1, <2>2 DEF PatchPathOf
  <2>4. GitPathOf(Top, header) = Join(Top, path) /\ Resolve(Join(Top, path)) = Join(Top, path)
    BY <2>1, <2>2, <2>3 DEF GitPathOf
  <2>5. PathOf(Top, path, roots) = Resolve(Join(Top, path))
    BY <2>3 DEF PathOf
  <2> QED
    BY <2>1, <2>3, <2>4, <2>5, PathInScope
<1> QED
  BY <1>1, <1>2

\* No place that a tool reads is what the manifest hides.
LEMMA SourcesAreHidden ==
  ASSUME NEW m \in Manifests, Accepted(m), NEW path, NEW roots,
         NEW top \in {Repository(m), Top}
  PROVE  PathOf(top, path, roots) \notin LoadedProject(m).sources
<1> SUFFICES ASSUME NEW source \in LoadedProject(m).sources
             PROVE  source # Refused /\ ~ IsPrefix(top, source)
  BY DEF PathOf
<1>1. source \in RegularFiles /\ ~ IsPrefix(Repository(m), source)
  BY DEF LoadedProject, Accepted, FixturesResolve
<1> QED
  BY <1>1, PlacesAssumption

\* Nothing is edited at first.
LEMMA InitRoots == Init => RootsInv
BY DEF Init, RootsInv, Scoped, NoPatch, NoEdits

\* A change of files in scope, or of leftovers, keeps the edits in scope.
LEMMA ChangeRoots ==
  ASSUME TypeOK, RootsInv, NEW files \in SUBSET Files, NEW written, Change(files, written), pc = "edit",
         irregular => irregular',
         irregular' \/ \A f \in files \ Leftovers : InScope(f) \/ written[f] = Untouched
  PROVE  RootsInv'
<1>1. /\ UNCHANGED << pc, project, kept, changes >>
      /\ irregular => irregular'
      /\ \A f \in Files : edits'[f] = IF f \in files THEN written[f] ELSE edits[f]
  BY DEF Change, start, patches
<1>2. \A f : InScope(f)' <=> InScope(f)
  BY <1>1 DEF InScope
<1>3. ~ irregular' => Scoped(edits)'
  BY <1>1, <1>2 DEF RootsInv, Scoped
<1> QED
  BY <1>1, <1>2, <1>3 DEF RootsInv, Scoped

\* A patch of a worktree is in scope as that is.
LEMMA DiffRoots == TypeOK /\ RootsInv /\ ~ irregular => Scoped(Diff.edits)
BY DEF RootsInv, Scoped, Diff, Patch

\* No step leaves the roots.
LEMMA StepRoots == TypeOK /\ RootsInv /\ [Next]_vars => RootsInv'
<1> SUFFICES ASSUME TypeOK, RootsInv, [Next]_vars PROVE RootsInv'
  OBVIOUS
<1> USE DEF target, start, worktree, patches, tools, history, user
<1>1. CASE Load
  <2>1. /\ edits' = NoEdits /\ kept' = NoPatch /\ changes' = NoPatch /\ pc' \in {"gate", "stopped"}
    BY <1>1 DEF Load, RootsInv
  <2>2. pc' = "gate" => \E m \in Manifests : Accepted(m) /\ project' = LoadedProject(m)
    BY <1>1 DEF Load
  <2> QED
    BY <2>1, <2>2 DEF RootsInv, Scoped, NoEdits, NoPatch
<1>2. CASE Gate
  BY <1>2 DEF Gate, RootsInv, Scoped, InScope
<1>3. CASE Record
  BY <1>3 DEF Record, RootsInv, Scoped, InScope
<1>4. CASE Baseline
  BY <1>4 DEF Baseline, RootsInv, Scoped, InScope
<1>5. CASE Analyze
  BY <1>5 DEF Analyze, NoPatch, NoEdits, RootsInv, Scoped, InScope
<1>6. CASE CreateWorktree
  BY <1>6 DEF CreateWorktree, NoEdits, RootsInv, Scoped, InScope
<1>7. CASE Replay
  BY <1>7 DEF Replay, RootsInv, Scoped, InScope
<1>8. CASE WriteFile
  <2>1. PICK file \in Writable :
          \/ \E tidy \in BOOLEAN : Change({file}, Written(tidy))
          \/ Change({file}, NoEdits)
    BY <1>8 DEF WriteFile
  <2>2. file \in Files /\ InScope(file) /\ pc = "edit"
    BY <1>8, WritableInScope DEF Writable, FilesAt, WriteFile, MayCall
  <2>3. irregular' = irregular
    BY <1>8 DEF WriteFile
  <2> QED
    BY <2>1, <2>2, <2>3, ChangeRoots
<1>9. CASE PatchFiles
  <2>1. PICK files \in SUBSET Patchable, tidy \in BOOLEAN :
          /\ Change(files, Written(tidy))
          /\ irregular' = (irregular \/ ~ (files \subseteq Checkable(DiffHeaders)))
    BY <1>9 DEF PatchFiles
  <2>2. files \subseteq Files /\ pc = "edit"
    BY <1>9 DEF Patchable, Checkable, FilesAt, PatchFiles, MayCall
  <2>3. irregular \in BOOLEAN
    BY DEF TypeOK
  <2>4. (irregular => irregular') /\ (irregular' \/ \A f \in files : InScope(f))
    BY <2>1, <2>3, WritableInScope
  <2> QED
    BY <2>1, <2>2, <2>4, ChangeRoots
<1>10. CASE RunTests
  <2>1. PICK files \in SUBSET Leftovers : Change(files, Written(TRUE))
    BY <1>10 DEF RunTests
  <2>2. /\ UNCHANGED << pc, project, kept, changes, irregular >>
        /\ \A f \in Files \ Leftovers : edits'[f] = edits[f]
    BY <2>1, <1>10 DEF Change, RunTests
  <2> QED
    BY <2>2, <1>10 DEF RunTests, MayCall, RootsInv, Scoped, InScope
<1>11. CASE AgentReturns
  BY <1>11 DEF AgentReturns, RootsInv, Scoped, InScope
<1>12. CASE Discard
  BY <1>12 DEF Discard, NextRound, NoPatch, NoEdits, RootsInv, Scoped, InScope
<1>13. CASE Classify
  BY <1>13 DEF Classify, RootsInv, Scoped, InScope
<1>14. CASE Format
  <2>1. /\ UNCHANGED << project, kept, changes, irregular >> /\ pc' \in {"build", "retry"}
        /\ \A f \in Files : edits[f] = Untouched => edits'[f] = Untouched
    BY <1>14 DEF Format, Gofmt
  <2> QED
    BY <2>1 DEF RootsInv, Scoped, InScope
<1>15. CASE Build
  <2>1. /\ UNCHANGED << project, kept, changes, irregular >> /\ pc' \in {"candidate", "retry"}
        /\ \A f \in Files \ Leftovers : edits'[f] = edits[f]
    BY <1>15 DEF Build
  <2> QED
    BY <2>1 DEF RootsInv, Scoped, InScope
<1>16. CASE Retry
  BY <1>16, DiffRoots DEF Retry, NextRound, RootsInv, Scoped, InScope
<1>17. CASE RecordCandidate
  BY <1>17, DiffRoots DEF RecordCandidate, RootsInv, Scoped, InScope
<1>18. CASE Revise
  BY <1>18 DEF Revise, NextRound, RootsInv, Scoped, InScope
<1>19. CASE Reanalyse
  BY <1>19 DEF Reanalyse, RootsInv, Scoped, InScope
<1>20. CASE Decide
  BY <1>20 DEF Decide, RootsInv, Scoped, InScope
<1>21. CASE Raise
  BY <1>21 DEF Raise, RootsInv, Scoped, InScope
<1>22. CASE UserEdits
  BY <1>22 DEF UserEdits, Changing, RootsInv, Scoped, InScope
<1>23. CASE UserCommits
  BY <1>23 DEF UserCommits, Changing, RootsInv, Scoped, InScope
<1>24. CASE UNCHANGED vars
  BY <1>24 DEF vars, RootsInv, Scoped, InScope
<1> QED
  BY <1>1, <1>2, <1>3, <1>4, <1>5, <1>6, <1>7, <1>8, <1>9, <1>10, <1>11, <1>12, <1>13, <1>14,
     <1>15, <1>16, <1>17, <1>18, <1>19, <1>20, <1>21, <1>22, <1>23, <1>24 DEF Next

\* Agents see no hidden file, and candidates stay in scope as long as every patch names
\* its files as Git does.
THEOREM Roots == Spec => []RootsAreKept
<1>1. TypeOK /\ RootsInv /\ [Next]_vars => RootsInv'
  BY StepRoots
<1>2. RootsInv => RootsAreKept
  <2> SUFFICES ASSUME RootsInv PROVE RootsAreKept
    OBVIOUS
  <2>1. ASSUME pc = "gate", NEW path \in Paths, NEW top \in {project.repository, Top}
        PROVE  PathOf(top, path, ReadableRoots(project, top)) \notin project.sources
    <3>1. PICK m \in Manifests : Accepted(m) /\ project = LoadedProject(m)
      BY <2>1 DEF RootsInv
    <3>2. project.repository = Repository(m)
      BY <3>1 DEF LoadedProject
    <3> QED
      BY <3>1, <3>2, SourcesAreHidden
  <2>2. ~ irregular => Scoped(edits)
    BY DEF RootsInv
  <2> QED
    BY <2>1, <2>2 DEF RootsAreKept, Scoped, InScope
<1> QED
  BY <1>1, <1>2, InitRoots, Types, PTL DEF Spec

-----------------------------------------------------------------------------
(* The candidate *)

Before == {"load", "gate", "record", "baseline", "analyze"}
Opening == {"create", "replay"}
Admitted == {"format", "build", "retry"}

\* How Candidate sees a state of the command.
Stage ==
  CASE pc \in Before -> "planning"
    [] pc \in Opening -> "opening"
    [] pc = "edit" -> "open"
    [] pc = "classify" -> "closed"
    [] pc \in Admitted -> "admitted"
    [] pc = "candidate" -> "built"
    [] pc = "review" -> "offered"
    [] pc = "delivered" -> "delivered"
    [] OTHER -> "dropped"
CandidateRounds ==
  IF pc \in {"edit", "classify", "format", "build", "retry", "candidate"} THEN RoundsIn(edits)
  ELSE IF pc \in {"review", "delivered"} THEN RoundsIn(changes.edits)
  ELSE IF pc = "stopped" THEN {}
  ELSE RoundsIn(kept.edits)
seen == << Stage, round, CandidateRounds, changes.held >>

\* Nothing is of a round in no edits; and a patch has no round that its worktree has not.
LEMMA RoundsOfPatches ==
  /\ RoundsIn(NoEdits) = {} /\ RoundsIn(NoPatch.edits) = {}
  /\ RoundsIn(Diff.edits) \subseteq RoundsIn(edits)
<1>1. RoundsIn(NoEdits) = {}
  BY DEF RoundsIn, NoEdits, Untouched
<1>2. NoPatch.edits = NoEdits
  BY DEF NoPatch
<1>3. RoundsIn(Diff.edits) \subseteq RoundsIn(edits)
  BY DEF RoundsIn, Diff, Patch, Untouched
<1> QED
  BY <1>1, <1>2, <1>3

\* A change of some files adds edits of this round, or undoes some.
LEMMA RoundsOfChange ==
  ASSUME NEW files, NEW written,
         \/ written = NoEdits
         \/ \E tidy \in BOOLEAN : written = Written(tidy),
         edits' = [f \in Files |-> IF f \in files THEN written[f] ELSE edits[f]]
  PROVE  RoundsIn(edits') \subseteq RoundsIn(edits) \cup {round}
<1>1. \A f \in Files : written[f].round \in {round, << 0, 0 >>}
  BY DEF NoEdits, Untouched, Written
<1> QED
  BY <1>1 DEF RoundsIn

\* The way on of a round is the candidate's: a later round, or its end.
LEMMA NextRoundRefines ==
  ASSUME TypeOK, NEW patch, NextRound(patch), pc \notin {"delivered", "stopped"}
  PROVE  /\ kept' = patch
         /\ \/ Abstract!NextPatchRound /\ pc' = "create"
            \/ Abstract!Finish /\ pc' = "stopped"
<1>1. round[2] \in 1 .. MaxPatches /\ kept' = patch
  BY Rounds DEF TypeOK, NextRound
<1>2. CASE round[2] < MaxPatches /\ round' = << round[1], round[2] + 1 >> /\ pc' = "create"
  BY <1>1, <1>2 DEF Abstract!NextPatchRound
<1>3. CASE pc' = "stopped" /\ UNCHANGED round
  BY <1>1, <1>3 DEF Abstract!Finish
<1> QED
  BY <1>1, <1>2, <1>3 DEF NextRound

\* The candidate of a round, from its worktree to what is recorded of it.
LEMMA WorktreeRefines ==
  ASSUME TypeOK,
         \/ CreateWorktree \/ Replay \/ WriteFile \/ PatchFiles \/ RunTests \/ AgentReturns
         \/ Discard \/ Classify \/ Format \/ Build \/ Retry \/ RecordCandidate
  PROVE  Abstract!Next \/ UNCHANGED seen
<1> USE DEF target, start, worktree, patches, tools, history, user
<1>1. CASE CreateWorktree
  <2>1. pc = "create" /\ UNCHANGED << round, kept, changes >> /\ pc' \in {"replay", "stopped"}
    BY <1>1 DEF CreateWorktree
  <2>2. CASE pc' = "replay"
    BY <2>1, <2>2 DEF seen, Stage, CandidateRounds, Before, Opening, Admitted
  <2>3. CASE pc' = "stopped"
    BY <2>1, <2>3 DEF Abstract!Stop, Abstract!Finish, Abstract!Next
  <2> QED
    BY <2>1, <2>2, <2>3
<1>2. CASE Replay
  <2>1. pc = "replay" /\ UNCHANGED << round, kept, changes >>
    BY <1>2 DEF Replay
  <2>2. CASE pc' = "edit" /\ edits' = kept.edits
    BY <2>1, <2>2 DEF Abstract!Open, Abstract!Next
  <2>3. CASE pc' = "stopped"
    BY <2>1, <2>3 DEF Abstract!Stop, Abstract!Finish, Abstract!Next
  <2> QED
    BY <1>2, <2>2, <2>3 DEF Replay
<1>3. CASE WriteFile \/ PatchFiles \/ RunTests
  <2>1. PICK files, written :
          /\ written = NoEdits \/ \E tidy \in BOOLEAN : written = Written(tidy)
          /\ Change(files, written)
    BY <1>3 DEF WriteFile, PatchFiles, RunTests
  <2>2. /\ pc = "edit"
        /\ edits' = [f \in Files |-> IF f \in files THEN written[f] ELSE edits[f]]
        /\ UNCHANGED << pc, round, changes >>
    BY <1>3, <2>1 DEF Change, WriteFile, PatchFiles, RunTests, MayCall
  <2>3. RoundsIn(edits') \subseteq RoundsIn(edits) \cup {round}
    BY <2>1, <2>2, RoundsOfChange
  <2> QED
    BY <2>2, <2>3 DEF Abstract!Edit, Abstract!Next
<1>4. CASE AgentReturns
  BY <1>4 DEF AgentReturns, Abstract!Edit, Abstract!Next
<1>5. CASE Discard
  <2>1. pc = "classify" /\ NextRound(NoPatch) /\ changes' = NoPatch
    BY <1>5 DEF Discard
  <2>2. kept' = NoPatch /\ NoPatch.held = FALSE
    BY <2>1, NextRoundRefines DEF NoPatch
  <2>3. CASE Abstract!NextPatchRound /\ pc' = "create"
    BY <2>1, <2>2, <2>3, RoundsOfPatches DEF Abstract!Drop, Abstract!Forget, Abstract!Next
  <2>4. CASE Abstract!Finish /\ pc' = "stopped"
    BY <2>1, <2>2, <2>4 DEF Abstract!Stop, Abstract!Next
  <2> QED
    BY <2>1, <2>3, <2>4, NextRoundRefines
<1>6. CASE Classify
  BY <1>6 DEF Classify, Abstract!Admit, Abstract!Next
<1>7. CASE Format
  <2>1. pc = "format" /\ pc' \in {"build", "retry"} /\ UNCHANGED << round, changes >>
    BY <1>7 DEF Format, Gofmt
  <2>2. RoundsIn(edits') \subseteq RoundsIn(edits)
    BY <1>7 DEF Format, Gofmt, RoundsIn
  <2> QED
    BY <2>1, <2>2 DEF Abstract!Build, Abstract!Next
<1>8. CASE Build
  <2>1. pc = "build" /\ pc' \in {"candidate", "retry"} /\ UNCHANGED << round, changes >>
    BY <1>8 DEF Build
  <2>2. RoundsIn(edits') \subseteq RoundsIn(edits) \cup {round}
    <3>1. PICK files :
            edits' = [f \in Files |-> IF f \in files THEN Written(TRUE)[f] ELSE edits[f]]
      BY <1>8 DEF Build
    <3> QED
      BY <3>1, RoundsOfChange
  <2> QED
    BY <2>1, <2>2 DEF Abstract!Build, Abstract!Next
<1>9. CASE Retry
  <2>1. pc = "retry" /\ NextRound(Diff) /\ UNCHANGED changes
    BY <1>9 DEF Retry
  <2>2. RoundsIn(kept'.edits) \subseteq RoundsIn(edits)
    BY <2>1, NextRoundRefines, RoundsOfPatches
  <2>3. CASE Abstract!NextPatchRound /\ pc' = "create"
    BY <2>1, <2>2, <2>3 DEF Abstract!Retry, Abstract!Next
  <2>4. CASE Abstract!Finish /\ pc' = "stopped"
    BY <2>1, <2>4 DEF Abstract!Stop, Abstract!Next
  <2> QED
    BY <2>1, <2>3, <2>4, NextRoundRefines
<1>10. CASE RecordCandidate
  <2>1. pc = "candidate" /\ pc' = "review" /\ UNCHANGED round /\ changes' = Diff
    BY <1>10 DEF RecordCandidate
  <2>2. changes'.held = TRUE
    BY <2>1 DEF Diff, Patch
  <2> QED
    BY <2>1, <2>2, RoundsOfPatches DEF Abstract!Offer, Abstract!Next
<1> QED
  BY <1>1, <1>2, <1>3, <1>4, <1>5, <1>6, <1>7, <1>8, <1>9, <1>10

\* What comes before the candidate and after it, and what the user does.
LEMMA CommandRefines ==
  ASSUME TypeOK,
         \/ Load \/ Gate \/ Record \/ Baseline \/ Analyze \/ Revise \/ Reanalyse \/ Decide
         \/ Raise \/ UserEdits \/ UserCommits \/ UNCHANGED vars
  PROVE  Abstract!Next \/ UNCHANGED seen
<1> USE DEF target, start, worktree, patches, tools, history, user
<1>1. CASE Load \/ Gate \/ Record \/ Baseline
  <2>1. /\ pc \in Before /\ pc' \in Before \cup {"stopped"}
        /\ UNCHANGED << round, kept, changes >>
    BY <1>1 DEF Load, Gate, Record, Baseline, Before
  <2>2. CASE pc' \in Before
    BY <2>1, <2>2 DEF seen, Stage, CandidateRounds, Before, Opening, Admitted
  <2>3. CASE pc' = "stopped"
    BY <2>1, <2>3 DEF Abstract!Stop, Abstract!Finish, Abstract!Next, Before
  <2> QED
    BY <2>1, <2>2, <2>3
<1>2. CASE Analyze
  <2>1. /\ pc = "analyze" /\ pc' \in {"create", "stopped"} /\ UNCHANGED round
        /\ UNCHANGED << kept, changes >> \/ (kept' = NoPatch /\ changes' = NoPatch)
    BY <1>2 DEF Analyze
  <2>2. NoPatch.held = FALSE
    BY DEF NoPatch
  <2>3. CASE pc' = "create"
    BY <2>1, <2>2, <2>3, RoundsOfPatches DEF Abstract!Plan, Abstract!Forget, Abstract!Next
  <2>4. CASE pc' = "stopped"
    BY <2>1, <2>2, <2>4 DEF Abstract!Stop, Abstract!Finish, Abstract!Next
  <2> QED
    BY <2>1, <2>3, <2>4
<1>3. CASE Revise
  <2>1. pc = "review" /\ NextRound(changes) /\ UNCHANGED changes
    BY <1>3 DEF Revise
  <2>2. CASE Abstract!NextPatchRound /\ pc' = "create" /\ kept' = changes
    BY <2>1, <2>2 DEF Abstract!Revise, Abstract!Next
  <2>3. CASE Abstract!Finish /\ pc' = "stopped"
    BY <2>1, <2>3 DEF Abstract!Stop, Abstract!Next
  <2> QED
    BY <2>1, <2>2, <2>3, NextRoundRefines
<1>4. CASE Reanalyse
  <2>1. pc = "review" /\ kept' = changes /\ UNCHANGED changes
    BY <1>4 DEF Reanalyse
  <2>2. CASE round[1] < MaxAnalyses /\ round' = << round[1] + 1, 1 >> /\ pc' = "analyze"
    BY <2>1, <2>2 DEF Abstract!Reanalyse, Abstract!Next
  <2>3. CASE pc' = "stopped" /\ UNCHANGED round
    BY <2>1, <2>3 DEF Abstract!Stop, Abstract!Finish, Abstract!Next
  <2> QED
    BY <1>4, <2>2, <2>3 DEF Reanalyse
<1>5. CASE Decide
  <2>1. CASE pc' = "delivered"
    BY <1>5, <2>1 DEF Decide, Abstract!Deliver, Abstract!Next
  <2>2. CASE pc' = "stopped"
    BY <1>5, <2>2 DEF Decide, Abstract!Stop, Abstract!Finish, Abstract!Next
  <2> QED
    BY <1>5, <2>1, <2>2 DEF Decide
<1>6. CASE Raise
  BY <1>6 DEF Raise, TypeOK, Abstract!Stop, Abstract!Finish, Abstract!Next
<1>7. CASE UserEdits \/ UserCommits \/ UNCHANGED vars
  <2>1. UNCHANGED << pc, round, kept, changes, edits >>
    BY <1>7 DEF UserEdits, UserCommits, Changing, vars
  <2> QED
    BY <2>1 DEF seen, Stage, CandidateRounds
<1> QED
  BY <1>1, <1>2, <1>3, <1>4, <1>5, <1>6, <1>7

\* A command handles its candidate as Candidate says, as the patch loop does, whatever
\* agents write, builds leave behind and the user does to the target: what is delivered
\* was recorded after this round's build, of edits of this round and of the candidate
\* that was kept.
THEOREM Refinement == Spec => CandidateRefined
<1>1. Init => Abstract!Init
  <2> SUFFICES ASSUME Init PROVE Abstract!Init
    OBVIOUS
  <2>1. kept.edits = NoEdits /\ changes.held = FALSE
    BY DEF Init, NoPatch
  <2> QED
    BY <2>1, RoundsOfPatches DEF Init, Abstract!Init
<1>2. TypeOK /\ [Next]_vars => Abstract!Next \/ UNCHANGED seen
  BY WorktreeRefines, CommandRefines DEF Next
<1> QED
  BY <1>1, <1>2, Types, PTL
  DEF Spec, CandidateRefined, Abstract!Spec, Abstract!vars, seen, Stage, CandidateRounds,
      Before, Opening, Admitted

\* Edits that are undone or dropped are gone for good: when a round is over and the
\* candidate has none of its edits, no worktree or patch of the candidate has any again.
THEOREM DiscardedForGood ==
  ASSUME NEW r \in Nat \X Nat
  PROVE  Spec => [](Abstract!Gone(r) => []Abstract!Gone(r))
BY Refinement, Abstract!GoneForGood, PTL DEF CandidateRefined

\* What is delivered is on disk, and no candidate has an edit of a round to come.
THEOREM CandidatePast == Spec => []Abstract!CandidateIsPast
BY Refinement, Abstract!PastCorrect, PTL DEF CandidateRefined
=============================================================================
