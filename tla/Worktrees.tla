------------------------------ MODULE Worktrees -----------------------------
(***************************************************************************)
(* A command and the target repository it works on: what it records of     *)
(* the target, what it analyses, the worktree of each round (GitWorktree), *)
(* what Agent 2's tools may write there, and the patches that are taken of *)
(* it, kept, applied again and delivered.                                  *)
(*                                                                         *)
(* The user may edit and commit in the target between any two steps.  The  *)
(* loop itself is Workflow's: here a round may end in any of its ways.     *)
(*                                                                         *)
(* A definition X_Variant above a definition X is X with a plausible       *)
(* mistake; no action uses it.                                             *)
(***************************************************************************)
EXTENDS Tools, FiniteSets

CONSTANTS
  Files,        \* the files of the target, as paths from its top
  Tracked,      \* those that its first commit has
  GoFiles,      \* those in Go
  GoTests,      \* those of them that are tests
  Quoted,       \* those whose names Git quotes, as it does with any beyond ASCII
  Ignored,      \* those that a .gitignore names
  Leftovers,    \* those that builds and tests may leave behind
  Manifests,    \* the manifests a command may be given
  Paths,        \* the paths an agent may name
  Top,          \* the place of the current worktree
  MaxAnalyses,  \* limits.agent1_reanalysis_rounds
  MaxPatches,   \* limits.agent2_patch_rounds
  MaxCalls,     \* bounds the tool calls that write,
  MaxPatched,   \* the files of a patch that Agent 2 gives,
  MaxChanges,   \* the user's changes,
  MaxSteps      \* and tool calls and changes together

ASSUME FilesAssumption ==
  /\ Tracked \subseteq Files /\ GoTests \subseteq GoFiles
  /\ Leftovers \cap GoFiles = {}
ASSUME RoundsAssumption == MaxAnalyses \in Nat \ {0} /\ MaxPatches \in Nat \ {0}

\* A path leads to a place; no worktree exists before the manifest is loaded.
ASSUME PlacesAssumption ==
  /\ Files \subseteq Seq(STRING) /\ Paths \subseteq Seq(STRING) /\ Top \in Seq(STRING)
  /\ \A path \in Paths : Resolve(Join(Top, path)) \in Seq(STRING)
  /\ \A place \in RegularFiles : place # Refused /\ ~ IsPrefix(Top, place)

VARIABLES
  pc,         \* where the command is
  project,    \* the loaded project
  git,        \* the repository is Git's top level, inside it, or not Git's
  head,       \* the version of every file at the target's HEAD; 0: there is none
  work,       \* and in its working tree
  config,     \* the target as run-config.json records it
  analysed,   \* what Agent 1 saw
  round,      \* the analysis and the patch round
  created,    \* the names of the worktrees
  base,       \* the tree the worktree was created from
  edits,      \* what was done since to every file of the worktree
  added,      \* the new files its index has an intent to add of
  kept,       \* prior_candidate_patch
  changes,    \* changes.patch
  raised,     \* what the command raised an exception in
  calls,      \* how many tool calls wrote
  irregular,  \* history: whether a patch named its files otherwise than Git's diffs do
  built,      \* history: the worktree that was formatted and built last
  last,       \* history: the edits that the last round ended with
  disturbed,  \* history: the phases of the command in which the user changed the target
  changed     \* how often the user changed it

target == << git, head, work >>
start == << project, config, analysed >>
worktree == << base, edits, added >>
patches == << kept, changes >>
tools == << calls, irregular >>
history == << built, last >>
user == << disturbed, changed >>
vars == << pc, target, start, round, created, worktree, patches, raised, tools, history, user >>

-----------------------------------------------------------------------------
(* Values *)

Round == (1 .. MaxAnalyses) \X (1 .. MaxPatches)
NoTree == [f \in Files |-> 0]
NoProject ==
  [repository |-> << >>, scope_roots |-> {}, evidence_roots |-> {}, sources |-> {},
   formal |-> FALSE]

\* An edit: the round it was made in, and whether it is formatted as gofmt does.
Untouched == [round |-> << 0, 0 >>, tidy |-> TRUE]
Written(tidy) == [f \in Files |-> [round |-> round, tidy |-> f \in GoFiles => tidy]]
NoEdits == [f \in Files |-> Untouched]

\* A patch: the tree it is taken against and its edits.
Patch(files) ==
  [held |-> TRUE, base |-> base,
   edits |-> [f \in Files |-> IF f \in files THEN edits[f] ELSE Untouched]]
NoPatch == [held |-> FALSE, base |-> NoTree, edits |-> NoEdits]
Empty(patch) == \A f \in Files : patch.edits[f] = Untouched

\* git status --porcelain shows anything; tracked files are never ignored.
Dirty == \E f \in Files : work[f] # head[f] /\ ~ (f \in Ignored /\ head[f] = 0)

\* git_audit_state
AuditState ==
  IF git = "none" THEN [known |-> FALSE, revision |-> NoTree, dirty |-> TRUE]
  ELSE [known |-> TRUE, revision |-> head, dirty |-> Dirty]
NoConfig == [known |-> FALSE, revision |-> NoTree, dirty |-> TRUE]

\* git add --intent-to-add: new files, unless they are ignored.
IntentToAdd == added \cup {f \in Files \ Ignored : base[f] = 0 /\ edits[f] # Untouched}

\* The files that git diff HEAD compares, given the index.
Compared(index) == {f \in Files : base[f] # 0} \cup index

Diff_TrackedOnly == Patch(Compared({}))

\* GitWorktree.diff, after it brought the index up to date.
Diff == Patch(Compared(IntentToAdd))

Init ==
  /\ pc = "load"
  /\ project = NoProject
  /\ git \in {"top", "inside", "none"}
  /\ head = [f \in Files |-> IF f \in Tracked THEN 1 ELSE 0]
  /\ work = head
  /\ config = NoConfig
  /\ analysed = NoTree
  /\ round = << 1, 1 >>
  /\ created = {}
  /\ base = NoTree
  /\ edits = NoEdits
  /\ added = {}
  /\ kept = NoPatch
  /\ changes = NoPatch
  /\ raised = "none"
  /\ calls = 0
  /\ irregular = FALSE
  /\ built = NoPatch
  /\ last = NoEdits
  /\ disturbed = {}
  /\ changed = 0

-----------------------------------------------------------------------------
(* Before the first round *)

Load ==
  /\ pc = "load"
  /\ \E m \in Manifests :
       \/ Accepted(m) /\ project' = LoadedProject(m) /\ pc' = "gate" /\ UNCHANGED raised
       \/ ~ Accepted(m) /\ raised' = "load" /\ pc' = "stopped" /\ UNCHANGED project
  /\ UNCHANGED << target, config, analysed, round, created, worktree, patches, tools, history, user >>

\* A formal experiment needs a target, and a controller, at a clean revision.
Gate ==
  /\ pc = "gate"
  /\ \/ /\ project.formal => AuditState.known /\ ~ AuditState.dirty
        /\ pc' = "record" /\ UNCHANGED raised
     \/ project.formal /\ raised' = "gate" /\ pc' = "stopped"
  /\ UNCHANGED << target, start, round, created, worktree, patches, tools, history, user >>

\* run-config.json looks at the target once more.
Record ==
  /\ pc = "record"
  /\ config' = AuditState
  /\ pc' = "baseline"
  /\ UNCHANGED << target, project, analysed, round, created, worktree, patches, raised, tools,
                  history, user >>

\* Build and tests of the target itself, of run only.
Baseline ==
  /\ pc = "baseline"
  /\ \E files \in SUBSET Leftovers :
       work' = [f \in Files |-> IF f \in files THEN work[f] + 1 ELSE work[f]]
  /\ pc' \in {"analyze", "stopped"}
  /\ UNCHANGED << git, head, start, round, created, worktree, patches, raised, tools, history, user >>

\* Agent 1 reads the target's working tree.  A reanalysis may drop the candidate,
\* with what is recorded of it.
Analyze ==
  /\ pc = "analyze"
  /\ analysed' = work
  /\ \/ UNCHANGED patches
     \/ kept.held /\ kept' = NoPatch /\ changes' = NoPatch
  /\ last' = IF kept'.held THEN last ELSE NoEdits
  /\ pc' \in {"create", "stopped"}
  /\ UNCHANGED << target, project, config, round, created, worktree, raised, tools, built, user >>

-----------------------------------------------------------------------------
(* A round *)

WorktreeName == round

CreateWorktree_FromWork ==
  /\ pc = "create"
  /\ \/ /\ git = "top" /\ WorktreeName \notin created
        /\ created' = created \cup {WorktreeName}
        /\ base' = work /\ edits' = NoEdits /\ added' = {}
        /\ pc' = "replay" /\ UNCHANGED raised
     \/ /\ git # "top" \/ WorktreeName \in created
        /\ raised' = "create" /\ pc' = "stopped" /\ UNCHANGED << created, worktree >>
  /\ UNCHANGED << target, start, round, patches, tools, history, user >>

\* From the target's HEAD as it is now; in a directory that must not exist.
CreateWorktree ==
  /\ pc = "create"
  /\ \/ /\ git = "top" /\ WorktreeName \notin created
        /\ created' = created \cup {WorktreeName}
        /\ base' = head /\ edits' = NoEdits /\ added' = {}
        /\ pc' = "replay" /\ UNCHANGED raised
     \/ /\ git # "top" \/ WorktreeName \in created
        /\ raised' = "create" /\ pc' = "stopped" /\ UNCHANGED << created, worktree >>
  /\ UNCHANGED << target, start, round, patches, tools, history, user >>

\* git apply refuses an empty patch, a new file where there is one and a change
\* where there is none; a change of another version may apply or be refused.
Replay ==
  /\ pc = "replay"
  /\ LET touched == {f \in Files : kept.edits[f] # Untouched}
         moved == {f \in touched : kept.base[f] # base[f]}
     IN \/ /\ kept.held => touched # {}
           /\ \A f \in moved : kept.base[f] # 0 /\ base[f] # 0
           /\ edits' = kept.edits
           /\ pc' = "edit" /\ UNCHANGED raised
        \/ /\ kept.held
           /\ touched = {} \/ moved # {}
           /\ raised' = "replay" /\ pc' = "stopped" /\ UNCHANGED edits
  /\ UNCHANGED << target, start, round, created, base, added, patches, tools, history, user >>

MayCall == pc = "edit" /\ calls < MaxCalls /\ calls + changed < MaxSteps

\* A tool, or a test, changes files of the worktree.
Change(files, written) ==
  /\ files # {}
  /\ edits' = [f \in Files |-> IF f \in files THEN written[f] ELSE edits[f]]
  /\ calls' = calls + 1
  /\ UNCHANGED << pc, target, start, round, created, base, added, patches, raised, history, user >>

\* The files at the places that the paths of a tool lead to.
FilesAt(places) == {RelativeTo(place, Top) : place \in places \ {Refused}} \cap Files
Writable == FilesAt({PathOf(Top, path, WritableRoots(project, Top)) : path \in Paths})

\* The files of a patch: named as Git's diffs name them; and otherwise, after no a/ or
\* b/, or without the lines that are looked at, as a copy, an empty file or a mode is.
DiffHeaders == {<< side >> \o path : side \in {"a", "b"}, path \in Paths \ {<< >>}}
Checkable(headers) ==
  LET roots == WritableRoots(project, Top)
  IN FilesAt({PatchPathOf(Top, header, roots) : header \in headers})
Patchable ==
  Checkable(DiffHeaders \cup Paths) \cup FilesAt({GitPathOf(Top, header) : header \in DiffHeaders})

\* write_file: any contents, also those that are at HEAD.
WriteFile ==
  /\ MayCall
  /\ \E file \in Writable :
       \/ \E tidy \in BOOLEAN : Change({file}, Written(tidy))
       \/ base[file] # 0 /\ Change({file}, NoEdits)
  /\ UNCHANGED irregular

\* apply_patch: all of its files or none.
PatchFiles ==
  /\ MayCall
  /\ LET checked == Checkable(DiffHeaders) IN
     \E files \in SUBSET Patchable, tidy \in BOOLEAN :
       /\ Cardinality(files) <= MaxPatched
       /\ Change(files, Written(tidy))
       /\ irregular' = (irregular \/ ~ (files \subseteq checked))

\* A test that Agent 2 runs leaves files behind.
RunTests ==
  /\ MayCall
  /\ \E files \in SUBSET Leftovers : Change(files, Written(TRUE))
  /\ UNCHANGED irregular

AgentReturns ==
  /\ pc = "edit"
  /\ pc' = "classify"
  /\ UNCHANGED << target, start, round, created, worktree, patches, raised, tools, history, user >>

NextRound_OffByOne(patch) ==
  /\ kept' = patch
  /\ last' = IF patch.held THEN edits ELSE NoEdits
  /\ \/ /\ round[2] <= MaxPatches
        /\ round' = << round[1], round[2] + 1 >> /\ pc' = "create"
     \/ /\ round[2] > MaxPatches
        /\ pc' = "stopped" /\ UNCHANGED round

\* The kept patch is applied in the next round, if there is one.
NextRound(patch) ==
  /\ kept' = patch
  /\ last' = IF patch.held THEN edits ELSE NoEdits
  /\ \/ /\ round[2] < MaxPatches
        /\ round' = << round[1], round[2] + 1 >> /\ pc' = "create"
     \/ /\ round[2] = MaxPatches
        /\ pc' = "stopped" /\ UNCHANGED round

ModifiedTests_OfAnalysis ==
  {f \in (GoTests \cap Files) \ Quoted : analysed[f] # 0 /\ edits[f] # Untouched}

\* modified_existing_go_tests: a name in quotes does not end as a test's does.
ModifiedTests == {f \in (GoTests \cap Files) \ Quoted : base[f] # 0 /\ edits[f] # Untouched}

\* The candidate touches existing tests, or Agent 2 found it too invasive.
Discard ==
  /\ pc = "classify"
  /\ NextRound(NoPatch)
  /\ changes' = NoPatch
  /\ UNCHANGED << target, start, created, worktree, raised, tools, built, user >>

Classify ==
  /\ pc = "classify"
  /\ ModifiedTests = {}
  /\ pc' = "format"
  /\ UNCHANGED << target, start, round, created, worktree, patches, raised, tools, history, user >>

Gofmt(index) ==
  LET go == {f \in Compared(index) \cap GoFiles : edits[f] # Untouched} IN
  \E done \in SUBSET (go \ Quoted) :
    /\ edits' = [f \in Files |-> IF f \in done THEN [round |-> edits[f].round, tidy |-> TRUE]
                                 ELSE edits[f]]
    /\ \/ done = go /\ pc' = "build"
       \/ done # go /\ pc' = "retry"

Format_IndexAsItIs ==
  /\ pc = "format"
  /\ UNCHANGED added
  /\ Gofmt(added)
  /\ UNCHANGED << target, start, round, created, base, patches, raised, tools, history, user >>

\* gofmt of every Go file that differs; it fails on those it cannot parse, and on
\* those it cannot find because their names are given to it in quotes.
Format ==
  /\ pc = "format"
  /\ added' = IntentToAdd
  /\ Gofmt(IntentToAdd)
  /\ UNCHANGED << target, start, round, created, base, patches, raised, tools, history, user >>

\* The build may leave files behind, whether it passes or not.
Build ==
  /\ pc = "build"
  /\ \E files \in SUBSET Leftovers :
       edits' = [f \in Files |-> IF f \in files THEN Written(TRUE)[f] ELSE edits[f]]
  /\ \/ /\ pc' = "candidate"
        /\ built' = [held |-> TRUE, base |-> base, edits |-> edits']
     \/ pc' = "retry" /\ UNCHANGED built
  /\ UNCHANGED << target, start, round, created, base, added, patches, raised, tools, last, user >>

\* What does not format or build is revised.
Retry ==
  /\ pc = "retry"
  /\ NextRound(Diff)
  /\ added' = IntentToAdd
  /\ UNCHANGED << target, start, created, base, edits, changes, raised, tools, built, user >>

\* changes.patch and its metrics.
RecordCandidate ==
  /\ pc = "candidate"
  /\ changes' = Diff
  /\ added' = IntentToAdd
  /\ pc' = "review"
  /\ UNCHANGED << target, start, round, created, base, edits, kept, raised, tools, history, user >>

\* Review and verification send the recorded candidate back to Agent 2 ...
Revise ==
  /\ pc = "review"
  /\ NextRound(changes)
  /\ UNCHANGED << target, start, created, worktree, changes, raised, tools, built, user >>

\* ... or to Agent 1 ...
Reanalyse ==
  /\ pc = "review"
  /\ kept' = changes
  /\ last' = edits
  /\ \/ round[1] < MaxAnalyses /\ round' = << round[1] + 1, 1 >> /\ pc' = "analyze"
     \/ round[1] = MaxAnalyses /\ pc' = "stopped" /\ UNCHANGED round
  /\ UNCHANGED << target, start, created, worktree, changes, raised, tools, built, user >>

\* ... or accept it, or give it to a human.
Decide ==
  /\ pc = "review"
  /\ pc' \in {"delivered", "stopped"}
  /\ UNCHANGED << target, start, round, created, worktree, patches, raised, tools, history, user >>

\* Any call raises.
Raise ==
  /\ pc \notin {"load", "delivered", "stopped"}
  /\ raised' = "other" /\ pc' = "stopped"
  /\ UNCHANGED << target, start, round, created, worktree, patches, tools, history, user >>

-----------------------------------------------------------------------------
(* The user *)

Changing(files) ==
  /\ pc \notin {"delivered", "stopped"}
  /\ changed < MaxChanges /\ calls + changed < MaxSteps
  /\ work' = [f \in Files |-> IF f \in files THEN work[f] + 1 ELSE work[f]]
  /\ changed' = changed + 1
  /\ disturbed' = disturbed \cup (IF pc \in {"load", "gate"} THEN {}
                                  ELSE IF pc = "record" THEN {"gate"} ELSE {"run"})
  /\ UNCHANGED << pc, git, start, round, created, worktree, patches, raised, tools, history >>

UserEdits ==
  /\ \E file \in Files : Changing({file})
  /\ UNCHANGED head

\* The user commits all that is changed, a last edit included or none.
UserCommits ==
  /\ git # "none"
  /\ \E files \in SUBSET Files : Cardinality(files) <= 1 /\ Changing(files)
  /\ head' = [f \in Files |-> IF f \in Ignored /\ head[f] = 0 THEN 0 ELSE work'[f]]
  /\ head' # head

Next ==
  \/ Load \/ Gate \/ Record \/ Baseline \/ Analyze
  \/ CreateWorktree \/ Replay \/ WriteFile \/ PatchFiles \/ RunTests \/ AgentReturns
  \/ Discard \/ Classify \/ Format \/ Build \/ Retry \/ RecordCandidate
  \/ Revise \/ Reanalyse \/ Decide \/ Raise
  \/ UserEdits \/ UserCommits

Spec == Init /\ [][Next]_vars
=============================================================================
