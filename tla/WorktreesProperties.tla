------------------------ MODULE WorktreesProperties -------------------------
(***************************************************************************)
(* What the patches and the records of a command may be relied on for,     *)
(* whatever Agent 2 writes, builds leave behind and the user does to the   *)
(* target meanwhile.                                                       *)
(***************************************************************************)
EXTENDS Worktrees

Projects == {NoProject} \cup {LoadedProject(m) : m \in Manifests}
Tree == [Files -> Nat]
Edits == [Files -> [round : Round \cup {<< 0, 0 >>}, tidy : BOOLEAN]]
Patches == [held : BOOLEAN, base : Tree, edits : Edits]
Audits == [known : BOOLEAN, revision : Tree, dirty : BOOLEAN]

\* Every variable has its type.
TypeOK ==
  /\ pc \in {"load", "gate", "record", "baseline", "analyze", "create", "replay", "edit",
             "classify", "format", "build", "retry", "candidate", "review", "delivered",
             "stopped"}
  /\ project \in Projects
  /\ git \in {"top", "inside", "none"}
  /\ head \in Tree /\ work \in Tree /\ analysed \in Tree /\ base \in Tree
  /\ config \in Audits
  /\ round \in Round
  /\ created \subseteq Round
  /\ edits \in Edits /\ last \in Edits
  /\ added \subseteq Files
  /\ kept \in Patches /\ changes \in Patches /\ built \in Patches
  /\ raised \in {"none", "load", "gate", "create", "replay", "other"}
  /\ calls \in Nat /\ changed \in Nat
  /\ irregular \in BOOLEAN
  /\ disturbed \subseteq {"gate", "run"}

\* Git shows the files of a tree and the new ones, unless they are ignored.
Shown(tree, f) == tree[f] # 0 \/ f \notin Ignored

\* changes.patch, while it is reviewed, verified and delivered, is against the tree
\* of the candidate's worktree and has every edit that was formatted and built there
\* that Git shows, and no other; its Go files are formatted, new ones too.
DeliveredIsBuilt ==
  pc \in {"review", "delivered"} =>
    /\ changes.held /\ changes.base = built.base
    /\ \A f \in Files :
         /\ changes.edits[f] = IF Shown(built.base, f) THEN built.edits[f] ELSE Untouched
         /\ f \in GoFiles => changes.edits[f].tidy

\* changes.patch never changes a Go test that exists in the tree it is against,
\* although that is another one in every round if the user commits; and no kept patch
\* does, save to tests whose names Git quotes, which are not recognised and are kept
\* from being delivered by gofmt alone.
BaseTestsUntouched ==
  /\ changes.held => \A f \in GoTests \cap Files :
       changes.base[f] # 0 => changes.edits[f] = Untouched
  /\ kept.held => \A f \in (GoTests \cap Files) \ Quoted :
       kept.base[f] # 0 => kept.edits[f] = Untouched

\* A revision starts with every edit that the round before it ended with, save those
\* that Git does not show; a kept candidate is only refused if it is empty or if the
\* user moved HEAD meanwhile, and no round finds its directory taken.
RevisionContinues ==
  /\ kept.held => \A f \in Files :
       kept.edits[f] = IF Shown(kept.base, f) THEN last[f] ELSE Untouched
  /\ raised = "replay" => Empty(kept) \/ "run" \in disturbed
  /\ raised = "create" => git # "top"

\* If run-config.json says that the target is clean, and the user leaves it alone
\* from then on, the analysis is of the revision recorded and so is the base of every
\* patch; only what Git ignores and what the baseline leaves behind may differ.  A
\* formal experiment records a clean target unless it was changed while it started.
RecordIsOfTheRun ==
  /\ config.known /\ ~ config.dirty /\ "run" \notin disturbed =>
       /\ analysed = NoTree \/ \A f \in Files \ Leftovers :
            analysed[f] = config.revision[f] \/ (f \in Ignored /\ config.revision[f] = 0)
       /\ \A patch \in {kept, changes} : patch.held => patch.base = config.revision
  /\ project.formal /\ "gate" \notin disturbed /\ created # {} =>
       config.known /\ ~ config.dirty

\* What a manifest hides is at no place that a path of an agent leads to, in the
\* repository or in a worktree.  As long as every patch names its files as Git's own
\* diffs do, a candidate has no edit outside the scope roots, save what builds and tests
\* leave behind; what other patches write need not be where the check looks.
RootsAreKept ==
  /\ pc = "gate" =>
       \A path \in Paths, top \in {project.repository, Top} :
         PathOf(top, path, ReadableRoots(project, top)) \notin project.sources
  /\ ~ irregular => \A f \in Files \ Leftovers : edits[f] # Untouched =>
       \E root \in WritableRoots(project, Top) : IsPrefix(root, Top \o f)

\* How Candidate sees a run: round << 0, 0 >> stands for no edit.
RoundsIn(e) == {e[f].round : f \in Files} \ {<< 0, 0 >>}

Abstract ==
  INSTANCE Candidate WITH
    Analyses <- MaxAnalyses,
    Patches <- MaxPatches,
    stage <- CASE pc \in {"load", "gate", "record", "baseline", "analyze"} -> "planning"
               [] pc \in {"create", "replay"} -> "opening"
               [] pc = "edit" -> "open"
               [] pc = "classify" -> "closed"
               [] pc \in {"format", "build", "retry"} -> "admitted"
               [] pc = "candidate" -> "built"
               [] pc = "review" -> "offered"
               [] pc = "delivered" -> "delivered"
               [] OTHER -> "dropped",
    candidate <- IF pc \in {"edit", "classify", "format", "build", "retry", "candidate"}
                 THEN RoundsIn(edits)
                 ELSE IF pc \in {"review", "delivered"} THEN RoundsIn(changes.edits)
                 ELSE IF pc = "stopped" THEN {}
                 ELSE RoundsIn(kept.edits),
    recorded <- changes.held

\* The candidate is handled as Candidate says, and Workflow too, whatever the user does to
\* the target: its edits are of this round or of the candidate kept by the one before,
\* and what is delivered is what was recorded after the build of this round.
CandidateRefined == Abstract!Spec
=============================================================================
