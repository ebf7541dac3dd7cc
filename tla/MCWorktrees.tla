---------------------------- MODULE MCWorktrees -----------------------------
(***************************************************************************)
(* A small target: one package, with a test and what the user or Agent 2   *)
(* may add to it, beside a read-only directory.                            *)
(***************************************************************************)
EXTENDS WorktreesProperties, Answers, FiniteSets, TLC

node == << "core", "node.go" >>
nodeTest == << "core", "noeud_test.go" >>
controller == << "core", "new.go" >>
controllerTest == << "core", "new_test.go" >>
cache == << "core", "cache" >>
profile == << "profile" >>
wire == << "wire", "wire.go" >>

MCConfiguration == << "/", "evaluation" >>
MCTop == << "/", "runs", "worktree" >>
Target == << "/", "target" >>
Oracle == << "/", "evaluation", "oracle.go" >>

\* In the target, and so in every worktree, a link leads from the package to the
\* other directory and one out of the target to the hidden file; beside the manifest
\* a link leads to a file of the target.
MCDirectories ==
  {<< "/", "evaluation" >>, Target, Target \o << "core" >>, Target \o << "wire" >>}
MCRegularFiles == {Oracle, Target \o node}
MCLinks ==
  << "/", "evaluation", "own.go" >> :> Target \o node
  @@ Target \o << "core", "link" >> :> Target \o << "wire" >>
  @@ Target \o << "core", "hidden.go" >> :> Oracle
  @@ MCTop \o << "core", "link" >> :> MCTop \o << "wire" >>
  @@ MCTop \o << "core", "hidden.go" >> :> Oracle

MCFiles == {node, nodeTest, controller, controllerTest, cache, profile, wire}
MCTracked == {node, nodeTest, wire}
MCGoFiles == {node, nodeTest, controller, controllerTest, wire}
MCGoTests == {nodeTest, controllerTest}
MCQuoted == {nodeTest}
MCIgnored == {cache}
MCLeftovers == {profile}

MCPaths ==
  {node, nodeTest, controller, controllerTest, cache, wire,
   << "core", "link", "wire.go" >>, << "core", "hidden.go" >>, << "core", "wire", "wire.go" >>,
   << "core", "..", "wire", "wire.go" >>, << "..", "..", "evaluation", "oracle.go" >>}

Accepting ==
  [repository |-> << "..", "target" >>, working_directory |-> << >>,
   scope_roots |-> << << "core" >> >>, evidence_roots |-> << << "wire" >> >>,
   verification_fixtures |-> << [source |-> << "oracle.go" >>, destination |-> node] >>,
   formal |-> FALSE]

\* A development run, a formal experiment and manifests that are refused: a hidden
\* file, or a root, that a link leads to or out of the target, and a root given twice.
MCManifests ==
  {Accepting,
   [Accepting EXCEPT !.formal = TRUE],
   [Accepting EXCEPT !.verification_fixtures =
      << [source |-> << "own.go" >>, destination |-> node] >>],
   [Accepting EXCEPT !.evidence_roots = << << "core", "hidden.go" >> >>],
   [Accepting EXCEPT !.evidence_roots = << << "core" >> >>]}

\* tools.py:186: an answer of a tool never exceeds its limit, however much of it has
\* to be escaped; one that fits is whole, and of any other there is a preview.  This
\* and the next one are about no state, and so are looked at where a command begins.
AnswersAreBounded == pc = "load" /\ changed = 0 => Bounded

\* An agent is told of what a list or a search leaves out, and of a read, to which line
\* it goes; a read that ends before the file does is not marked.
OmissionsAreTold == pc = "load" /\ changed = 0 => Told

\* Bounds of the instance: worktrees, and the files that the user changes.
MaxWorktrees == 2
FewWorktrees == Cardinality(created) <= MaxWorktrees

UserFiles == {node, controllerTest, cache}
FewChanges == \A f \in Files \ UserFiles : work'[f] > work[f] => f \in Leftovers

\* The user acts just before the command looks at the target.  Any other step of the
\* command neither reads nor changes what a step of the user does, and so could as
\* well come before it.
UserActsBeforeLooks ==
  changed' # changed => pc \in {"load", "gate", "record", "baseline", "analyze", "create"}

\* A patch of other files is tried with the names of Git's diffs alone.
StrayPatches == irregular' # irregular => \A f \in Files \ {wire} : edits'[f] = edits[f]

FewSteps == UserActsBeforeLooks /\ FewChanges /\ StrayPatches
=============================================================================
