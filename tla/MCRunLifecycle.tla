--------------------------- MODULE MCRunLifecycle ---------------------------
(***************************************************************************)
(* Small instances of the run lifecycle.  Runs are interchangeable: no     *)
(* definition names one.                                                   *)
(***************************************************************************)
EXTENDS RunLifecycleProperties, TLC

RunSymmetry == Permutations(Runs)

\* Bounds of the instance: two runs in any order and at the same time; a third
\* one only after two that both got their directory, when one of the three
\* leaves a worktree, one fails to write its mark or its costs, and none passes.
\* A removal leaves nothing or some files.
MaxWorktrees == 1
MaxUnwritten == 1

\* What may be left of a directory that is being removed.
PartsLeft == { {}, {"config", "stats"} }

Begun == {r \in Runs : pc[r] # "idle"}

FewVariants ==
  /\ \A dir \in { latest, backup } :
       Exists(dir) /\ ~ dir.whole => dir.files \in PartsLeft
  /\ Cardinality(Begun) > 2 =>
       /\ ~ overlapped
       /\ \A r \in Begun : pc[r] = "exited" => "config" \in files[r]
       /\ Cardinality({r \in Runs : "worktree" \in files[r]}) <= MaxWorktrees
       /\ Cardinality(unwritten) <= MaxUnwritten
       /\ \A r \in Runs : outcome[r] # "PASS"
=============================================================================
