------------------------------- MODULE Tools --------------------------------
(***************************************************************************)
(* The paths of the local tools: which place a path that an agent names    *)
(* stands for, if any.                                                     *)
(*                                                                         *)
(* A definition X_Variant above a definition X is X with a plausible       *)
(* mistake; nothing uses it.                                               *)
(***************************************************************************)
EXTENDS Manifest

Refused == << >>

\* The source roots as they are in a worktree, or in the repository itself.
RootsIn(project, roots, top) ==
  {Resolve(Join(top, RelativeTo(root, project.repository))) : root \in roots}

ReadableRoots(project, top) ==
  RootsIn(project, project.scope_roots \cup project.evidence_roots, top)

WritableRoots(project, top) == RootsIn(project, project.scope_roots, top)

PathOf_Unresolved(top, path, allowed) ==
  IF /\ ~ Absolute(path) /\ ~ HasParts(path, {".git", ".."})
     /\ \E root \in allowed : IsPrefix(root, Join(top, path))
  THEN Resolve(Join(top, path))
  ELSE Refused

\* The place of a path below top, which must be in one of the allowed roots.
PathOf(top, path, allowed) ==
  LET place == Resolve(Join(top, path)) IN
  IF /\ ~ Absolute(path) /\ ~ HasParts(path, {".git"})
     /\ IsPrefix(top, place)
     /\ \E root \in allowed : IsPrefix(root, place)
  THEN place
  ELSE Refused

\* The path that is looked at for a path in a header of a patch.
CheckedPath(header) ==
  IF Len(header) > 1 /\ header[1] \in {"a", "b"} THEN Tail(header) ELSE header

\* The place that Git writes for it: without the first part, whatever that is, never
\* outside of top and through no link.
GitPathOf(top, header) ==
  LET path == IF Len(header) > 1 THEN Tail(header) ELSE header IN
  IF HasParts(path, {"/", "..", ".git"}) \/ Resolve(Join(top, path)) # Join(top, path)
  THEN Refused
  ELSE Join(top, path)

\* The same, of a header that is looked at: a line with --- or +++.
PatchPathOf(top, header, allowed) ==
  IF \/ HasParts(CheckedPath(header), {".."})
     \/ PathOf(top, CheckedPath(header), allowed) = Refused
  THEN Refused
  ELSE GitPathOf(top, header)
=============================================================================
