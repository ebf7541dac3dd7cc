------------------------------ MODULE Manifest ------------------------------
(***************************************************************************)
(* What load_project makes of a project manifest: which manifests it       *)
(* accepts, and the places its paths stand for.                            *)
(*                                                                         *)
(* A path is the sequence of its parts, as pathlib has them: an absolute   *)
(* one begins with "/".  A place is an absolute path without links and     *)
(* "..".                                                                   *)
(***************************************************************************)
EXTENDS Naturals, Sequences, SequencesExt

CONSTANTS
  Configuration,  \* the directory of the manifest, a place
  Directories,    \* the places that are directories
  RegularFiles,   \* the places that are files
  Links           \* the place each symbolic link leads to, by the link's place

Absolute(path) == path # << >> /\ Head(path) = "/"
Join(dir, path) == IF Absolute(path) THEN path ELSE dir \o path
RelativeTo(place, dir) == SubSeq(place, Len(dir) + 1, Len(place))
HasParts(path, parts) == ToSet(path) \cap parts # {}

\* The place that an absolute path leads to, part by part.
Resolve(path) ==
  LET Enter(at, name) ==
        LET there == Append(at, name) IN
        IF name = ".." THEN IF Len(at) > 1 THEN Front(at) ELSE at
        ELSE IF there \in DOMAIN Links THEN Links[there]
        ELSE there
      place[n \in 0 .. Len(path)] ==
        IF n = 0 THEN << >>
        ELSE LET at == place[n - 1] IN Enter(at, path[n])
  IN place[Len(path)]

-----------------------------------------------------------------------------
(* The manifest *)

\* What the validators of a fixture and of the manifest require.
ValidFixture(fixture) ==
  ~ Absolute(fixture.destination) /\ ~ HasParts(fixture.destination, {"..", ".git"})

ValidManifest(m) ==
  LET roots == m.scope_roots \o m.evidence_roots IN
  /\ m.scope_roots # << >>
  /\ IsInjective(roots)
  /\ \A root \in ToSet(roots) : ~ Absolute(root) /\ ~ HasParts(root, {"..", ".git"})
  /\ \A fixture \in ToSet(m.verification_fixtures) : ValidFixture(fixture)

Repository(m) == Resolve(Join(Configuration, m.repository))
WorkingDirectory(m) == Resolve(Join(Repository(m), m.working_directory))
SourceRoot(m, root) == Resolve(Join(Repository(m), root))
FixtureSource(m, fixture) == Resolve(Join(Configuration, fixture.source))

\* Hidden files are outside the repository, each with a destination of its own.
FixturesResolve(m) ==
  /\ \A fixture \in ToSet(m.verification_fixtures) :
       /\ FixtureSource(m, fixture) \in RegularFiles
       /\ ~ IsPrefix(Repository(m), FixtureSource(m, fixture))
  /\ IsInjective([i \in DOMAIN m.verification_fixtures |-> m.verification_fixtures[i].destination])

\* Source roots are directories of the repository.
RootsResolve(m) ==
  \A root \in ToSet(m.scope_roots \o m.evidence_roots) :
    SourceRoot(m, root) \in Directories /\ IsPrefix(Repository(m), SourceRoot(m, root))

Accepted(m) ==
  /\ ValidManifest(m)
  /\ Repository(m) \in Directories
  /\ WorkingDirectory(m) \in Directories /\ IsPrefix(Repository(m), WorkingDirectory(m))
  /\ FixturesResolve(m)
  /\ RootsResolve(m)

LoadedProject(m) ==
  [repository |-> Repository(m),
   scope_roots |-> {SourceRoot(m, root) : root \in ToSet(m.scope_roots)},
   evidence_roots |-> {SourceRoot(m, root) : root \in ToSet(m.evidence_roots)},
   sources |-> {FixtureSource(m, fixture) : fixture \in ToSet(m.verification_fixtures)},
   formal |-> m.formal]
=============================================================================
