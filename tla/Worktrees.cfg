\* A command with two analysis and two patch rounds on a target that its user edits
\* and commits to meanwhile.
CONSTANTS
  Configuration <- MCConfiguration
  Directories <- MCDirectories
  RegularFiles <- MCRegularFiles
  Links <- MCLinks
  Files <- MCFiles
  Tracked <- MCTracked
  GoFiles <- MCGoFiles
  GoTests <- MCGoTests
  Quoted <- MCQuoted
  Ignored <- MCIgnored
  Leftovers <- MCLeftovers
  Manifests <- MCManifests
  Paths <- MCPaths
  Top <- MCTop
  MaxAnalyses = 2
  MaxPatches = 2
  MaxCalls = 2
  MaxPatched = 3
  MaxChanges = 2
  MaxSteps = 2
  MaxToolOutput = 8
  Envelope = 2
  PreviewStep = 3
  ReadLines = 3
  LineLengths = {1, 4, 9}
  MaxLines = 4
SPECIFICATION Spec
CONSTRAINT FewWorktrees
ACTION_CONSTRAINT FewSteps
INVARIANTS
  TypeOK
  DeliveredIsBuilt
  BaseTestsUntouched
  
  RecordIsOfTheRun
  RootsAreKept
  AnswersAreBounded
  OmissionsAreTold
CHECK_DEADLOCK FALSE
