\* Three runs of a project: two in any order or at once, a third one after them;
\* each may fail, be interrupted or killed anywhere.
CONSTANTS
  Runs = {r1, r2, r3}
  MaxActive = 2
  Outcomes = {"PASS", "FAILED"}
CONSTRAINT FewVariants
SYMMETRY RunSymmetry
SPECIFICATION Spec
INVARIANTS
  TypeOK
  LatestIsCompletedRun
  SnapshotSurvives
  FailureKeepsCosts
  ExitIsHonest
  DirectoriesAreDistinct
CHECK_DEADLOCK FALSE
