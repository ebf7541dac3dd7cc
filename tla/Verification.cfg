\* Three hidden files and four checks; the verifier implements Verdict.
SPECIFICATION Spec
CONSTANTS
  CheckList <- MCCheckList
  FixtureList <- MCFixtureList
INVARIANTS
  TypeOK
  OracleLeavesWithVerifier
  CandidateKept
  ChecksSeeOracle
  VerdictIsEarned
PROPERTY
  VerdictRefined
CHECK_DEADLOCK FALSE
