\* Two publishers of one project can lose both snapshots.
CONSTANTS
  Runs = {r1, r2}
  MaxActive = 2
  Outcomes = {"PASS", "FAILED"}
SYMMETRY RunSymmetry
SPECIFICATION Spec
INVARIANTS
  AlwaysRecoverable
CHECK_DEADLOCK FALSE
