SPECIFICATION Spec
CONSTANTS
  Runners = {"r1", "r2"}
  Outcomes = {"found", "temp_failure", "failure"}
  MaxId = 5
  MaxAdmin = 4
INVARIANT RefcountExact
INVARIANT UpdateAhead
CHECK_DEADLOCK FALSE
