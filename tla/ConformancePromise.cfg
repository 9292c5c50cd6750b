\* Does a passing target list by prefix and limit, and delete exact versions?
SPECIFICATION Spec
CONSTANTS
  None = None
  MaxRuns = 2
CHECK_DEADLOCK FALSE
INVARIANTS
  VerifiesListAndDelete
