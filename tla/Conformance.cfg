\* Every defect, every earlier content, two runs.
SPECIFICATION Spec
CONSTANTS
  None = None
  MaxRuns = 2
CHECK_DEADLOCK FALSE
INVARIANTS
  NoFalseAlarm
  DefectsFound
  PassLeavesNoFixture
