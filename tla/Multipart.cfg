\* Objects of zero, one, several full and a short last part; one too long.
SPECIFICATION Spec
CONSTANTS
  None = None
  Limits <- SmallLimits
  Totals = {0, 1, 4, 5, 7}
  PartSizes = {0, 1, 2, 3, 4}
  MaxUploads = 4
INVARIANTS
  PlanCovers
  AcceptsExactlyWhole
  ObjectIntact
