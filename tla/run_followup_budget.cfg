SPECIFICATION Spec
CONSTANTS
  Probes = {p1, p2}
  MaxSteps = 8
  MaxActions = 1
  Options <- PlainRuns
SYMMETRY Symmetry
INVARIANTS FollowUpFitsBudget
