CONSTANTS
  Progress = {p1, p2}
  NoProgress = NoProgress
  Gaps <- MCGaps
  LagAlert = 1
  LagRestart = 2
  Cooldown = 3
  FailureAlert = 2
  MaxTime = 8
  MaxRuns = 2
SPECIFICATION Spec
SYMMETRY MCSymmetry
CHECK_DEADLOCK FALSE
PROPERTY AnalysisTimeIsNotLag
