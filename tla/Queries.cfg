CONSTANTS
  Talents <- MCTalents
  Jobs <- MCJobs
  Values <- MCValues
  Viewer = "viewer"
  Months <- MCMonths
  MaxParams = 3
CHECK_DEADLOCK FALSE
SPECIFICATION Spec
INVARIANTS
  AgeRange
  StepKeepsTalents
  ListPartition
PROPERTIES
  SearchNarrows
