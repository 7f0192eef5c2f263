CONSTANTS
  Employees = {s1}
  Employers = {c1}
  MaxUps = 2
  MaxCuts = 1
CHECK_DEADLOCK FALSE
SPECIFICATION Spec
INVARIANTS
  ReferencesStored
  
  RightsComplete
  DownRestores
