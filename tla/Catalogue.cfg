CONSTANTS
  Req = {r1, r2, r3}
  OldJob = {j1}
  Employer = {e1, e2}
  Employee = {c1}
  Macro = {m1}
  Earlier = Earlier
  None = None
  Default = {1}
  Areas <- AllAreas
CHECK_DEADLOCK FALSE
SPECIFICATION Spec
SYMMETRY Symmetry
INVARIANTS
  TypeOK
  CreatedJobListed
  FavouritesAgree
PROPERTIES
  DeletedJobUnlisted
  MacroAddKept
