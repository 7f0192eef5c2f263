CONSTANTS
  Req = {r1, r2, r3}
  Employee = {c1, c2}
  Employer = {e1, e2}
  First = c1
  Step = {s1, s2}
  Earlier = Earlier
  None = None
  MaxExit = 1
  Areas <- AllAreas
CHECK_DEADLOCK FALSE
SPECIFICATION Spec
SYMMETRY Symmetry
INVARIANTS
  TypeOK
  MediaStored
  ContactKept
  EntryShowsResult
PROPERTIES
  ItemsByName
