CONSTANTS
  j1 = j1
  j2 = j2
  s1 = s1
  s2 = s2
  t1 = t1
  Earlier = Earlier
  NoStep = NoStep
  Job = {j1}
  Step = {s1, s2}
  Cand = {c1}
  Req = {r1}
  JobOf <- OneJobOf
  Order <- OneOrder
  LastStep = {s2}
  PsJob = {}
  Ops = {"apply"}
  MaxBatch = 1
CHECK_DEADLOCK FALSE
SPECIFICATION Spec
INVARIANT NewCandidateNotInStep
