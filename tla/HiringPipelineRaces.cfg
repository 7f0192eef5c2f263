CONSTANTS
  j1 = j1
  j2 = j2
  s1 = s1
  s2 = s2
  t1 = t1
  Earlier = Earlier
  NoStep = NoStep
  Job = {j1}
  Step = {s1, s2}
  Cand = {c1, c2}
  Req = {r1, r2}
  JobOf <- OneJobOf
  Order <- OneOrder
  LastStep = {s2}
  PsJob = {j1}
  Ops <- Operations
  MaxBatch = 2
CHECK_DEADLOCK FALSE
SYMMETRY Symmetry
SPECIFICATION Spec
INVARIANTS
  TypeOK
  CandidateOncePerStep
  NewCandidateIsParticipant
PROPERTIES
  ApprovalAdvances
  OnlyItsCandidate
  LeavesFunnelOnlyByRemoval
  Candidacies
