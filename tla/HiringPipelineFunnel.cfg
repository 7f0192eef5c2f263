CONSTANTS
  j1 = j1
  j2 = j2
  s1 = s1
  s2 = s2
  t1 = t1
  Earlier = Earlier
  NoStep = NoStep
  Job = {j1, j2}
  Step = {s1, t1}
  Cand = {c1}
  Req = {r1, r2}
  JobOf <- FunnelJobOf
  Order <- FunnelOrder
  LastStep = {s1}
  PsJob = {j1}
  Ops <- AllButRemove
  MaxBatch = 1
CHECK_DEADLOCK FALSE
SPECIFICATION FairSpec
INVARIANTS
  ParticipantInFunnel
PROPERTIES
  EveryRequestEnds
