CONSTANTS
  s1 = s1
  s2 = s2
  s3 = s3
  JobId = JobId
  Start <- TwoSteps
  Req = {r1, r2, r3}
  Profiles <- AllProfiles
CHECK_DEADLOCK FALSE
SPECIFICATION FairSpec
INVARIANTS
  TypeOK
  StepsListed
  NextStepExists
PROPERTIES
  NoListChangeLost
  RemovalRenumbers
  EveryRequestEnds
