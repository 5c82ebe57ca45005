\* A mint and an enrolment; two faults when the mint is alone.
CONSTANTS
  a1 = a1
  a2 = a2
  m1 = m1
  Actions = {a1, a2}
  Members = {m1}
  Call <- MCMintAndEnrolment
  Signers = {s1, s2}
  Required = 2
  Workers = {w1, w2}
  MaxRange = 1
  FaultKinds = {"rpc", "lost", "db", "kill", "rebuild"}
  MaxFaults = 2
  MaxSent = 3
  None = None
SPECIFICATION FairSpec
INVARIANTS
  TypeOK
  FullySigned
  ClaimExclusive
  StatusTruthful
  ProjectionsReplay
PROPERTIES
  SettledForGood
  ExecutedIsVerified
ACTION_CONSTRAINT
  EnrolmentOrFault
CHECK_DEADLOCK FALSE
