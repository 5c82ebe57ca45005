\* One record, any two faults except a failed reseed, an eviction and a wiped Redis.
CONSTANTS
  r1 = r1
  r2 = r2
  r3 = r3
  m1 = m1
  m2 = m2
  Records = {r1}
  Members = {m1}
  Ledger <- MCOneMint
  NoRecord = NoRecord
  SubmitAttempts = 2
  MaxAttemptEpoch = 2
  FaultKinds = {"crash", "rpc", "lost", "db", "redis", "slow", "drift"}
  MaxFaults = 2
  NoNonce = NoNonce
  NoTx = NoTx
SPECIFICATION FairSpec
INVARIANTS
  WalletInStep
PROPERTIES
  LifecycleRefined
  EverySubmissionSettles
  FaultFreeVerifies
CHECK_DEADLOCK FALSE
