\* One record under any two faults; or, without one, two mints, or a mint and its reversal.
CONSTANTS
  r1 = r1
  r2 = r2
  r3 = r3
  m1 = m1
  m2 = m2
  Records = {r1, r2, r3}
  Members = {m1, m2}
  Ledger <- MCLedger
  NoRecord = NoRecord
  SubmitAttempts = 1
  MaxAttemptEpoch = 2
  FaultKinds = {"crash", "rpc", "reseed", "lost", "db", "redis", "wipe", "slow", "evict", "drift"}
  MaxFaults = 2
  NoNonce = NoNonce
  NoTx = NoTx
SPECIFICATION Spec
INVARIANTS
  TypeOK
  NonceRecordedBeforeSend
  NotarisedOnce
  MirrorIsNewest
  ReversalAfterOriginal
ACTION_CONSTRAINT
  OneOrTwoRecords
CHECK_DEADLOCK FALSE
