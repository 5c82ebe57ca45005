\* A seeded community; four mints, executions or reversals and one epoch switch.
CONSTANTS
  m1 = m1
  m2 = m2
  c0 = c0
  c1 = c1
  c2 = c2
  c3 = c3
  r1 = r1
  p1 = p1
  Txns = {t1, t2}
  Members = {m1, m2}
  RelatedParties = {m2}
  Contributions = {c0, c1, c2, c3}
  ContributionOf <- MCContributions
  MintCalls <- MCCalls
  Requests = {r1}
  Asks = {}
  Proposals = {p1}
  Purposes <- SeededPurposes
  Allocation <- MCAllocation
  GenesisRates <- MCRates
  MinVoters = 1
  Kinds = {"mint", "execute", "reverse", "close"}
  Reversals <- MCReversals
  MaxEpoch = 2
  MaxLedger = 6
  None = None
  Free = Free
SPECIFICATION SeededSpec
SYMMETRY Interchangeable
INVARIANTS
  TypeOK
  GovernanceLayersAgree
  IssuanceCarried
  OpeningSupplyAfterMints
  NoLockCycle
  ApprovalsUsedOnce
PROPERTIES
  LedgerImplementsBook
CHECK_DEADLOCK FALSE
