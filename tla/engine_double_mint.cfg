\* A pure advance mint, an epoch switch and a second mint of the same contribution.
CONSTANTS
  m1 = m1
  m2 = m2
  c0 = c0
  c1 = c1
  c2 = c2
  c3 = c3
  r1 = r1
  p1 = p1
  Txns = {t1, t2}
  Members = {m1, m2}
  RelatedParties = {}
  Contributions = {c0, c1, c2}
  ContributionOf <- FullContribution
  MintCalls <- PlainCalls
  Requests = {r1}
  Asks = {}
  Proposals = {}
  Purposes <- SeededPurposes
  Allocation <- MCAllocation
  GenesisRates <- UncappedRates
  MinVoters = 1
  Kinds = {"mint", "close"}
  Reversals <- OneReversal
  MaxEpoch = 2
  MaxLedger = 5
  None = None
  Free = Free
SPECIFICATION SeededSpec
SYMMETRY Interchangeable
INVARIANTS
  ContributionMintedOnce
CHECK_DEADLOCK FALSE
