\* An empty community; two proposals on the policy, or one on an advance request.
CONSTANTS
  m1 = m1
  m2 = m2
  c0 = c0
  c1 = c1
  c2 = c2
  c3 = c3
  r1 = r1
  p1 = p1
  Txns = {t1, t2}
  Members = {m1}
  RelatedParties = {}
  Contributions = {c1}
  ContributionOf <- FirstContribution
  MintCalls <- FirstCall
  Requests = {r1}
  Asks <- MCAsks
  Proposals = {p1, p2}
  Purposes <- MCPurposes
  Allocation <- MCAllocation
  GenesisRates <- UncappedRates
  MinVoters = 1
  Kinds = {"genesis", "reverse", "mint", "createNext", "createRequest", "secondApprove", "reject", "attach", "execute",
           "activate", "castVote", "end", "close"}
  Reversals <- OneReversal
  MaxEpoch = 2
  MaxLedger = 3
  None = None
  Free = Free
SPECIFICATION Spec
ACTION_CONSTRAINT Bounded
SYMMETRY AllInterchangeable
INVARIANTS
  SnapshotIsOfOneMoment
  BallotsCounted
  AdvanceAuthorised
  NoVersionLost
CHECK_DEADLOCK FALSE
