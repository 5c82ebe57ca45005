\* Two members, two approvers, three proposals; the smaller sets of each use are in the module.
CONSTANTS
  Members = {m1, m2}
  Signers = {a1, a2, k1}
  Owner = owner
  Contributions = {c1, c2, c3}
  RecordHashes = {h1, h2, h3}
  ProposalIds = {p1, p2, p0}
  ZeroProposal = p0
  MintedElsewhere <- MCMintedElsewhere
  Options = {approve, reject}
  Approve = approve
  Ballots <- MCBallots
  Nonces = {n1, n2, n3}
  Amounts = {0, 2}
  Kinds = {"special_mint", "related_party_mint", "budget_advance", "token_reversal", "token_policy_change"}
  PolicyRates <- MCPolicyRates
  MinVoterCounts = {1}
  GenesisSupply = 200
  GenesisRates <- MCRates
  ApproverThreshold = 1
  MinVoterCount = 1
  MaxEpoch = 3
  MaxTime = 2
  NoSigner = NoSigner
  NoProposal = NoProposal
  NoRecord = NoRecord
  NoPolicy = NoPolicy
  NoOption = NoOption
  Community = Community
  FirstMember = m1
  SecondMember = m2
  FirstProposal = p1
  SecondProposal = p2
  ForeignRecord = h0
  FirstApprover = a1
  SecondApprover = a2
  MemberKey = k1
SPECIFICATION UsesSpec
SYMMETRY Interchangeable
INVARIANTS
  TypeOK
  LedgerReplay
  IssuanceCovered
  AdvanceGates
  WeightCoversBalance
  TallyIsSnapshot
  MemberCapHeld
  ProposalUsedOnce
PROPERTIES
  SnapshotFrozen
  PolicyByProposal
CHECK_DEADLOCK FALSE
