\* A ballot without 'reject' among its options.
CONSTANTS
  OptionLists <- WithoutReject
  Balances <- MCBalances
  MinimumVoters = 2
  MaxBallots = 4
  None = None
SPECIFICATION Spec
INVARIANTS
  NonDecisionNeverSettles
CHECK_DEADLOCK FALSE
