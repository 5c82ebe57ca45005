\* Ballots with 'reject' among their options.
CONSTANTS
  OptionLists <- WithReject
  Balances <- MCBalances
  MinimumVoters = 2
  MaxBallots = 4
  None = None
SPECIFICATION Spec
INVARIANTS
  ResultVerifiable
CHECK_DEADLOCK FALSE
