\* Ballots through the engine and through the console.
CONSTANTS
  OptionLists <- TwoOptions
  Balances <- MCBalances
  MinimumVoters = 1
  MaxBallots = 2
  MaxBalance = 3
  None = None
SPECIFICATION ConsoleSpec
INVARIANTS
  CountedAtFrozenWeight
CHECK_DEADLOCK FALSE
