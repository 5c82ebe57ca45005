\* A mint and its reversal.
CONSTANTS
  a1 = a1
  a2 = a2
  m1 = m1
  Actions = {a1, a2}
  Members = {m1}
  Call <- MCMintAndReversal
  Signers = {s1}
  Required = 1
  Workers = {w1, w2}
  MaxRange = 1
  FaultKinds = {}
  MaxFaults = 0
  MaxSent = 2
  None = None
SPECIFICATION Spec
INVARIANTS
  BalancesOfChain
CHECK_DEADLOCK FALSE
