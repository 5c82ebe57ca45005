\* Two overlapping requests, each of which may be lost, over four answers.
CONSTANTS
  Clients = {u1, u2}
  Keys = {k1}
  Bodies = {b1, b2}
  Amounts = {0, 2}
  Budget = 3
  MaxContributions = 2
  MaxAnswers = 3
  None = None
SPECIFICATION Spec
SYMMETRY Interchangeable
INVARIANTS
  AnswersHold
  RepeatsReplay
CHECK_DEADLOCK FALSE
