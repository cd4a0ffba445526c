\* A budget that ends within a generation, two workers on three slots, and a
\* crash or a failure anywhere, followed by a resume.
CONSTANTS
  Limit = 7
  PopSize = 3
  Operators = 1
  AskedNPop = 1
  Workers = 2
  MaxLives = 2
SPECIFICATION Spec
INVARIANT ReservedBeforeRun
INVARIANT NeverRefused
INVARIANT BudgetIsSpent
INVARIANT NeverWorseThanSeed
CHECK_DEADLOCK FALSE
