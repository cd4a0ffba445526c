\* Two invocations of all instances or of a large one alone, each of them killed
\* anywhere or not at all.
CONSTANTS
  tiny = tiny
  l1 = l1
  l2 = l2
  Tiny = tiny
  FirstLarge = l1
  Large <- MCLarge
  Requests <- MCEither
  Modes = {"incomplete"}
  MaxDebug = 1
  MaxCorrect = 1
  MaxLives = 2
SPECIFICATION Spec
INVARIANT GivesUpWhenSpent
INVARIANT GateRowsAgree
PROPERTY RecordedIsFrozen
CHECK_DEADLOCK FALSE
