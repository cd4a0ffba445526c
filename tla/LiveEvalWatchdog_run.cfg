\* Two coordinators and two workers, of one of them or of both, fairly scheduled.
CONSTANTS
  c1 = c1
  c2 = c2
  Coordinators <- Two
  Old = 4
  New = 6
  Early = 3
  Grace = 1
  PassTicks = 1
  MaxAge = 8
  MaxEvals = 2
SPECIFICATION FairSpec
INVARIANT StoppedIsHeld
PROPERTY NoEarlyAbandon
PROPERTY StoppedResumes
CHECK_DEADLOCK FALSE
