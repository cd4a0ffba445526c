CONSTANTS
  a1 = a1
  Agents = {a1}
  MaxStarts = 3
  MaxFaults = 1
  NoAgent = NoAgent
  MaxAttempts = 2
  MaxRestarts = 2
  MaxKills = 1
SPECIFICATION FairSpec
INVARIANT OneSessionPerAgent
INVARIANT RunLeavesNothing
INVARIANT OnlyStalledRunsStop
CHECK_DEADLOCK FALSE
PROPERTY RunEnds
