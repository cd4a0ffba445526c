CONSTANTS
  a1 = a1  a2 = a2  c1 = c1  c2 = c2  c3 = c3
  Agents = {a1, a2}
  Commits = {c1, c2, c3}
  Author <- MCAuthor
  Scores = {1}
  Minimize = FALSE
  Every = 2
  MaxResumes = 1
  NoScore = NoScore  NoAgent = NoAgent
SPECIFICATION FairSpec
INVARIANT CountersMatchHistory
 
PROPERTY NoRestartOverPending
PROPERTY DeadGraderStopsRun
PROPERTY ResultsDelivered
CHECK_DEADLOCK FALSE
