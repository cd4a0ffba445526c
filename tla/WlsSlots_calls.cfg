CONSTANTS
  p1 = p1  p2 = p2
  Procs <- MCProcs2
  Named <- MCNamed
  Concurrency = 2
  Gatings <- MCAnyGated
  Limit = 1
  Foreign = 0
  TimeLimit = 1
  Slack = 1
  ReleaseDelay = 1
  TokenLife = 1
  QueueTimeout = 1
  MaxCpuWait = 3
  MaxLost = 1
  NoProc = NoProc
SPECIFICATION FairWlsSpec
INVARIANT TokensFitLicense
INVARIANT CompletedRunsStayReserved
INVARIANT ConcurrencyRespected
INVARIANT KilledRunsStayReserved
PROPERTY CallsReturn
