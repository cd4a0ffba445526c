CONSTANTS
  n1 = n1  n2 = n2  n3 = n3  n4 = n4
  DebugNonces = {n1, n2, n3, n4}
  Valid = {n1, n2, n3}
  MaxRuns = 2
  MaxCrashes = 1
  NoDebugNonce = NoDebugNonce
SPECIFICATION FairDebugSpec
INVARIANT QuotaRespected
PROPERTY RequestsAnswered
CHECK_DEADLOCK FALSE
