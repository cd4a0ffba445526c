\* The results: rows that are replaced, readers, and a process killed anywhere.
CONSTANTS
  t1 = t1
  t2 = t2
  t3 = t3
  Threads <- MCThreads
  Procs = {"p", "q"}
  ProcOf <- MCProcOf
  Keys = {"a", "b"}
  Amounts = {1, 2}
  Accumulate = FALSE
  MaxCalls = 1
  MaxLosses = 1
SPECIFICATION FairCsvSpec
PROPERTY Atomic
PROPERTY CallsReturn
CHECK_DEADLOCK FALSE
