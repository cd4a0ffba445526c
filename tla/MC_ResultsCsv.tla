--------------------------- MODULE MC_ResultsCsv ----------------------------
(* Instances of ResultsCsv for TLC: two threads of one process and one of  *)
(* another.                                                                *)
EXTENDS ResultsCsv, TLC

CONSTANTS t1, t2, t3

MCThreads == {t1, t2, t3}
MCProcOf == [t \in MCThreads |-> IF t = t3 THEN "q" ELSE "p"]

=============================================================================
