--------------------------- MODULE MC_DebugRunner ---------------------------
(* Instances of DebugRunner for TLC. *)
EXTENDS DebugRunner, TLC

CONSTANTS n1, n2, n3, n4

=============================================================================
