---------------------------- MODULE MC_EohBudget ----------------------------
(* Instances of EohBudget for TLC. *)
EXTENDS EohBudget, TLC

=============================================================================
