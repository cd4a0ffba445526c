----------------------------- MODULE MC_AgentRun -----------------------------
(* An instance of AgentRun for TLC. *)
EXTENDS AgentRun, TLC

CONSTANT a1

=============================================================================
