--------------------------- MODULE MC_EvalBroker ---------------------------
(* Instances of EvalBroker for TLC: two agents, whose shims may be killed  *)
(* and leave requests of their own behind in the inbox.                    *)
EXTENDS EvalBroker

CONSTANTS a1, a2, seed, c1, n1, n2

MCAgents == {a1, a2}
MCCommits == {seed, c1}
MCNonces == {n1, n2}
MCMaybeInvalid == {n1}

=============================================================================
