------------------------- MODULE MC_PendingMonitor --------------------------
(* Instances of PendingMonitor for TLC. *)
EXTENDS PendingMonitor, TLC

CONSTANTS a1, a2, c1, c2, c3

\* Two agents, the first with two candidates.
MCAuthor == (c1 :> a1) @@ (c2 :> a1) @@ (c3 :> a2)

=============================================================================
