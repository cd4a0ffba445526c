--------------------------- MODULE MC_OneShotRun ----------------------------
(* Instances of OneShotRun for TLC. *)
EXTENDS OneShotRun, TLC

CONSTANTS tiny, l1, l2

MCLarge == {l1, l2}

\* All instances, or the first large one only.
MCEither == {{tiny, l1, l2}, {l1}}

=============================================================================
