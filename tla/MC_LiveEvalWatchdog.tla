------------------------ MODULE MC_LiveEvalWatchdog -------------------------
(* Instances of LiveEvalWatchdog for TLC. *)
EXTENDS LiveEvalWatchdog, TLC

CONSTANTS c1, c2

Two == {c1, c2}

=============================================================================
