---------------------------- MODULE MC_WlsSlots -----------------------------
(* Instances of WlsSlots for TLC. *)
EXTENDS WlsSlots, TLC

CONSTANTS p1, p2

MCProcs2 == {p1, p2}

\* One call does not give its host name.
MCNamed == {p1}

\* Any calls ask the license server.
MCAnyGated == SUBSET Procs

=============================================================================
