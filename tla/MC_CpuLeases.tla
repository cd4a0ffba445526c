---------------------------- MODULE MC_CpuLeases ----------------------------
(* Instances of CpuLeases for TLC. *)
EXTENDS CpuLeases, TLC

CONSTANTS p1, p2, p3

MCCallers3 == {p1, p2, p3}

\* Two callers that want two CPUs each, and one that may only use the last.
MCCpus == 0..2
MCAllowed3 == (p1 :> 0..2) @@ (p2 :> 0..2) @@ (p3 :> {2})
MCNeed3 == (p1 :> 2) @@ (p2 :> 2) @@ (p3 :> 1)

=============================================================================
