----------------------------- MODULE MC_Grading -----------------------------
(* Two runs that share a seed, or two attempts of a CORAL run.             *)
EXTENDS Grading

CONSTANTS first, second, attempt

MCEvals == {first, second, attempt}

MCCampaigns == {{first, second}, {attempt}}

MCCalls == MCEvals \X Stages

\* Not of every kind in every call, to keep the instance small: the second run
\* has neither an egress network nor an output volume.
MCLicensed == {first, attempt} \X Stages

MCHardened == {first, attempt} \X Stages

=============================================================================
