---------------------------- MODULE CpuAllocator ----------------------------
(***************************************************************************)
(* What the CPU leases promise: a caller gets as many CPUs as it asked     *)
(* for, out of the ones it may use and none of which another caller has,   *)
(* all at once; and gives them back all at once.  CpuLeases implements     *)
(* this module with one lock file per CPU.                                 *)
(***************************************************************************)
EXTENDS Naturals, FiniteSets

CONSTANTS
  Callers,  \* executions that ask for CPUs
  Allowed,  \* per caller: the CPUs of its affinity mask
  Need      \* per caller: how many it asks for

VARIABLE granted   \* per caller: the CPUs it may pin its candidate to

AllocatorInit == granted = [p \in Callers |-> {}]

Grant(p, S) ==
  /\ granted[p] = {}
  /\ S \subseteq Allowed[p]
  /\ Cardinality(S) = Need[p]
  /\ \A q \in Callers : S \cap granted[q] = {}
  /\ granted' = [granted EXCEPT ![p] = S]

Return(p) ==
  /\ granted[p] # {}
  /\ granted' = [granted EXCEPT ![p] = {}]

AllocatorNext ==
  \E p \in Callers : Return(p) \/ \E S \in SUBSET Allowed[p] : Grant(p, S)

AllocatorSpec == AllocatorInit /\ [][AllocatorNext]_granted

=============================================================================
