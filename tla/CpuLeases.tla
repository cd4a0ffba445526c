----------------------------- MODULE CpuLeases ------------------------------
(***************************************************************************)
(* Host-wide CPU leases: reserve_cpus (trusted_eval_infra/cpu_slots.py)    *)
(* and the candidate that runs under the lease (execution.py,              *)
(* _cpu_execution_slot, _exec).  The callers are independent processes, or *)
(* threads with file descriptors of their own, that share one lock file    *)
(* per CPU.  flock is the only communication between them, so every        *)
(* attempt to lock a file and every close of one is a step.                *)
(***************************************************************************)
EXTENDS Naturals, FiniteSets

CONSTANTS
  Callers,   \* executions that ask for CPUs
  Cpus,      \* logical CPU numbers
  Allowed,   \* per caller: sched_getaffinity
  Need,      \* per caller: count
  MaxPasses, \* bound on the passes over the lock files before the deadline
  MaxFaults, \* bound on killed callers and failed removals (the model's)
  Nobody

ASSUME LeaseAssumption ==
  /\ Cpus \subseteq Nat /\ IsFiniteSet(Cpus)
  /\ Allowed \in [Callers -> SUBSET Cpus]
  /\ Need \in [Callers -> Nat \ {0}]
  /\ \A p \in Callers : Need[p] <= Cardinality(Allowed[p])
  /\ MaxPasses \in Nat /\ MaxFaults \in Nat
  /\ Nobody \notin Callers

VARIABLES
  lock,       \* per CPU: who has the flock of its file
  pc,         \* per caller: where reserve_cpus, or the execution under it, is
  left,       \* per caller: CPUs this pass has still to try
  held,       \* per caller: CPUs whose locked file it has open
  passes,     \* per caller: passes begun before the deadline
  candidate,  \* per caller: CPUs the candidate of its execution is pinned to
  stray,      \* per caller: CPUs of candidates that outlived their execution
  faults

vars == <<lock, pc, left, held, passes, candidate, stray, faults>>

PC == {"idle", "scan", "drop", "wait", "leased", "running", "release",
       "timeout", "dead"}

Init ==
  /\ lock = [c \in Cpus |-> Nobody]
  /\ pc = [p \in Callers |-> "idle"]
  /\ left = [p \in Callers |-> {}]
  /\ held = [p \in Callers |-> {}]
  /\ passes = [p \in Callers |-> 0]
  /\ candidate = [p \in Callers |-> {}]
  /\ stray = [p \in Callers |-> {}]
  /\ faults = 0

-----------------------------------------------------------------------------
(* reserve_cpus.                                                           *)

BeginPass(p) ==
  /\ left' = [left EXCEPT ![p] = Allowed[p]]
  /\ pc' = [pc EXCEPT ![p] = "scan"]

Call(p) ==
  /\ pc[p] = "idle"
  /\ BeginPass(p)
  /\ passes' = [passes EXCEPT ![p] = 0]
  /\ UNCHANGED <<lock, held, candidate, stray, faults>>

\* Mutant: the failed non-blocking lock is taken for a success.
TryCpuUnchecked(p) ==
  /\ pc[p] = "scan"
  /\ \E c \in left[p] :
       /\ \A d \in left[p] : c <= d
       /\ lock' = [lock EXCEPT ![c] = IF @ = Nobody THEN p ELSE @]
       /\ held' = [held EXCEPT ![p] = @ \cup {c}]
       /\ left' = [left EXCEPT ![p] = @ \ {c}]
  /\ pc' = [pc EXCEPT ![p] = IF Cardinality(held'[p]) = Need[p]
                             THEN "leased" ELSE "scan"]
  /\ UNCHANGED <<passes, candidate, stray, faults>>

\* One non-blocking flock, in ascending order of the CPU numbers.
TryCpu(p) ==
  /\ pc[p] = "scan"
  /\ \E c \in left[p] :
       /\ \A d \in left[p] : c <= d
       /\ \/ /\ lock[c] = Nobody
             /\ lock' = [lock EXCEPT ![c] = p]
             /\ held' = [held EXCEPT ![p] = @ \cup {c}]
          \/ /\ lock[c] # Nobody
             /\ UNCHANGED <<lock, held>>
       /\ left' = [left EXCEPT ![p] = @ \ {c}]
  /\ pc' = [pc EXCEPT ![p] = IF Cardinality(held'[p]) = Need[p]
                             THEN "leased" ELSE "scan"]
  /\ UNCHANGED <<passes, candidate, stray, faults>>

\* Too few were free: give back what the pass got before sleeping.
PassFailed(p) ==
  /\ pc[p] = "scan"
  /\ left[p] = {}
  /\ pc' = [pc EXCEPT ![p] = "drop"]
  /\ UNCHANGED <<lock, left, held, passes, candidate, stray, faults>>

\* os.close releases the lock of the file.
CloseOne(p) ==
  \E c \in held[p] :
    /\ held' = [held EXCEPT ![p] = @ \ {c}]
    /\ lock' = [lock EXCEPT ![c] = Nobody]

Drop(p) ==
  /\ pc[p] = "drop"
  /\ \/ CloseOne(p) /\ UNCHANGED pc
     \/ /\ held[p] = {}
        /\ pc' = [pc EXCEPT ![p] = "wait"]
        /\ UNCHANGED <<lock, held>>
  /\ UNCHANGED <<left, passes, candidate, stray, faults>>

\* Sleep and look again, as long as the deadline has not passed.
Retry(p) ==
  /\ pc[p] = "wait"
  /\ passes[p] < MaxPasses
  /\ passes' = [passes EXCEPT ![p] = @ + 1]
  /\ BeginPass(p)
  /\ UNCHANGED <<lock, held, candidate, stray, faults>>

\* TimeoutError.  The deadline may pass after any number of passes.
TimeOut(p) ==
  /\ pc[p] = "wait"
  /\ pc' = [pc EXCEPT ![p] = "timeout"]
  /\ UNCHANGED <<lock, left, held, passes, candidate, stray, faults>>

Reserve(p) == \/ TryCpu(p) \/ PassFailed(p) \/ Drop(p) \/ Retry(p) \/ TimeOut(p)

-----------------------------------------------------------------------------
(* The execution under the lease.                                          *)

Start(p) ==
  /\ pc[p] = "leased"
  /\ candidate' = [candidate EXCEPT ![p] = held[p]]
  /\ pc' = [pc EXCEPT ![p] = "running"]
  /\ UNCHANGED <<lock, left, held, passes, stray, faults>>

\* An error under the lock files (open or flock fails) or before the candidate
\* runs (its command cannot be launched): the `finally' clause closes them.
Fail(p) ==
  /\ pc[p] \in {"scan", "leased"}
  /\ pc' = [pc EXCEPT ![p] = "release"]
  /\ UNCHANGED <<lock, left, held, passes, candidate, stray, faults>>

\* _exec returns when the candidate is gone, by itself or by SIGKILL at the
\* deadline; then the context manager closes the lock files.
Finish(p) ==
  /\ pc[p] = "running"
  /\ candidate' = [candidate EXCEPT ![p] = {}]
  /\ pc' = [pc EXCEPT ![p] = "release"]
  /\ UNCHANGED <<lock, left, held, passes, stray, faults>>

\* It also returns when the group cannot be killed, its wait runs out, or
\* `docker rm -f' fails: the errors are passed over, the candidate lives on.
Abandon(p) ==
  /\ candidate' = [candidate EXCEPT ![p] = {}]
  /\ stray' = [stray EXCEPT ![p] = @ \cup candidate[p]]
  /\ faults < MaxFaults
  /\ faults' = faults + 1

FinishAlive(p) ==
  /\ pc[p] = "running"
  /\ Abandon(p)
  /\ pc' = [pc EXCEPT ![p] = "release"]
  /\ UNCHANGED <<lock, left, held, passes>>

Release(p) ==
  /\ pc[p] = "release"
  /\ \/ CloseOne(p) /\ UNCHANGED pc
     \/ /\ held[p] = {}
        /\ pc' = [pc EXCEPT ![p] = "idle"]
        /\ UNCHANGED <<lock, held>>
  /\ UNCHANGED <<left, passes, candidate, stray, faults>>

\* The caller is killed: the kernel closes its files, in one step for the
\* others.  Its candidate is in a session of its own and may live on.
Kill(p) ==
  /\ pc[p] \notin {"idle", "timeout", "dead"}
  /\ Abandon(p)
  /\ lock' = [c \in Cpus |-> IF lock[c] = p THEN Nobody ELSE lock[c]]
  /\ held' = [held EXCEPT ![p] = {}]
  /\ left' = [left EXCEPT ![p] = {}]
  /\ pc' = [pc EXCEPT ![p] = "dead"]
  /\ UNCHANGED passes

StrayEnds(p) ==
  /\ stray[p] # {}
  /\ stray' = [stray EXCEPT ![p] = {}]
  /\ UNCHANGED <<lock, pc, left, held, passes, candidate, faults>>

\* Nothing is left to do only when every caller has timed out or is dead.
Ended ==
  /\ \A p \in Callers : pc[p] \in {"timeout", "dead"} /\ stray[p] = {}
  /\ UNCHANGED vars

Next == \/ \E p \in Callers : \/ Call(p) \/ Reserve(p) \/ Start(p)
                              \/ Fail(p) \/ Finish(p) \/ FinishAlive(p)
                              \/ Release(p) \/ Kill(p) \/ StrayEnds(p)
        \/ Ended

Spec == Init /\ [][Next]_vars

-----------------------------------------------------------------------------
(* What the leases owe the executions.                                     *)

\* Among the types: no caller takes a CPU outside its affinity mask.
TypeOK ==
  /\ lock \in [Cpus -> Callers \cup {Nobody}]
  /\ pc \in [Callers -> PC]
  /\ left \in [Callers -> SUBSET Cpus]
  /\ held \in [Callers -> SUBSET Cpus]
  /\ \A p \in Callers : held[p] \subseteq Allowed[p]
  /\ passes \in [Callers -> Nat]
  /\ candidate \in [Callers -> SUBSET Cpus]
  /\ stray \in [Callers -> SUBSET Cpus]
  /\ faults \in Nat

\* The candidates of two executions that go on share no CPU: a lease lasts as
\* long as the execution, whatever other callers try, drop or lose meanwhile.
\* A candidate that outlives its execution, because its caller is killed or
\* could not remove it, has no lease any more.
CandidatesApart ==
  \A p, q \in Callers : p # q => candidate[p] \cap candidate[q] = {}

\* "Reserve distinct allowed logical CPUs for the entire candidate lifetime"
\* (cpu_slots.py 11), of all candidates that live, those included.
SurvivorsApart ==
  \A p, q \in Callers :
    p # q => candidate[p] \cap (candidate[q] \cup stray[q]) = {}

\* "Never wait while holding a partial multi-CPU reservation": a caller that
\* sleeps, gave up, or is dead keeps no CPU from the others.
IdleHoldsNothing ==
  \A p \in Callers :
    pc[p] \in {"idle", "wait", "timeout", "dead"}
      => \A c \in Cpus : lock[c] # p

\* The leases, collected lock by lock and given back file by file, are granted
\* and returned at once as far as anybody can tell who asks what is granted.
Granted == [p \in Callers |->
             IF pc[p] \in {"leased", "running"} THEN held[p] ELSE {}]
Allocator == INSTANCE CpuAllocator WITH granted <- Granted
AllocatorSpec == Allocator!AllocatorSpec

=============================================================================
