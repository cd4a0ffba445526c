-------------------------- MODULE CandidateSandbox --------------------------
(***************************************************************************)
(* The docker objects around one candidate execution (run_docker and what  *)
(* it enters, trusted_eval_infra/execution.py): the egress network and its *)
(* proxy, the private output volume and its holder, and the candidate.     *)
(* They are made by one docker command each, and taken down again when the *)
(* contexts are left.                                                      *)
(*                                                                         *)
(* A docker command either does its work, or fails: without effect, or     *)
(* after its effect (the client times out, or the container it made does   *)
(* not start).  Every failure is counted.  The names of an execution's     *)
(* objects are fresh, so that executions do not meet; the leases they run  *)
(* under are the subject of CpuLeases and WlsSlots.                        *)
(***************************************************************************)
EXTENDS Naturals, FiniteSets, Functions

CONSTANTS
  Calls,      \* calls of run_docker
  Licensed,   \* those with a WLS license and wls_egress not off
  Hardened,   \* those with anti_hack
  MaxFaults   \* bound on failed docker commands (the model's)

ASSUME SandboxAssumption ==
  /\ IsFiniteSet(Calls)
  /\ Licensed \subseteq Calls /\ Hardened \subseteq Calls
  /\ MaxFaults \in Nat

VARIABLES
  at,       \* per call: the command it is at
  objects,  \* docker objects that exist under the call's names
  made,     \* what its contexts remove when they are left
  lease,    \* it holds its CPUs and license slot
  ran,      \* how _exec ended: "none", "ok", "error", "timeout"
  verdict,  \* what run_docker returns: "none", "success", "failure"
  tries,    \* attempts to remove the network
  faults,   \* docker commands that failed
  broken    \* objects half made, or whose last removal failed

sandbox == <<at, objects, made, lease, ran, verdict, tries, faults, broken>>

Objects == {"network", "proxy", "link", "volume", "holder", "candidate"}

Removed == {"holder", "volume", "proxy", "network"}

SetupSteps == {"network", "proxy", "attach", "ready", "volume", "holder"}

Steps == SetupSteps \cup Removed
           \cup {"idle", "lease", "candidate", "running", "reap", "reaped",
                 "export", "rm holder", "rm volume", "rm proxy", "rm network",
                 "release", "returned", "dead"}

SandboxInit ==
  /\ at = [c \in Calls |-> "idle"]
  /\ objects = [c \in Calls |-> {}]
  /\ made = [c \in Calls |-> {}]
  /\ lease = [c \in Calls |-> FALSE]
  /\ ran = [c \in Calls |-> "none"]
  /\ verdict = [c \in Calls |-> "none"]
  /\ tries = [c \in Calls |-> 0]
  /\ faults = [c \in Calls |-> 0]
  /\ broken = [c \in Calls |-> {}]

-----------------------------------------------------------------------------
(* Order of the commands.                                                  *)

WithEgress(c) == IF c \in Hardened THEN "volume" ELSE "candidate"

WithLease(c) == IF c \in Licensed THEN "network" ELSE WithEgress(c)

After(c, step) ==
  [network |-> "proxy", proxy |-> "attach", attach |-> "ready",
   ready |-> WithEgress(c), volume |-> "holder", holder |-> "candidate"][step]

\* Mutant: the try of the output volume begins when its holder is there too.
EntersLate(step) == [network |-> {"network"}, proxy |-> {"proxy"},
                     attach |-> {}, ready |-> {},
                     volume |-> {}, holder |-> {"volume", "holder"}][step]

\* What a command of the setup brings into being, and what is removed from
\* then on: the try of the output volume begins when the volume is there.
Yields(step) == [network |-> {"network"}, proxy |-> {"proxy"},
                 attach |-> {"link"}, ready |-> {},
                 volume |-> {"volume"}, holder |-> {"holder"}][step]

Enters(step) == [network |-> {"network"}, proxy |-> {"proxy"},
                 attach |-> {}, ready |-> {},
                 volume |-> {"volume", "holder"}, holder |-> {}][step]

\* The contexts are left inside out: holder, volume, proxy, network.
Unwind(contexts) ==
  IF "holder" \in contexts THEN "rm holder"
  ELSE IF "volume" \in contexts THEN "rm volume"
  ELSE IF "proxy" \in contexts THEN "rm proxy"
  ELSE IF "network" \in contexts THEN "rm network"
  ELSE "release"

Goes(c, step) == at' = [at EXCEPT ![c] = step]

Fault(c) ==
  /\ SumFunction(faults) < MaxFaults
  /\ faults' = [faults EXCEPT ![c] = @ + 1]

Fails(c) == verdict' = [verdict EXCEPT ![c] = "failure"]

Gains(c, new) == objects' = [objects EXCEPT ![c] = @ \cup new]
Loses(c, old) == objects' = [objects EXCEPT ![c] = @ \ old]
Leaves(c, contexts) ==
  /\ made' = [made EXCEPT ![c] = @ \ contexts]
  /\ Goes(c, Unwind(made[c] \ contexts))

\* A removal that failed, before or after its effect.
MayLose(c, old) == Loses(c, old) \/ UNCHANGED objects
Breaks(c, obs) == broken' = [broken EXCEPT ![c] = @ \cup obs]

-----------------------------------------------------------------------------
(* Setup.                                                                  *)

\* The license slot and the CPUs, in that order; either wait may time out.
TakeLease(c) ==
  /\ at[c] = "lease"
  /\ \/ /\ lease' = [lease EXCEPT ![c] = TRUE]
        /\ Goes(c, WithLease(c))
        /\ UNCHANGED verdict
     \/ /\ Fails(c) /\ Goes(c, "returned")
        /\ UNCHANGED lease
  /\ UNCHANGED <<objects, made, ran, tries, faults, broken>>

SetupDone(c) ==
  /\ at[c] \in SetupSteps
  /\ Gains(c, Yields(at[c]))
  /\ made' = [made EXCEPT ![c] = @ \cup Enters(at[c])]
  /\ Goes(c, After(c, at[c]))
  /\ UNCHANGED <<lease, ran, verdict, tries, faults, broken>>

\* The exception leaves the contexts that have been entered.
SetupFails(c) ==
  /\ at[c] \in SetupSteps
  /\ Fault(c)
  /\ \/ UNCHANGED <<objects, broken>>
     \/ /\ Gains(c, Yields(at[c]))
        /\ Breaks(c, Yields(at[c]) \cap Enters(at[c]))
  /\ Fails(c)
  /\ Goes(c, Unwind(made[c]))
  /\ UNCHANGED <<made, lease, ran, tries>>

-----------------------------------------------------------------------------
(* _exec.                                                                  *)

\* docker run of the candidate; a client that cannot be started is answered
\* without a look for a container.
StartCandidate(c) ==
  /\ at[c] = "candidate"
  /\ \/ /\ Gains(c, {"candidate"}) /\ Goes(c, "running")
        /\ UNCHANGED <<ran, verdict, faults>>
     \/ /\ Fault(c)
        /\ ran' = [ran EXCEPT ![c] = "error"]
        /\ Goes(c, "reaped")
        /\ UNCHANGED <<objects, verdict>>
     \/ /\ Fault(c) /\ Fails(c)
        /\ Goes(c, Unwind(made[c]))
        /\ UNCHANGED <<objects, ran>>
  /\ UNCHANGED <<made, lease, tries, broken>>

\* The candidate exits and docker removes it (--rm).
CandidateExits(c) ==
  /\ at[c] = "running"
  /\ Loses(c, {"candidate"})
  /\ \E code \in {"ok", "error"} : ran' = [ran EXCEPT ![c] = code]
  /\ Goes(c, "reaped")
  /\ UNCHANGED <<made, lease, verdict, tries, faults, broken>>

\* The docker client exits with an error of its own; the container runs on.
ClientExits(c) ==
  /\ at[c] = "running"
  /\ Fault(c)
  /\ ran' = [ran EXCEPT ![c] = "error"]
  /\ Goes(c, "reaped")
  /\ UNCHANGED <<objects, made, lease, verdict, tries, broken>>

\* Mutant: no removal of its own after a timeout.
TimesOutQuietly(c) ==
  /\ at[c] = "running"
  /\ ran' = [ran EXCEPT ![c] = "timeout"]
  /\ Goes(c, "reaped")
  /\ UNCHANGED <<objects, made, lease, verdict, tries, faults, broken>>

\* The time limit: the group of the docker client is killed, and with it
\* nothing but the client.
TimesOut(c) ==
  /\ at[c] = "running"
  /\ ran' = [ran EXCEPT ![c] = "timeout"]
  /\ Goes(c, "reap")
  /\ UNCHANGED <<objects, made, lease, verdict, tries, faults, broken>>

\* _force_remove_docker_container: whatever comes of it is ignored.
ForceRemove(c) ==
  \/ Loses(c, {"candidate"}) /\ UNCHANGED faults
  \/ Fault(c) /\ UNCHANGED objects

Reap(c) ==
  /\ at[c] = "reap"
  /\ ForceRemove(c)
  /\ Goes(c, "reaped")
  /\ UNCHANGED <<made, lease, ran, verdict, tries, broken>>

\* The second call, made however the execution ended, and _exec's answer.
ReapAgain(c) ==
  /\ at[c] = "reaped"
  /\ ForceRemove(c)
  /\ Breaks(c, objects'[c] \cap {"candidate"})
  /\ IF ran[c] = "ok" /\ c \in Hardened
       THEN Goes(c, "export") /\ UNCHANGED verdict
       ELSE /\ verdict' = [verdict EXCEPT
                             ![c] = IF ran[c] = "ok" THEN "success"
                                                     ELSE "failure"]
            /\ Goes(c, Unwind(made[c]))
  /\ UNCHANGED <<made, lease, ran, tries>>

\* The holder writes the solution out, and the host copies it; an output that
\* is no bounded regular file is a failure of the candidate, not of docker.
Export(c) ==
  /\ at[c] = "export"
  /\ \/ /\ verdict' \in {[verdict EXCEPT ![c] = "success"],
                         [verdict EXCEPT ![c] = "failure"]}
        /\ UNCHANGED faults
     \/ Fault(c) /\ Fails(c)
  /\ Goes(c, Unwind(made[c]))
  /\ UNCHANGED <<objects, made, lease, ran, tries, broken>>

-----------------------------------------------------------------------------
(* Leaving the contexts.                                                   *)

\* docker rm -f of the holder.  Its exit code is ignored, but a client that
\* times out raises: the volume is not removed, and the call has failed even
\* if its solution was exported.
RemoveHolder(c) ==
  /\ at[c] = "rm holder"
  /\ \/ /\ Loses(c, {"holder"}) /\ Leaves(c, {"holder"})
        /\ UNCHANGED <<verdict, faults, broken>>
     \/ /\ Fault(c) /\ Breaks(c, {"holder"})
        /\ \/ /\ Leaves(c, {"holder"})
              /\ UNCHANGED <<objects, verdict>>
           \/ /\ Fails(c) /\ Leaves(c, {"holder", "volume"})
              /\ MayLose(c, {"holder"})
  /\ UNCHANGED <<lease, ran, tries>>

\* A volume that a container still mounts is not removed.
RemoveVolume(c) ==
  /\ at[c] = "rm volume"
  /\ Leaves(c, {"volume"})
  /\ \/ /\ IF objects[c] \cap {"holder", "candidate"} = {}
             THEN Loses(c, {"volume"}) ELSE UNCHANGED objects
        /\ UNCHANGED <<verdict, faults, broken>>
     \/ /\ Fault(c) /\ Breaks(c, {"volume"})
        /\ \/ UNCHANGED <<objects, verdict>>
           \/ Fails(c) /\ MayLose(c, {"volume"})
  /\ UNCHANGED <<lease, ran, tries>>

RemoveProxy(c) ==
  /\ at[c] = "rm proxy"
  /\ Leaves(c, {"proxy"})
  /\ \/ Loses(c, {"proxy", "link"}) /\ UNCHANGED <<faults, broken>>
     \/ Fault(c) /\ Breaks(c, {"proxy"}) /\ MayLose(c, {"proxy", "link"})
  /\ UNCHANGED <<lease, ran, verdict, tries>>

InUse(c) == \/ "link" \in objects[c]
            \/ "candidate" \in objects[c]

\* Mutant: attempts until it is removed.
RemoveNetworkAtLast(c) ==
  /\ at[c] = "rm network"
  /\ \/ /\ "network" \in objects[c] /\ ~InUse(c)
        /\ Loses(c, {"network"}) /\ Leaves(c, {"network"})
     \/ /\ "network" \notin objects[c] \/ InUse(c)
        /\ UNCHANGED <<at, objects, made>>
  /\ UNCHANGED <<lease, ran, verdict, tries, faults, broken>>

\* Three attempts, each refused while containers are on the network, or once
\* it is gone.
RemoveNetwork(c) ==
  /\ at[c] = "rm network"
  /\ \/ /\ "network" \in objects[c] /\ ~InUse(c)
        /\ Loses(c, {"network"}) /\ Leaves(c, {"network"})
        /\ UNCHANGED <<tries, faults, broken>>
     \/ /\ IF "network" \notin objects[c] \/ InUse(c)
             THEN UNCHANGED <<objects, faults>>
             ELSE Fault(c) /\ MayLose(c, {"network"})
        /\ tries' = [tries EXCEPT ![c] = @ + 1]
        /\ IF tries[c] < 2
             THEN UNCHANGED <<at, made, broken>>
             ELSE /\ Leaves(c, {"network"})
                  /\ Breaks(c, objects'[c] \cap {"network"})
  /\ UNCHANGED <<lease, ran, verdict>>

Release(c) ==
  /\ at[c] = "release"
  /\ lease' = [lease EXCEPT ![c] = FALSE]
  /\ Goes(c, "returned")
  /\ ran' = [ran EXCEPT ![c] = "none"]
  /\ tries' = [tries EXCEPT ![c] = 0]
  /\ UNCHANGED <<objects, made, verdict, faults, broken>>

-----------------------------------------------------------------------------
(* The caller, and the end of a candidate that nobody waits for.           *)

Call(c) ==
  /\ at[c] = "idle"
  /\ Goes(c, "lease")
  /\ UNCHANGED <<objects, made, lease, ran, verdict, tries, faults, broken>>

\* The caller has its answer.
Answered(c) ==
  /\ at[c] = "returned"
  /\ verdict' = [verdict EXCEPT ![c] = "none"]
  /\ UNCHANGED <<at, objects, made, lease, ran, tries, faults, broken>>

Work(c) ==
  \/ TakeLease(c) \/ SetupDone(c) \/ SetupFails(c)
  \/ StartCandidate(c) \/ CandidateExits(c) \/ ClientExits(c) \/ TimesOut(c)
  \/ Reap(c) \/ ReapAgain(c) \/ Export(c)
  \/ RemoveHolder(c) \/ RemoveVolume(c) \/ RemoveProxy(c) \/ RemoveNetwork(c)
  \/ Release(c)

\* The calling process is killed: no context is left, the kernel frees the
\* locks of the lease, and docker knows nothing of it.
Killed(c) ==
  /\ at[c] \notin {"idle", "returned", "dead"}
  /\ Goes(c, "dead")
  /\ lease' = [lease EXCEPT ![c] = FALSE]
  /\ made' = [made EXCEPT ![c] = {}]
  /\ ran' = [ran EXCEPT ![c] = "none"]
  /\ verdict' = [verdict EXCEPT ![c] = "none"]
  /\ tries' = [tries EXCEPT ![c] = 0]
  /\ UNCHANGED <<objects, faults, broken>>

OrphanExits(c) ==
  /\ "candidate" \in objects[c] /\ at[c] # "running"
  /\ Loses(c, {"candidate"})
  /\ UNCHANGED <<at, made, lease, ran, verdict, tries, faults, broken>>

SandboxNext ==
  \E c \in Calls :
    Call(c) \/ Work(c) \/ Answered(c) \/ Killed(c) \/ OrphanExits(c)

SandboxSpec == SandboxInit /\ [][SandboxNext]_sandbox

-----------------------------------------------------------------------------
(* What an execution leaves behind.                                        *)

SandboxTypeOK ==
  /\ at \in [Calls -> Steps]
  /\ objects \in [Calls -> SUBSET Objects]
  /\ made \in [Calls -> SUBSET Removed]
  /\ lease \in [Calls -> BOOLEAN]
  /\ ran \in [Calls -> {"none", "ok", "error", "timeout"}]
  /\ verdict \in [Calls -> {"none", "success", "failure"}]
  /\ tries \in [Calls -> Nat]
  /\ faults \in [Calls -> Nat]
  /\ broken \in [Calls -> SUBSET Objects]

\* Whatever fails on the way, and wherever: a call of run_docker that returns
\* has left nothing behind, unless docker failed in the middle of making an
\* object or refused to remove one to the last attempt.
NothingLeft ==
  \A c \in Calls : at[c] = "returned" /\ broken[c] = {} => objects[c] = {}

\* The CPUs and the license slot are given back when the candidate is gone,
\* unless the caller is killed.  One docker command that fails is not enough
\* to break this: it takes two (both removals after a timeout, or the client
\* and the one removal).
CandidateGoneFirst ==
  \A c \in Calls :
    "candidate" \in objects[c] /\ ~lease[c]
      => at[c] = "dead" \/ faults[c] >= 2

=============================================================================
