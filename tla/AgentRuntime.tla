----------------------------- MODULE AgentRuntime -----------------------------
(***************************************************************************)
(* One run's docker objects and agent sessions: SecureCodexRuntime.start   *)
(* and cleanup_secure_runtime (trusted_eval_infra/agent/runtime.py) and    *)
(* the handles of the sessions (container_handle.py).  CORAL's manager,    *)
(* one thread outside the repository, starts a session by ensuring network *)
(* and egress proxy, the model proxy and the shared container, recording   *)
(* the start, and a docker exec.  The objects are named after the run, so  *)
(* that a resumed manager meets those of its predecessor; what it has made *)
(* itself it remembers in memory.                                          *)
(*                                                                         *)
(* The model is reached through the model proxy (model_access "proxy").    *)
(* A docker command that fails has no effect, and is counted.              *)
(***************************************************************************)
EXTENDS Naturals, FiniteSets

CONSTANTS
  Agents,
  MaxStarts,  \* bound on sessions (the model's)
  MaxFaults,  \* bound on docker failures (the model's)
  NoAgent

ASSUME RuntimeAssumption ==
  NoAgent \notin Agents /\ MaxStarts \in Nat /\ MaxFaults \in Nat

VARIABLES
  coral,     \* CORAL: running, left (with code 0), failed, killed
  step,      \* the manager: monitor, or what it does to start a session
  acting,    \* the agent it starts
  handle,    \* per agent, the handle of its session: none, live, gone (exited)
  session,   \* per agent, the number of its last session in this manager
  alive,     \* sessions with processes in the container: <<agent, number>>
  docker,    \* per object: none, alone, joined (to the network), dead
  prepared,  \* _PREPARED_CONTAINERS and _PREPARED_MODEL_PROXIES
  starts,    \* runtime_starts in agent_activity.json (0: no file)
  policy,    \* there is an agent_runtime.json
  kept,      \* objects that the last cleanup has failed to remove
  faults

manager == <<coral, step, acting, handle, session, prepared>>
audit == <<starts, policy, kept>>
runtime == <<manager, alive, docker, audit, faults>>

Containers == {"egress", "model", "agents"}
Objects == Containers \cup {"network"}

RuntimeInit ==
  /\ coral = "running" /\ step = "monitor" /\ acting = NoAgent
  /\ handle = [a \in Agents |-> "none"]
  /\ session = [a \in Agents |-> 0]
  /\ alive = {}
  /\ docker = [o \in Objects |-> "none"]
  /\ prepared = {}
  /\ starts = 0 /\ policy = FALSE
  /\ kept = {} /\ faults = 0

Fault == faults < MaxFaults /\ faults' = faults + 1

Becomes(object, state) == docker' = [docker EXCEPT ![object] = state]

\* What runs in the container of the agents dies with it.
Gone(object) ==
  /\ Becomes(object, "none")
  /\ alive' = IF object = "agents" THEN {} ELSE alive

Proceeds(next) ==
  /\ step' = next
  /\ UNCHANGED <<coral, acting, handle, session, faults>>

\* The manager's memory and handles end with it.
Forgets ==
  /\ step' = "monitor" /\ acting' = NoAgent
  /\ handle' = [a \in Agents |-> "none"]
  /\ session' = [a \in Agents |-> 0]
  /\ prepared' = {}

Own == {s \in alive : s[2] = session[s[1]]}

\* An exception ends CORAL with an error; it stops its agents if it can.
Raises ==
  /\ coral' = "failed" /\ Forgets
  /\ alive' = alive \/ alive' = alive \ Own

-----------------------------------------------------------------------------
(* The manager starts a session.                                           *)

Start(a) ==
  /\ coral = "running" /\ step = "monitor"
  /\ handle[a] = "none" /\ starts < MaxStarts
  /\ step' = "egress" /\ acting' = a
  /\ UNCHANGED <<coral, handle, session, prepared, alive, docker, audit, faults>>

\* Network and proxy are looked up by name, whatever has become of them.
EnsureEgress ==
  /\ step = "egress"
  /\ \/ /\ docker' = [docker EXCEPT !["network"] = "alone",
                                   !["egress"] = IF @ = "none" THEN "alone" ELSE @]
        /\ Proceeds(IF docker["egress"] = "none" THEN "connect" ELSE "model")
        /\ UNCHANGED <<prepared, alive, audit>>
     \/ /\ Fault /\ Raises
        /\ UNCHANGED docker \/ Becomes("network", "alone")
        /\ UNCHANGED audit

ConnectEgress ==
  /\ step = "connect"
  /\ \/ /\ Becomes("egress", "joined") /\ Proceeds("model")
        /\ UNCHANGED <<prepared, alive, audit>>
     \/ /\ Fault /\ Raises
        /\ UNCHANGED <<docker, audit>>

\* One that runs and that this manager has made.
Usable(object) == object \in prepared /\ docker[object] # "none"

\* Any other is replaced, with all that runs in it.  The name may stay taken,
\* or be free and the new container not start.
Ensure(object, next) ==
  \/ /\ Usable(object)
     /\ Proceeds(next) /\ UNCHANGED <<prepared, alive, docker, audit>>
  \/ /\ ~Usable(object)
     /\ Becomes(object, "joined") /\ Proceeds(next)
     /\ prepared' = prepared \cup {object}
     /\ alive' = IF object = "agents" THEN {} ELSE alive
     /\ UNCHANGED audit
  \/ /\ Fault /\ UNCHANGED audit
     /\ \/ Raises /\ UNCHANGED docker
        \/ coral' = "failed" /\ Forgets /\ Gone(object)

EnsureModelProxy == step = "model" /\ Ensure("model", "agents")

EnsureSharedContainer == step = "agents" /\ Ensure("agents", "record")

RecordStart ==
  /\ step = "record" /\ Proceeds("exec")
  /\ starts' = starts + 1
  /\ UNCHANGED <<prepared, alive, docker, policy, kept>>

\* The policy record, and docker exec: in a container that is gone it exits
\* at once.
Exec ==
  /\ step = "exec"
  /\ policy' = TRUE
  /\ session' = [session EXCEPT ![acting] = starts]
  /\ IF docker["agents"] = "none"
     THEN handle' = [handle EXCEPT ![acting] = "gone"] /\ UNCHANGED alive
     ELSE /\ handle' = [handle EXCEPT ![acting] = "live"]
          /\ alive' = alive \cup {<<acting, starts>>}
  /\ step' = "monitor" /\ acting' = NoAgent
  /\ UNCHANGED <<coral, prepared, docker, starts, kept, faults>>

Setup ==
  /\ coral = "running"
  /\ \/ EnsureEgress \/ ConnectEgress \/ EnsureModelProxy
     \/ EnsureSharedContainer \/ RecordStart \/ Exec

-----------------------------------------------------------------------------
(* Sessions end, and their handles are cleaned.                            *)

\* Codex is done and its entrypoint has killed its descendants.
SessionEnds(a) ==
  /\ handle[a] = "live"
  /\ handle' = [handle EXCEPT ![a] = "gone"]
  /\ alive' = alive \ {<<a, session[a]>>}
  /\ UNCHANGED <<coral, step, acting, session, prepared, docker, audit, faults>>

\* The docker exec on the host dies, what it started does not.
ClientDies(a) ==
  /\ handle[a] = "live" /\ Fault
  /\ handle' = [handle EXCEPT ![a] = "gone"]
  /\ UNCHANGED <<coral, step, acting, session, prepared, alive, docker, audit>>

\* A container dies; all but the egress proxy run with --rm.
Dies(object) ==
  /\ docker[object] \notin {"none", "dead"} /\ Fault
  /\ IF object = "egress" THEN Becomes(object, "dead") /\ UNCHANGED alive
                          ELSE Gone(object)
  /\ handle' = [a \in Agents |-> IF object = "agents" /\ handle[a] = "live"
                                 THEN "gone" ELSE handle[a]]
  /\ UNCHANGED <<coral, step, acting, session, prepared, audit>>

\* Mutant: the exit of the docker exec is taken for the end of the session.
CleanHandleOnly(a) ==
  /\ coral = "running" /\ step = "monitor"
  /\ handle[a] # "none"
  /\ handle' = [handle EXCEPT ![a] = "none"]
  /\ alive' = IF handle[a] = "live" THEN alive \ {<<a, session[a]>>} ELSE alive
  /\ UNCHANGED <<coral, step, acting, session, prepared, docker, audit, faults>>

\* The manager finds that a session has exited, or stops it itself: in either
\* case what is left of it is killed.  That fails, with an exception, only if
\* the container still runs.
CleanHandle(a) ==
  /\ coral = "running" /\ step = "monitor"
  /\ handle[a] # "none"
  /\ \/ /\ handle' = [handle EXCEPT ![a] = "none"]
        /\ alive' = alive \ {<<a, session[a]>>}
        /\ UNCHANGED <<coral, step, acting, session, prepared, docker, audit, faults>>
     \/ /\ docker["agents"] # "none" /\ Fault /\ Raises
        /\ UNCHANGED <<docker, audit>>

Manage ==
  \/ Setup
  \/ \E a \in Agents : SessionEnds(a) \/ ClientDies(a) \/ CleanHandle(a)
  \/ \E object \in Containers : Dies(object)

-----------------------------------------------------------------------------
(* The end of the run.                                                     *)

\* The manager stops its agents and exits, or an exception ends it, as that
\* of a dead grader does.
Leaves ==
  /\ coral = "running" /\ step = "monitor"
  /\ \/ coral' = "left" /\ Forgets /\ alive' = alive \ Own
     \/ Raises
  /\ UNCHANGED <<docker, audit, faults>>

\* cleanup_secure_runtime: a command that fails is not noticed, and the
\* network stays while a container is attached to it.
Remove(object) ==
  \/ /\ object = "network" => \A c \in Containers : docker[c] # "joined"
     /\ Gone(object) /\ UNCHANGED <<faults, kept>>
  \/ /\ object = "network" /\ \E c \in Containers : docker[c] = "joined"
     /\ UNCHANGED <<docker, alive, faults, kept>>
  \/ /\ docker[object] # "none" /\ Fault
     /\ kept' = kept \cup {object}
     /\ UNCHANGED <<docker, alive>>

\* The processes of the host die and are started again; containers live on.
Restart ==
  /\ coral' = "running" /\ Forgets
  /\ kept' = {}
  /\ UNCHANGED <<alive, docker, starts, policy, faults>>

-----------------------------------------------------------------------------
RuntimeTypeOK ==
  /\ coral \in {"running", "left", "failed", "killed"}
  /\ step \in {"monitor", "egress", "connect", "model", "agents", "record", "exec"}
  /\ acting \in Agents \cup {NoAgent}
  /\ (acting = NoAgent) <=> (step = "monitor")
  /\ handle \in [Agents -> {"none", "live", "gone"}]
  /\ session \in [Agents -> Nat]
  /\ alive \subseteq Agents \X Nat
  /\ docker \in [Objects -> {"none", "alone", "joined", "dead"}]
  /\ prepared \subseteq {"model", "agents"}
  /\ starts \in Nat /\ policy \in BOOLEAN
  /\ kept \subseteq Objects /\ faults \in 0 .. MaxFaults

Of(a) == {s \in alive : s[1] = a}

\* "must stop the manager from silently creating another leaked tree"
\* (container_handle.py 28-29), "never reuse an unverified container with
\* stale processes" (runtime.py 439-440): an agent never has two sessions with
\* processes at once, whatever of the first one is cut off, killed or resumed.
OneSessionPerAgent == \A a \in Agents : Cardinality(Of(a)) <= 1

\* A session is started behind an egress proxy on its network.
SessionsHaveEgress == step = "exec" => docker["egress"] = "joined"

=============================================================================
