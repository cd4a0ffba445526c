--------------------------- MODULE AgentRunProofs ---------------------------
(***************************************************************************)
(* Proofs about AgentRun, for any agents, attempts, failures and kills.    *)
(* The three parts of the inductive invariant do not need each other: what *)
(* a manager that has made the container of the agents knows of what runs  *)
(* in it; what each command of the cleanup leaves to the next; and what    *)
(* the progress guard's signature says of the attempts since.              *)
(***************************************************************************)
EXTENDS AgentRun, FiniteSetTheorems, TLAPS

Signatures == {<<>>} \cup ((SUBSET Agents) \X Nat)

TypeInv ==
  /\ TypeOK
  /\ guard \in [signature : Signatures, baseline : Nat]

LEMMA InitTypeInv == Init => TypeInv
<1> SUFFICES ASSUME Init PROVE TypeInv
  OBVIOUS
<1>1. RuntimeTypeOK
  <2> USE DEF Init, RuntimeInit
  <2>1. handle \in [Agents -> {"none", "live", "gone"}] /\ session \in [Agents -> Nat]
    OBVIOUS
  <2>2. docker \in [Objects -> {"none", "alone", "joined", "dead"}]
    OBVIOUS
  <2>3. faults \in 0 .. MaxFaults
    BY RuntimeAssumption
  <2>4. alive \subseteq Agents \X Nat /\ prepared \subseteq {"model", "agents"} /\ kept \subseteq Objects
    OBVIOUS
  <2> QED
    BY <2>1, <2>2, <2>3, <2>4 DEF RuntimeTypeOK
<1>2. guard \in [signature : Signatures, baseline : Nat]
  BY DEF Init, NotSeen, Signatures
<1> QED
  BY <1>1, <1>2 DEF Init, TypeInv, TypeOK

DockerStates == {"none", "alone", "joined", "dead"}

\* What the ways on and out of a step of the manager do to the types.
LEMMA FaultTypes == RuntimeTypeOK /\ Fault => faults' \in 0 .. MaxFaults
  BY RuntimeAssumption DEF Fault, RuntimeTypeOK

LEMMA BecomesTypes ==
  ASSUME RuntimeTypeOK, NEW o, NEW d \in DockerStates, Becomes(o, d)
  PROVE  docker' \in [Objects -> DockerStates]
  BY DEF Becomes, RuntimeTypeOK, DockerStates

LEMMA GoneTypes ==
  ASSUME RuntimeTypeOK, NEW o, Gone(o)
  PROVE  /\ docker' \in [Objects -> DockerStates]
         /\ alive' \subseteq Agents \X Nat
<1>1. Becomes(o, "none")
  BY DEF Gone
<1>2. docker' \in [Objects -> DockerStates]
  BY <1>1, BecomesTypes DEF DockerStates
<1> QED
  BY <1>2 DEF Gone, RuntimeTypeOK

LEMMA ForgetsTypes ==
  Forgets => /\ step' = "monitor" /\ acting' = NoAgent
             /\ handle' \in [Agents -> {"none"}]
             /\ session' \in [Agents -> Nat]
             /\ prepared' = {}
  BY DEF Forgets

LEMMA RaisesTypes == Raises => coral' = "failed" /\ Forgets /\ alive' \subseteq alive
  BY DEF Raises

LEMMA EnsureTypes ==
  ASSUME RuntimeTypeOK, NEW o \in {"model", "agents"}, NEW next \in {"agents", "record"},
         Ensure(o, next), step # "monitor"
  PROVE  RuntimeTypeOK'
<1>1. CASE Usable(o) /\ Proceeds(next) /\ UNCHANGED <<prepared, alive, docker, audit>>
  BY <1>1 DEF Proceeds, RuntimeTypeOK, audit
<1>2. CASE /\ Becomes(o, "joined") /\ Proceeds(next)
           /\ prepared' = prepared \cup {o}
           /\ alive' = IF o = "agents" THEN {} ELSE alive
           /\ UNCHANGED audit
  <2>1. docker' \in [Objects -> DockerStates]
    BY <1>2, BecomesTypes DEF DockerStates
  <2> QED
    BY <1>2, <2>1 DEF Proceeds, RuntimeTypeOK, audit, DockerStates
<1>3. CASE Fault /\ UNCHANGED audit /\ Raises /\ UNCHANGED docker
  BY <1>3, FaultTypes, ForgetsTypes, RaisesTypes DEF RuntimeTypeOK, audit
<1>4. CASE Fault /\ UNCHANGED audit /\ coral' = "failed" /\ Forgets /\ Gone(o)
  BY <1>4, FaultTypes, ForgetsTypes, GoneTypes DEF RuntimeTypeOK, audit, DockerStates
<1> QED
  BY <1>1, <1>2, <1>3, <1>4 DEF Ensure

LEMMA SetupTypes == RuntimeTypeOK /\ Setup => RuntimeTypeOK'
<1> SUFFICES ASSUME RuntimeTypeOK, Setup PROVE RuntimeTypeOK'
  OBVIOUS
<1>1. CASE EnsureEgress
  <2>1. CASE Proceeds(IF docker["egress"] = "none" THEN "connect" ELSE "model")
             /\ docker' = [docker EXCEPT !["network"] = "alone",
                                         !["egress"] = IF @ = "none" THEN "alone" ELSE @]
             /\ UNCHANGED <<prepared, alive, audit>>
    <3>1. docker' \in [Objects -> DockerStates]
      BY <2>1 DEF RuntimeTypeOK, DockerStates, Objects, Containers
    <3> QED
      BY <1>1, <2>1, <3>1 DEF EnsureEgress, Proceeds, RuntimeTypeOK, audit, DockerStates
  <2>2. CASE Fault /\ Raises /\ UNCHANGED audit
             /\ (UNCHANGED docker \/ Becomes("network", "alone"))
    <3>1. docker' \in [Objects -> DockerStates]
      BY <2>2, BecomesTypes DEF RuntimeTypeOK, DockerStates
    <3> QED
      BY <2>2, <3>1, FaultTypes, ForgetsTypes, RaisesTypes
      DEF RuntimeTypeOK, audit, DockerStates
  <2> QED
    BY <1>1, <2>1, <2>2 DEF EnsureEgress
<1>2. CASE ConnectEgress
  <2>1. CASE Becomes("egress", "joined") /\ Proceeds("model")
             /\ UNCHANGED <<prepared, alive, audit>>
    <3>1. docker' \in [Objects -> DockerStates]
      BY <2>1, BecomesTypes DEF DockerStates
    <3> QED
      BY <1>2, <2>1, <3>1 DEF ConnectEgress, Proceeds, RuntimeTypeOK, audit, DockerStates
  <2>2. CASE Fault /\ Raises /\ UNCHANGED <<docker, audit>>
    BY <2>2, FaultTypes, ForgetsTypes, RaisesTypes DEF RuntimeTypeOK, audit
  <2> QED
    BY <1>2, <2>1, <2>2 DEF ConnectEgress
<1>3. CASE EnsureModelProxy
  BY <1>3, EnsureTypes DEF EnsureModelProxy
<1>4. CASE EnsureSharedContainer
  BY <1>4, EnsureTypes DEF EnsureSharedContainer
<1>5. CASE RecordStart
  BY <1>5 DEF RecordStart, Proceeds, RuntimeTypeOK
<1>6. CASE Exec
  <2>1. acting \in Agents
    BY <1>6 DEF Exec, RuntimeTypeOK
  <2>2. handle' \in [Agents -> {"none", "live", "gone"}] /\ session' \in [Agents -> Nat]
    BY <1>6 DEF Exec, RuntimeTypeOK
  <2>3. alive' \subseteq Agents \X Nat
    BY <1>6, <2>1 DEF Exec, RuntimeTypeOK
  <2> QED
    BY <1>6, <2>2, <2>3 DEF Exec, RuntimeTypeOK
<1> QED
  BY <1>1, <1>2, <1>3, <1>4, <1>5, <1>6 DEF Setup

LEMMA ManageTypes ==
  RuntimeTypeOK /\ (Manage \/ Leaves \/ \E a \in Agents : Start(a)) => RuntimeTypeOK'
<1> SUFFICES ASSUME RuntimeTypeOK, Manage \/ Leaves \/ \E a \in Agents : Start(a)
             PROVE  RuntimeTypeOK'
  OBVIOUS
<1>1. CASE Setup
  BY <1>1, SetupTypes
<1>2. ASSUME NEW a \in Agents, SessionEnds(a) PROVE RuntimeTypeOK'
  BY <1>2 DEF SessionEnds, RuntimeTypeOK, audit
<1>3. ASSUME NEW a \in Agents, ClientDies(a) PROVE RuntimeTypeOK'
  BY <1>3, FaultTypes DEF ClientDies, RuntimeTypeOK, audit
<1>4. ASSUME NEW a \in Agents, CleanHandle(a) PROVE RuntimeTypeOK'
  <2>1. CASE handle' = [handle EXCEPT ![a] = "none"] /\ alive' = alive \ {<<a, session[a]>>}
             /\ UNCHANGED <<coral, step, acting, session, prepared, docker, audit, faults>>
    BY <2>1 DEF RuntimeTypeOK, audit
  <2>2. CASE Fault /\ Raises /\ UNCHANGED <<docker, audit>>
    BY <2>2, FaultTypes, ForgetsTypes, RaisesTypes DEF RuntimeTypeOK, audit
  <2> QED
    BY <1>4, <2>1, <2>2 DEF CleanHandle
<1>5. ASSUME NEW o \in Containers, Dies(o) PROVE RuntimeTypeOK'
  <2>1. docker' \in [Objects -> DockerStates] /\ alive' \subseteq Agents \X Nat
    BY <1>5, GoneTypes, BecomesTypes DEF Dies, RuntimeTypeOK, DockerStates
  <2>2. handle' \in [Agents -> {"none", "live", "gone"}]
    BY <1>5 DEF Dies, RuntimeTypeOK
  <2> QED
    BY <1>5, <2>1, <2>2, FaultTypes DEF Dies, RuntimeTypeOK, audit, DockerStates
<1>6. CASE Leaves
  <2>1. alive' \subseteq alive /\ Forgets /\ coral' \in {"left", "failed"}
    BY <1>6, RaisesTypes DEF Leaves
  <2> QED
    BY <1>6, <2>1, ForgetsTypes DEF Leaves, RuntimeTypeOK, audit
<1>7. ASSUME NEW a \in Agents, Start(a) PROVE RuntimeTypeOK'
  BY <1>7, RuntimeAssumption DEF Start, RuntimeTypeOK, audit
<1> QED
  BY <1>1, <1>2, <1>3, <1>4, <1>5, <1>6, <1>7 DEF Manage

LEMMA RemoveTypes ==
  ASSUME RuntimeTypeOK, NEW o \in Objects, Remove(o), UNCHANGED <<manager, starts, policy>>
  PROVE  RuntimeTypeOK'
<1>1. CASE Gone(o) /\ UNCHANGED <<faults, kept>>
  BY <1>1, GoneTypes DEF RuntimeTypeOK, manager, DockerStates
<1>2. CASE UNCHANGED <<docker, alive, faults, kept>>
  BY <1>2 DEF RuntimeTypeOK, manager
<1>3. CASE Fault /\ kept' = kept \cup {o} /\ UNCHANGED <<docker, alive>>
  BY <1>3, FaultTypes DEF RuntimeTypeOK, manager
<1> QED
  BY <1>1, <1>2, <1>3 DEF Remove

\* The parts of TypeInv that are the supervisor's.
SupervisorTypes ==
  /\ sup \in {"open", "drain", "progress", "poll", "mark", "close", "stop", "audit",
              "rm agents", "rm egress", "rm model", "rm network", "done"}
  /\ reason \in {"none", "wall_clock_exhausted", "workspace_quota_exhausted",
                 "attempt_budget_complete", "agent_no_submission_progress",
                 "coral_process_exit"}
  /\ read \in Nat
  /\ asked \subseteq Agents /\ grading \subseteq Agents
  /\ finalized \in Nat /\ changedAt \in Nat
  /\ outcome \in {"none", "returned", "raised", "aborted"}
  /\ guard \in [signature : Signatures, baseline : Nat]

LEMMA TypeParts == TypeInv <=> RuntimeTypeOK /\ SupervisorTypes
  BY DEF TypeInv, TypeOK, SupervisorTypes

LEMMA TypePartsNext == TypeInv' <=> RuntimeTypeOK' /\ SupervisorTypes'
  BY DEF TypeInv, TypeOK, SupervisorTypes

LEMMA NextTypeInv == TypeInv /\ [Next]_vars => TypeInv'
<1> SUFFICES ASSUME TypeInv, [Next]_vars PROVE TypeInv'
  OBVIOUS
<1>0. RuntimeTypeOK /\ SupervisorTypes
  BY TypeParts
<1>r. UNCHANGED runtime => RuntimeTypeOK'
  BY <1>0 DEF runtime, manager, audit, RuntimeTypeOK
<1>s. starts \in Nat
  BY <1>0 DEF RuntimeTypeOK
<1>1. ASSUME NEW a \in Agents, Drain(a) PROVE TypeInv'
  BY <1>0, <1>r, <1>s, <1>1, TypePartsNext DEF Drain, SupervisorTypes, supervisor
<1>2. CASE Look
  BY <1>0, <1>r, <1>s, <1>2, TypePartsNext DEF Look, GivesUp, SupervisorTypes, attempts
<1>3. CASE Progress
  <2>1. Signature \in Signatures
    BY <1>0 DEF Signature, Signatures, SupervisorTypes
  <2>2. guard' \in [signature : Signatures, baseline : Nat]
    BY <1>0, <1>3, <2>1 DEF Progress, SupervisorTypes
  <2> QED
    BY <1>0, <1>r, <1>3, <2>2, TypePartsNext DEF Progress, GivesUp, SupervisorTypes, attempts
<1>4. CASE PollCoral \/ TimeUp
  BY <1>0, <1>r, <1>4, TypePartsNext
  DEF PollCoral, TimeUp, GivesUp, SupervisorTypes, attempts
<1>5. CASE Audit
  BY <1>0, <1>r, <1>5, TypePartsNext DEF Audit, Outcome, At, SupervisorTypes, attempts
<1>f. Fault \/ UNCHANGED faults => faults' \in 0 .. MaxFaults
  BY <1>0, FaultTypes DEF RuntimeTypeOK
<1>12. CASE Open \/ LoopRaises
  <2>1. RuntimeTypeOK'
    BY <1>0, <1>12, <1>f DEF Open, LoopRaises, manager, audit, RuntimeTypeOK
  <2>2. SupervisorTypes'
    <3>1. CASE Open
      BY <1>0, <3>1 DEF Open, Aborts, SupervisorTypes, attempts
    <3>2. CASE LoopRaises
      BY <1>0, <3>2 DEF LoopRaises, GivesUp, SupervisorTypes, attempts
    <3> QED
      BY <1>12, <3>1, <3>2
  <2> QED
    BY <2>1, <2>2, TypePartsNext
<1>13. CASE Mark \/ Close
  <2>1. RuntimeTypeOK'
    BY <1>0, <1>13, <1>f DEF Mark, Close, manager, audit, RuntimeTypeOK
  <2> QED
    BY <1>0, <1>13, <2>1, TypePartsNext
    DEF Mark, Close, Aborts, At, SupervisorTypes, attempts
<1>6. CASE Stop
  <2>1. RuntimeTypeOK'
    BY <1>0, <1>6, <1>f, ForgetsTypes DEF Stop, RuntimeTypeOK, audit
  <2> QED
    BY <1>0, <1>6, <2>1, TypePartsNext DEF Stop, Aborts, SupervisorTypes, attempts
<1>7. CASE Cleanup
  <2>1. RuntimeTypeOK'
    BY <1>0, <1>7, RemoveTypes DEF Cleanup, Objects, Containers
  <2> QED
    BY <1>0, <1>7, <2>1, TypePartsNext DEF Cleanup, At, SupervisorTypes, attempts
<1>8. CASE Manager
  <2>1. RuntimeTypeOK'
    BY <1>0, <1>8, ManageTypes DEF Manager
  <2> QED
    BY <1>0, <1>8, <2>1, TypePartsNext DEF Manager, SupervisorTypes, supervisor, attempts
<1>9. ASSUME NEW a \in Agents, Asks(a) \/ Finalizes(a) PROVE TypeInv'
  <2>1. CASE Asks(a)
    BY <1>0, <1>r, <2>1, TypePartsNext DEF Asks, SupervisorTypes, supervisor
  <2>2. CASE Finalizes(a)
    <3>1. changedAt' \in Nat
      BY <1>0, <1>s, <2>2 DEF Finalizes, SupervisorTypes
    <3>2. finalized \in Nat /\ finalized' = finalized + 1
      BY <1>0, <2>2 DEF Finalizes, SupervisorTypes
    <3>3. finalized' \in Nat
      BY <3>2
    <3> QED
      BY <1>0, <1>r, <2>2, <3>1, <3>3, TypePartsNext DEF Finalizes, SupervisorTypes, supervisor
  <2> QED
    BY <1>9, <2>1, <2>2
<1>10. CASE Killed
  <2>1. RuntimeTypeOK'
    BY <1>0, <1>10, ForgetsTypes DEF Killed, Restart, RuntimeTypeOK
  <2>2. NotSeen \in [signature : Signatures, baseline : Nat]
    BY DEF NotSeen, Signatures
  <2> QED
    BY <1>0, <1>10, <2>1, <2>2, TypePartsNext DEF Killed, SupervisorTypes, attempts
<1>11. CASE UNCHANGED vars
  BY <1>0, <1>r, <1>11, TypePartsNext DEF vars, SupervisorTypes, supervisor, attempts
<1> QED
  BY <1>1, <1>2, <1>3, <1>4, <1>5, <1>6, <1>7, <1>8, <1>9, <1>10, <1>11, <1>12, <1>13
  DEF Next, Loop, Shutdown

\* The variables of a run keep to their types.
THEOREM RunTypes == Spec => []TypeOK
<1>1. TypeInv => TypeOK
  BY DEF TypeInv
<1> QED
  BY <1>1, InitTypeInv, NextTypeInv, PTL DEF Spec

-----------------------------------------------------------------------------
(* Sessions.                                                               *)

\* What runs in a container that this manager has made is its own and has a
\* handle, and while it starts an agent that agent has none.
SessionInv ==
  /\ "agents" \in prepared =>
       \A s \in alive : handle[s[1]] # "none" /\ s[2] = session[s[1]]
  /\ \A s, t \in alive : s[1] = t[1] => s = t
  /\ step \in {"record", "exec"} => "agents" \in prepared
  /\ step # "monitor" => handle[acting] = "none"
  /\ \A a \in Agents : handle[a] # "none" => "agents" \in prepared

LEMMA InitSessionInv == Init => SessionInv
  BY DEF Init, RuntimeInit, SessionInv

LEMMA ForgetsSessionInv ==
  RuntimeTypeOK /\ SessionInv /\ Forgets /\ alive' \subseteq alive => SessionInv'
  BY DEF Forgets, SessionInv, RuntimeTypeOK

LEMMA FewerSessionInv ==
  SessionInv /\ UNCHANGED manager /\ alive' \subseteq alive => SessionInv'
  BY DEF manager, SessionInv

LEMMA RaisesSessionInv == RuntimeTypeOK /\ SessionInv /\ Raises => SessionInv'
  BY ForgetsSessionInv, RaisesTypes

\* On the way to the container of the agents nothing of theirs is touched.
LEMMA ProceedsSessionInv ==
  ASSUME SessionInv, NEW next \in {"connect", "model", "agents"}, Proceeds(next),
         step # "monitor", prepared \subseteq prepared', prepared' \subseteq prepared \cup {"model"},
         UNCHANGED alive
  PROVE  SessionInv'
  BY DEF Proceeds, SessionInv

LEMMA SetupSessionInv == RuntimeTypeOK /\ SessionInv /\ Setup => SessionInv'
<1> SUFFICES ASSUME RuntimeTypeOK, SessionInv, Setup PROVE SessionInv'
  OBVIOUS
<1>1. CASE EnsureEgress
  BY <1>1, RaisesSessionInv, ProceedsSessionInv DEF EnsureEgress
<1>2. CASE ConnectEgress
  BY <1>2, RaisesSessionInv, ProceedsSessionInv DEF ConnectEgress
<1>3. CASE EnsureModelProxy
  <2>1. CASE Proceeds("agents") /\ UNCHANGED alive
             /\ (prepared' = prepared \/ prepared' = prepared \cup {"model"})
    BY <1>3, <2>1, ProceedsSessionInv DEF EnsureModelProxy
  <2>2. CASE Forgets /\ Gone("model")
    BY <2>2, ForgetsSessionInv DEF Gone
  <2> QED
    BY <1>3, <2>1, <2>2, RaisesSessionInv DEF EnsureModelProxy, Ensure
<1>4. CASE EnsureSharedContainer
  <2>1. CASE Usable("agents") /\ Proceeds("record") /\ UNCHANGED <<prepared, alive>>
    BY <1>4, <2>1 DEF EnsureSharedContainer, Usable, Proceeds, SessionInv
  <2>2. CASE Proceeds("record") /\ prepared' = prepared \cup {"agents"} /\ alive' = {}
    BY <1>4, <2>2 DEF EnsureSharedContainer, Proceeds, SessionInv
  <2>3. CASE Forgets /\ Gone("agents")
    BY <2>3, ForgetsSessionInv DEF Gone
  <2> QED
    BY <1>4, <2>1, <2>2, <2>3, RaisesSessionInv DEF EnsureSharedContainer, Ensure
<1>5. CASE RecordStart
  BY <1>5 DEF RecordStart, Proceeds, SessionInv
<1>6. CASE Exec
  <2>1. /\ acting \in Agents /\ handle[acting] = "none" /\ "agents" \in prepared
        /\ \A s \in alive : s[1] \in Agents /\ s[1] # acting
    BY <1>6 DEF Exec, RuntimeTypeOK, SessionInv
  <2>2. /\ prepared' = prepared /\ step' = "monitor"
        /\ session' = [session EXCEPT ![acting] = starts]
        /\ alive' \subseteq alive \cup {<<acting, starts>>}
        /\ \A a \in Agents : a # acting => handle'[a] = handle[a]
        /\ handle'[acting] # "none"
    BY <1>6, <2>1 DEF Exec, RuntimeTypeOK
  <2>3. \A s \in alive' : handle'[s[1]] # "none" /\ s[2] = session'[s[1]]
    BY <2>1, <2>2 DEF SessionInv, RuntimeTypeOK
  <2>4. \A s, t \in alive' : s[1] = t[1] => s = t
    BY <2>1, <2>2 DEF SessionInv
  <2> QED
    BY <2>1, <2>2, <2>3, <2>4 DEF SessionInv
<1> QED
  BY <1>1, <1>2, <1>3, <1>4, <1>5, <1>6 DEF Setup

LEMMA ManagerSessionInv ==
  RuntimeTypeOK /\ SessionInv /\ (Manage \/ Leaves \/ \E a \in Agents : Start(a))
    => SessionInv'
<1> SUFFICES ASSUME RuntimeTypeOK, SessionInv,
                    Manage \/ Leaves \/ \E a \in Agents : Start(a)
             PROVE  SessionInv'
  OBVIOUS
<1>1. CASE Setup
  BY <1>1, SetupSessionInv
<1>2. ASSUME NEW a \in Agents, SessionEnds(a) PROVE SessionInv'
  <2>1. \A s \in alive' : s \in alive /\ s[1] \in Agents
    BY <1>2 DEF SessionEnds, RuntimeTypeOK
  <2>2. \A b \in Agents : (handle'[b] # "none") <=> (handle[b] # "none")
    BY <1>2 DEF SessionEnds, RuntimeTypeOK
  <2>3. acting' = acting /\ (step # "monitor" => acting \in Agents)
    BY <1>2 DEF SessionEnds, RuntimeTypeOK
  <2> QED
    BY <1>2, <2>1, <2>2, <2>3 DEF SessionEnds, SessionInv
<1>3. ASSUME NEW a \in Agents, ClientDies(a) PROVE SessionInv'
  <2>1. \A s \in alive' : s \in alive /\ s[1] \in Agents
    BY <1>3 DEF ClientDies, RuntimeTypeOK
  <2>2. \A b \in Agents : (handle'[b] # "none") <=> (handle[b] # "none")
    BY <1>3 DEF ClientDies, RuntimeTypeOK
  <2>3. acting' = acting /\ (step # "monitor" => acting \in Agents)
    BY <1>3 DEF ClientDies, RuntimeTypeOK
  <2> QED
    BY <1>3, <2>1, <2>2, <2>3 DEF ClientDies, SessionInv
<1>4. ASSUME NEW a \in Agents, CleanHandle(a) PROVE SessionInv'
  <2>1. CASE handle' = [handle EXCEPT ![a] = "none"] /\ alive' = alive \ {<<a, session[a]>>}
             /\ UNCHANGED <<coral, step, acting, session, prepared>>
    <3>1. step = "monitor" /\ handle[a] # "none" /\ "agents" \in prepared
      BY <1>4 DEF CleanHandle, SessionInv
    <3>2. \A s \in alive : s[1] \in Agents /\ s = <<s[1], s[2]>>
      BY DEF RuntimeTypeOK
    <3>3. \A s \in alive' : s \in alive /\ s[1] \in Agents /\ s[1] # a
      BY <2>1, <3>1, <3>2 DEF SessionInv
    <3>4. \A b \in Agents : handle'[b] = IF b = a THEN "none" ELSE handle[b]
      BY <2>1 DEF RuntimeTypeOK
    <3> QED
      BY <2>1, <3>1, <3>3, <3>4 DEF SessionInv
  <2> QED
    BY <1>4, <2>1, RaisesSessionInv DEF CleanHandle
<1>5. ASSUME NEW o \in Containers, Dies(o) PROVE SessionInv'
  <2>1. \A s \in alive' : s \in alive /\ s[1] \in Agents
    BY <1>5 DEF Dies, Gone, RuntimeTypeOK
  <2>2. \A b \in Agents : (handle'[b] # "none") <=> (handle[b] # "none")
    BY <1>5 DEF Dies, RuntimeTypeOK
  <2>3. acting' = acting /\ (step # "monitor" => acting \in Agents)
    BY <1>5 DEF Dies, RuntimeTypeOK
  <2> QED
    BY <1>5, <2>1, <2>2, <2>3 DEF Dies, SessionInv
<1>6. CASE Leaves
  BY <1>6, RaisesSessionInv, ForgetsSessionInv DEF Leaves
<1>7. ASSUME NEW a \in Agents, Start(a) PROVE SessionInv'
  BY <1>7 DEF Start, SessionInv
<1> QED
  BY <1>1, <1>2, <1>3, <1>4, <1>5, <1>6, <1>7 DEF Manage

LEMMA NextSessionInv == TypeInv /\ SessionInv /\ [Next]_vars => SessionInv'
<1> SUFFICES ASSUME TypeInv, SessionInv, [Next]_vars PROVE SessionInv'
  OBVIOUS
<1>0. RuntimeTypeOK
  BY TypeParts
<1>1. CASE UNCHANGED runtime
  BY <1>1, FewerSessionInv DEF runtime
<1>2. CASE Stop \/ Killed
  BY <1>0, <1>2, ForgetsSessionInv DEF Stop, Killed, Restart
<1>3. CASE Cleanup
  BY <1>3, FewerSessionInv DEF Cleanup, Remove, Gone
<1>4. CASE Manager
  BY <1>0, <1>4, ManagerSessionInv DEF Manager
<1>5. Loop \/ TimeUp \/ Mark \/ Close \/ Audit \/ UNCHANGED vars
        => UNCHANGED runtime \/ UNCHANGED <<manager, alive>>
  BY DEF Loop, Open, Drain, LoopRaises, Look, Progress, PollCoral, TimeUp, Mark, Close, Audit,
         vars, runtime
<1>7. CASE UNCHANGED <<manager, alive>>
  BY <1>7, FewerSessionInv
<1>6. ASSUME NEW a \in Agents, Asks(a) \/ Finalizes(a) PROVE UNCHANGED runtime
  BY <1>6 DEF Asks, Finalizes
<1> QED
  BY <1>1, <1>2, <1>3, <1>4, <1>5, <1>6, <1>7 DEF Next, Shutdown

\* An agent never has two sessions with processes, however many of its sessions
\* have been cut off, killed or taken over from an earlier manager.
THEOREM RunKeepsOneSession == Spec => []OneSessionPerAgent
<1>1. SessionInv => OneSessionPerAgent
  <2> SUFFICES ASSUME SessionInv, NEW a \in Agents PROVE Cardinality(Of(a)) <= 1
    BY DEF OneSessionPerAgent
  <2>1. CASE Of(a) = {}
    BY <2>1, FS_EmptySet
  <2>2. CASE Of(a) # {}
    <3>1. PICK s \in Of(a) : TRUE
      BY <2>2
    <3>2. Of(a) = {s}
      BY <3>1 DEF Of, SessionInv
    <3> QED
      BY <3>2, FS_Singleton
  <2> QED
    BY <2>1, <2>2
<1> QED
  BY <1>1, InitTypeInv, NextTypeInv, InitSessionInv, NextSessionInv, PTL DEF Spec

-----------------------------------------------------------------------------
(* The end of the run.                                                     *)

\* The objects that have been removed when the supervisor is at a command.
Removed ==
  CASE sup = "rm egress"  -> {"agents"}
    [] sup = "rm model"   -> {"agents", "egress"}
    [] sup = "rm network" -> Containers
    [] OTHER              -> {}

\* CORAL is down before the cleanup, and each command has left nothing of its
\* object, or failed.  Of an end that was aborted nothing is known.
CleanupInv ==
  /\ docker["agents"] = "none" => alive = {}
  /\ sup \in {"audit", "rm agents", "rm egress", "rm model", "rm network"}
       => coral # "running"
  /\ sup = "done" /\ outcome # "aborted" => coral # "running"
  /\ \A o \in Removed \ kept : docker[o] = "none"
  /\ sup = "done" /\ outcome # "aborted" /\ kept = {} => \A o \in Objects : docker[o] = "none"

LEMMA InitCleanupInv == Init => CleanupInv
  BY DEF Init, RuntimeInit, CleanupInv, Removed

\* Without the container of the agents there are no sessions.
LEMMA ManagerKeepsSessionsInside ==
  ASSUME RuntimeTypeOK, docker["agents"] = "none" => alive = {},
         Manage \/ Leaves \/ \E a \in Agents : Start(a)
  PROVE  docker'["agents"] = "none" => alive' = {}
<1>0. /\ "agents" \in Objects /\ "egress" \in Objects /\ "network" \in Objects /\ "model" \in Objects
      /\ docker \in [Objects -> DockerStates]
  BY DEF Objects, Containers, RuntimeTypeOK, DockerStates
<1>1. ASSUME Raises, UNCHANGED docker PROVE docker'["agents"] = "none" => alive' = {}
  BY <1>1, RaisesTypes
<1>2. ASSUME NEW o \in {"model", "agents"}, NEW next, Ensure(o, next)
      PROVE  docker'["agents"] = "none" => alive' = {}
  BY <1>0, <1>1, <1>2 DEF Ensure, Becomes, Gone
<1>3. CASE Setup
  <2>1. CASE EnsureEgress
    BY <1>0, <2>1, RaisesTypes DEF EnsureEgress, Becomes
  <2>2. CASE ConnectEgress
    BY <1>0, <2>2, RaisesTypes DEF ConnectEgress, Becomes
  <2>3. CASE EnsureModelProxy \/ EnsureSharedContainer
    BY <1>2, <2>3 DEF EnsureModelProxy, EnsureSharedContainer
  <2>4. CASE RecordStart \/ Exec
    BY <2>4 DEF RecordStart, Exec
  <2> QED
    BY <1>3, <2>1, <2>2, <2>3, <2>4 DEF Setup
<1>4. ASSUME NEW a \in Agents, SessionEnds(a) \/ ClientDies(a) \/ CleanHandle(a) \/ Start(a)
      PROVE  docker'["agents"] = "none" => alive' = {}
  BY <1>1, <1>4 DEF SessionEnds, ClientDies, CleanHandle, Start
<1>5. ASSUME NEW o \in Containers, Dies(o)
      PROVE  docker'["agents"] = "none" => alive' = {}
  BY <1>0, <1>5 DEF Dies, Gone, Becomes, Containers
<1>6. CASE Leaves
  BY <1>1, <1>6 DEF Leaves
<1> QED
  BY <1>3, <1>4, <1>5, <1>6 DEF Manage

\* When CORAL is down nothing is made: what is gone stays gone.
LEMMA NothingIsMade ==
  ASSUME RuntimeTypeOK, coral # "running",
         Manage \/ Leaves \/ \E a \in Agents : Start(a)
  PROVE  /\ UNCHANGED <<coral, kept>>
         /\ \A o \in Objects : docker[o] = "none" => docker'[o] = "none"
<1>1. ASSUME NEW a \in Agents, SessionEnds(a) \/ ClientDies(a)
      PROVE  UNCHANGED <<coral, kept, docker>>
  BY <1>1 DEF SessionEnds, ClientDies, audit
<1>2. ASSUME NEW c \in Containers, Dies(c)
      PROVE  /\ UNCHANGED <<coral, kept>>
             /\ \A o \in Objects : docker[o] = "none" => docker'[o] = "none"
  BY <1>2 DEF Dies, Gone, Becomes, audit, RuntimeTypeOK
<1> QED
  BY <1>1, <1>2 DEF Manage, Setup, CleanHandle, Leaves, Start

LEMMA NextCleanupInv == TypeInv /\ CleanupInv /\ [Next]_vars => CleanupInv'
<1> SUFFICES ASSUME TypeInv, CleanupInv, [Next]_vars PROVE CleanupInv'
  OBVIOUS
<1>0. RuntimeTypeOK /\ docker \in [Objects -> DockerStates]
  BY DEF TypeInv, TypeOK, RuntimeTypeOK, DockerStates
<1>1. CASE Loop \/ TimeUp \/ Mark \/ Close \/ Audit
  <2>1. UNCHANGED <<coral, alive, docker, kept>>
    BY <1>1 DEF runtime, manager, audit, Loop, Open, Drain, LoopRaises, Look, Progress,
                PollCoral, TimeUp, Mark, Close, Audit
  <2>2. \/ UNCHANGED <<sup, outcome>>
        \/ sup' \in {"drain", "progress", "poll", "mark", "close", "stop"}
        \/ sup = "audit" /\ sup' = "rm agents"
        \/ sup' = "done" /\ outcome' = "aborted"
    BY <1>1 DEF Loop, Open, Drain, LoopRaises, Look, Progress, PollCoral, TimeUp, GivesUp,
                Mark, Close, Audit, At, Aborts, supervisor
  <2> QED
    BY <2>1, <2>2 DEF CleanupInv, Removed
<1>2. CASE UNCHANGED runtime /\ UNCHANGED <<sup, outcome>>
  BY <1>2 DEF runtime, manager, audit, CleanupInv, Removed
<1>3. CASE Stop
  BY <1>3 DEF Stop, Aborts, audit, CleanupInv, Removed
<1>4. CASE Killed
  BY <1>4 DEF Killed, Restart, CleanupInv, Removed
<1>5. CASE Cleanup
  <2>0. coral' # "running"
    BY <1>5 DEF Cleanup, At, CleanupInv, manager
  <2>1. ASSUME NEW o \in Objects, Remove(o)
        PROVE  /\ docker'["agents"] = "none" => alive' = {}
               /\ kept \subseteq kept'
               /\ \A p \in Objects : docker[p] = "none" => docker'[p] = "none"
               /\ o # "network" => docker'[o] = "none" \/ o \in kept'
    BY <1>0, <2>1 DEF Remove, Gone, Becomes, CleanupInv, Objects, Containers
  <2>2. CASE At("rm agents", "rm egress") /\ Remove("agents")
    BY <2>0, <2>1, <2>2 DEF At, CleanupInv, Removed, Objects, Containers
  <2>3. CASE At("rm egress", "rm model") /\ Remove("egress")
    BY <2>0, <2>1, <2>3 DEF At, CleanupInv, Removed, Objects, Containers
  <2>4. CASE At("rm model", "rm network") /\ Remove("model")
    BY <2>0, <2>1, <2>4 DEF At, CleanupInv, Removed, Objects, Containers
  <2>5. CASE At("rm network", "done") /\ Remove("network")
    <3>1. ASSUME kept' = {} PROVE \A o \in Objects : docker'[o] = "none"
      <4>1. kept = {} /\ \A c \in Containers : docker[c] = "none"
        BY <2>1, <2>5, <3>1 DEF At, CleanupInv, Removed, Objects
      <4>2. docker'["network"] = "none"
        BY <1>0, <2>5, <3>1, <4>1 DEF Remove, Gone, Becomes, Objects
      <4> QED
        BY <2>1, <2>5, <4>1, <4>2 DEF Objects
    <3> QED
      BY <2>0, <2>1, <2>5, <3>1 DEF At, CleanupInv, Removed, Objects
  <2> QED
    BY <1>5, <2>2, <2>3, <2>4, <2>5 DEF Cleanup
<1>6. CASE Manager
  <2>0. UNCHANGED <<sup, outcome>> /\ (Manage \/ Leaves \/ \E a \in Agents : Start(a))
    BY <1>6 DEF Manager, supervisor
  <2>1. docker'["agents"] = "none" => alive' = {}
    BY <1>0, <2>0, ManagerKeepsSessionsInside DEF CleanupInv
  <2>2. CASE coral = "running"
    BY <2>0, <2>1, <2>2 DEF CleanupInv, Removed
  <2>3. CASE coral # "running"
    <3>1. /\ UNCHANGED <<coral, kept>>
          /\ \A o \in Objects : docker[o] = "none" => docker'[o] = "none"
      BY <1>0, <2>0, <2>3, NothingIsMade
    <3>2. UNCHANGED Removed /\ Removed \subseteq Objects
      BY <2>0 DEF Removed, Objects, Containers
    <3> QED
      BY <2>0, <2>1, <3>1, <3>2 DEF CleanupInv
  <2> QED
    BY <2>2, <2>3
<1>7. ASSUME NEW a \in Agents, Asks(a) \/ Finalizes(a)
      PROVE  UNCHANGED runtime /\ UNCHANGED <<sup, outcome>>
  BY <1>7 DEF Asks, Finalizes, supervisor
<1>8. UNCHANGED vars => UNCHANGED runtime /\ UNCHANGED <<sup, outcome>>
  BY DEF vars, supervisor
<1> QED
  BY <1>1, <1>2, <1>3, <1>4, <1>5, <1>6, <1>7, <1>8 DEF Next, Shutdown

\* A supervisor that has got to its end leaves nothing of its run that docker
\* has not failed to remove, whatever died or was raised in the loop, and
\* however often the run was resumed, unless its way down was cut short by an
\* exception of the steps before the audit (runner.py 760-788).
THEOREM RunCleansUp == Spec => []RunLeavesNothing
<1>1. CleanupInv => RunLeavesNothing
  BY DEF CleanupInv, RunLeavesNothing, NothingRuns, Objects, Containers
<1> QED
  BY <1>1, InitTypeInv, NextTypeInv, InitCleanupInv, NextCleanupInv, PTL DEF Spec

-----------------------------------------------------------------------------
(* Runs that are given up for want of submissions.                         *)

\* Attempts have not changed after the activity that the guard compares with.
ChangesKnown ==
  /\ changedAt <= starts
  /\ sup = "progress" => changedAt <= read /\ read <= starts

\* The attempts only move away from what the guard has seen: an attempt that is
\* admitted adds to the pending ones until one is finalized.
SeenIsPast ==
  guard.signature # <<>> =>
    /\ guard.signature[2] <= finalized
    /\ guard.signature[2] = finalized => guard.signature[1] \subseteq grading

SeenIsCurrent == guard.signature = Signature => changedAt <= guard.baseline

StoppedForGood ==
  reason = "agent_no_submission_progress" =>
    /\ sup \notin {"open", "drain", "progress", "poll"}
    /\ grading = {} /\ starts - changedAt >= MaxRestarts

ProgressInv == ChangesKnown /\ SeenIsPast /\ SeenIsCurrent /\ StoppedForGood

LEMMA InitProgressInv == Init => ProgressInv
  BY DEF Init, RuntimeInit, NotSeen, Signature, ProgressInv, ChangesKnown, SeenIsPast,
         SeenIsCurrent, StoppedForGood

LEMMA StartsGrow ==
  ASSUME RuntimeTypeOK, Manage \/ Leaves \/ \E a \in Agents : Start(a)
  PROVE  starts' \in Nat /\ starts <= starts'
<1>0. starts \in Nat
  BY DEF RuntimeTypeOK
<1>1. ASSUME NEW o, NEW next, Ensure(o, next) PROVE starts' = starts
  BY <1>1 DEF Ensure, audit
<1>2. Setup => starts' = starts \/ starts' = starts + 1
  BY <1>1 DEF Setup, EnsureEgress, ConnectEgress, EnsureModelProxy, EnsureSharedContainer,
              RecordStart, Exec, audit
<1>3. ASSUME NEW a \in Agents, SessionEnds(a) \/ ClientDies(a) \/ CleanHandle(a) \/ Start(a)
      PROVE  starts' = starts
  BY <1>3 DEF SessionEnds, ClientDies, CleanHandle, Start, audit
<1>4. (\E o \in Containers : Dies(o)) \/ Leaves => starts' = starts
  BY DEF Dies, Leaves, audit
<1>5. starts' = starts \/ starts' = starts + 1
  BY <1>2, <1>3, <1>4 DEF Manage
<1> QED
  BY <1>0, <1>5

LEMMA LaterIsFurther ==
  ASSUME NEW from \in Nat, NEW before \in Nat, NEW later \in Nat, NEW n \in Nat,
         before <= later, before - from >= n
  PROVE  later - from >= n
  OBVIOUS

LEMMA NextProgressInv == TypeInv /\ ProgressInv /\ [Next]_vars => ProgressInv'
<1> SUFFICES ASSUME TypeInv, ProgressInv, [Next]_vars PROVE ProgressInv'
  OBVIOUS
<1> USE DEF ProgressInv
<1>0. /\ starts \in Nat /\ read \in Nat /\ finalized \in Nat /\ changedAt \in Nat
      /\ guard \in [signature : Signatures, baseline : Nat]
      /\ MaxRestarts \in Nat
  BY RunAssumption DEF TypeInv, TypeOK, RuntimeTypeOK
<1>1. ASSUME NEW a \in Agents, Drain(a) PROVE ProgressInv'
  <2>0. UNCHANGED <<starts, sup, reason, read, guard, finalized>> /\ sup = "drain"
    BY <1>1 DEF Drain, runtime, audit, supervisor
  <2>1. CASE UNCHANGED <<grading, changedAt>>
    BY <1>0, <2>0, <2>1
    DEF ChangesKnown, SeenIsPast, SeenIsCurrent, StoppedForGood, Signature
  <2>2. CASE a \notin grading /\ grading' = grading \cup {a} /\ changedAt' = starts
    <3>1. ChangesKnown' /\ StoppedForGood'
      BY <1>0, <2>0, <2>2 DEF ChangesKnown, StoppedForGood
    <3>2. SeenIsPast'
      BY <2>0, <2>2 DEF SeenIsPast
    <3>3. guard'.signature # Signature'
      BY <2>0, <2>2 DEF SeenIsPast, Signature
    <3> QED
      BY <3>1, <3>2, <3>3 DEF SeenIsCurrent
  <2> QED
    BY <1>1, <2>1, <2>2 DEF Drain
<1>2. CASE Progress
  <2>0. UNCHANGED <<starts, grading, finalized, changedAt>> /\ sup = "progress"
    BY <1>2 DEF Progress, runtime, audit, attempts
  <2> DEFINE base == IF guard.signature = Signature THEN guard.baseline ELSE read
  <2>1. base \in Nat /\ changedAt <= base
    BY <1>0, <2>0 DEF ChangesKnown, SeenIsCurrent
  <2>2. guard'.signature = Signature /\ guard'.baseline = base
    BY <1>2 DEF Progress
  <2>3. SeenIsPast'
    BY <1>0, <2>0, <2>2 DEF SeenIsPast, Signature
  <2>4. SeenIsCurrent'
    BY <2>0, <2>1, <2>2 DEF SeenIsCurrent, Signature
  <2>5. sup' # "progress"
    BY <1>2 DEF Progress, GivesUp
  <2>6. CASE grading = {} /\ read - base >= MaxRestarts /\ GivesUp("agent_no_submission_progress")
    <3>1. starts - changedAt >= MaxRestarts
      BY <1>0, <2>0, <2>1, <2>6 DEF ChangesKnown
    <3>2. StoppedForGood'
      BY <2>0, <2>6, <3>1 DEF GivesUp, StoppedForGood
    <3> QED
      BY <2>0, <2>3, <2>4, <2>5, <3>2 DEF ChangesKnown
  <2>7. CASE sup' = "poll" /\ UNCHANGED reason
    BY <2>0, <2>3, <2>4, <2>7 DEF ChangesKnown, StoppedForGood
  <2> QED
    BY <1>2, <2>6, <2>7 DEF Progress
<1>3. CASE Open \/ LoopRaises \/ Look \/ PollCoral \/ TimeUp \/ Mark \/ Close \/ Stop \/ Audit \/ Cleanup
  <2>1. UNCHANGED <<starts, guard, grading, finalized, changedAt>>
    BY <1>3 DEF Open, LoopRaises, Aborts, Look, PollCoral, TimeUp, Mark, Close, Stop, Audit, Cleanup, runtime, audit, attempts
  <2>2. sup' = "progress" => read' = starts
    BY <1>3 DEF Open, LoopRaises, Aborts, Look, PollCoral, TimeUp, Mark, Close, Stop, Audit, Cleanup, At, GivesUp
  <2>3. \/ reason' # "agent_no_submission_progress"
        \/ /\ reason' = reason
           /\ \/ sup \in {"open", "drain", "progress", "poll"}
              \/ sup' \notin {"open", "drain", "progress", "poll"}
    BY <1>3 DEF Open, LoopRaises, Aborts, Look, PollCoral, TimeUp, Mark, Close, Stop, Audit, Cleanup, At, GivesUp
  <2> QED
    BY <1>0, <2>1, <2>2, <2>3
    DEF ChangesKnown, SeenIsPast, SeenIsCurrent, StoppedForGood, Signature
<1>4. CASE Manager
  <2>1. starts' \in Nat /\ starts <= starts'
    BY <1>4, StartsGrow DEF Manager, TypeInv, TypeOK
  <2>2. UNCHANGED <<sup, reason, read, guard, grading, finalized, changedAt>>
    BY <1>4 DEF Manager, supervisor, attempts
  <2>3. SeenIsPast' /\ SeenIsCurrent'
    BY <2>2 DEF SeenIsPast, SeenIsCurrent, Signature
  <2>4. ChangesKnown'
    BY <1>0, <2>1, <2>2 DEF ChangesKnown
  <2>5. starts - changedAt >= MaxRestarts => starts' - changedAt' >= MaxRestarts
    <3>1. changedAt' = changedAt /\ starts \in Nat /\ changedAt \in Nat /\ MaxRestarts \in Nat
      BY <1>0, <2>2
    <3> QED
      BY <2>1, <3>1, LaterIsFurther
  <2>6. StoppedForGood'
    BY <2>2, <2>5 DEF StoppedForGood
  <2> QED
    BY <2>3, <2>4, <2>6
<1>5. ASSUME NEW a \in Agents, Asks(a) PROVE ProgressInv'
  BY <1>5 DEF Asks, runtime, audit, supervisor, Signature,
              ChangesKnown, SeenIsPast, SeenIsCurrent, StoppedForGood
<1>6. ASSUME NEW a \in Agents, Finalizes(a) PROVE ProgressInv'
  <2>0. /\ UNCHANGED <<starts, sup, reason, read, guard>>
        /\ a \in grading /\ finalized' = finalized + 1
        /\ changedAt' = IF sup = "progress" THEN read ELSE starts
    BY <1>6 DEF Finalizes, runtime, audit, supervisor
  <2>1. ChangesKnown'
    BY <1>0, <2>0 DEF ChangesKnown
  <2>2. StoppedForGood'
    BY <2>0 DEF StoppedForGood
  <2>3. guard.signature # <<>> => guard.signature[2] \in Nat /\ guard.signature[2] < finalized'
    BY <1>0, <2>0 DEF SeenIsPast, Signatures
  <2>4. SeenIsPast'
    BY <1>0, <2>0, <2>3 DEF SeenIsPast
  <2>5. ASSUME guard'.signature = Signature' PROVE FALSE
    <3>1. guard.signature = <<grading', finalized'>>
      BY <2>0, <2>5 DEF Signature
    <3>2. guard.signature # <<>> /\ guard.signature[2] = finalized'
      BY <3>1
    <3> QED
      BY <1>0, <2>0, <2>3, <3>2
  <2> QED
    BY <2>1, <2>2, <2>4, <2>5 DEF SeenIsCurrent
<1>7. CASE Killed
  <2>1. /\ UNCHANGED <<starts, grading, finalized, changedAt>>
        /\ sup' = "open" /\ reason' = "none" /\ guard' = NotSeen
    BY <1>7 DEF Killed, Restart, attempts
  <2> QED
    BY <2>1 DEF NotSeen, Signature, ChangesKnown, SeenIsPast, SeenIsCurrent, StoppedForGood
<1>8. CASE UNCHANGED vars
  BY <1>8 DEF vars, runtime, audit, supervisor, attempts, Signature,
              ChangesKnown, SeenIsPast, SeenIsCurrent, StoppedForGood
<1> QED
  BY <1>1, <1>2, <1>3, <1>4, <1>5, <1>6, <1>7, <1>8 DEF Next, Loop, Shutdown

\* A run that is given up for want of submissions has none pending, and as many
\* sessions have started since an attempt was last admitted or finalized as the
\* guard allows, whatever the grader finalizes between its two reads.
THEOREM StopsOnlyWhenStalled == Spec => []OnlyStalledRunsStop
<1>1. ProgressInv => OnlyStalledRunsStop
  BY DEF ProgressInv, StoppedForGood, OnlyStalledRunsStop
<1> QED
  BY <1>1, InitTypeInv, NextTypeInv, InitProgressInv, NextProgressInv, PTL DEF Spec

=============================================================================
