------------------------------ MODULE WlsSlots ------------------------------
(***************************************************************************)
(* The license slots that candidates with a WLS license wait for:          *)
(* _wls_execution_slot (trusted_eval_infra/execution.py) and the admission *)
(* arithmetic of wls_gate.py.  Host processes share a lock file per slot,  *)
(* an admission lock, and nothing else; the license server counts the      *)
(* environments (candidate containers) whose tokens have not expired, and  *)
(* shows a new one only after a while.                                     *)
(*                                                                         *)
(* Time passes in Tick.  Deadlines and expiry times are kept as the time   *)
(* that is left, so a stamp file that holds a past time has left = 0.      *)
(* Every call is one process of the model, with a host name of its own.    *)
(***************************************************************************)
EXTENDS Naturals, FiniteSets

CONSTANTS
  Procs,        \* calls of _wls_execution_slot
  Named,        \* those that run docker, and so give their host name
  Concurrency,  \* wls_concurrency
  Gatings,      \* the sets of calls that may be configured with the gate
  Limit,        \* maxContainers of the license
  Foreign,      \* environments of clients that do not use these locks
  TimeLimit,    \* longest execution of a candidate
  Slack,        \* the 120 s that _wls_max_execution_seconds adds to it
  ReleaseDelay, \* release_delay, at least 310 s with the gate
  TokenLife,    \* how long a token outlives its candidate, at most
  QueueTimeout, \* wls_queue_timeout_seconds
  MaxCpuWait,   \* longest wait for a CPU lease under the slot
  MaxLost,      \* bound on calls that lose their candidate (the model's)
  NoProc

ASSUME SlotAssumption ==
  /\ Named \subseteq Procs /\ IsFiniteSet(Procs) /\ NoProc \notin Procs
  /\ Concurrency \in Nat \ {0} /\ Gatings \subseteq SUBSET Procs
  /\ {Limit, Foreign, TimeLimit, Slack, ReleaseDelay, TokenLife,
      QueueTimeout, MaxCpuWait, MaxLost} \subseteq Nat

Slots == 0 .. Concurrency - 1

VARIABLES
  gated,      \* calls with wls_backend_gate; fixed from the start
  slotLock,   \* per slot: who has the flock of slot-<i>.lock
  stamp,      \* per slot: what the file says
  identity,   \* per slot: host name in slot-<i>.identity.json
  admission,  \* who has the flock of admission.lock
  place,      \* per call: where it is
  idx,        \* per call: slot at hand
  other,      \* per call: slots it has still to look at
  host,       \* per call: host name read for the one it looks at
  rsv,        \* per call: reservation_hosts, with the slot of each
  timer,      \* per call: time left of what it does: to queue_deadline, to
              \* the end of its wait for CPUs, of the execution, and then the
              \* life left to the token of the ended candidate
  owed,       \* history, per call: how long its slot has still to be kept,
              \* by the time it reserved before the execution or left after it
  cand,       \* per call: its candidate
  visible,    \* calls whose environment the server shows
  lost        \* calls that were killed or could not remove their candidate

slotVars == <<slotLock, stamp, identity, admission>>
procVars == <<place, idx, other, host, rsv, timer, owed>>
candVars == <<cand, visible>>
otherVars == <<lost, gated>>
wlsVars == <<slotVars, procVars, candVars, otherVars>>

-----------------------------------------------------------------------------
(* Values.                                                                 *)

\* A stamp is an expiry time that is never written twice; `by' tells apart
\* the one an admission wrote, which the identity file repeats.
Empty == [left |-> 0, by |-> NoProc]
MaxExecution == TimeLimit + Slack
Reservation(p) == [left |-> MaxExecution + ReleaseDelay, by |-> p]

\* What a finished execution leaves in the file.
Cooldown == [left |-> ReleaseDelay, by |-> NoProc]
Stamp == [left : 0 .. MaxExecution + ReleaseDelay, by : Procs \cup {NoProc}]

Place == {"idle", "head", "try", "check", "unlock", "mutex", "probe",
       "flock", "reread", "query", "refused", "truncate", "write", "identity", "cpu", "run",
       "exitTruncate", "exitWrite", "exit", "done", "failed", "dead"}

\* Calls with an environment that uses the license: the candidate runs, or
\* its token has not expired.
Live == {p \in Procs : \/ cand[p] = "running"
                         \/ /\ cand[p] = "ended"
                            /\ timer[p] > 0}
Shown == Live \cap visible

WlsInit ==
  /\ gated \in Gatings
  /\ slotLock = [i \in Slots |-> NoProc]
  /\ stamp = [i \in Slots |-> Empty]
  /\ identity = [i \in Slots |-> NoProc]
  /\ admission = NoProc
  /\ place = [p \in Procs |-> "idle"]
  /\ idx = [p \in Procs |-> 0]
  /\ other = [p \in Procs |-> {}]
  /\ host = [p \in Procs |-> NoProc]
  /\ rsv = [p \in Procs |-> {}]
  /\ timer = [p \in Procs |-> 0]
  /\ owed = [p \in Procs |-> 0]
  /\ cand = [p \in Procs |-> "none"]
  /\ visible = {}
  /\ lost = {}

\* Go on; the wait for CPUs starts a new time limit.
Goto(p, label) ==
  /\ place' = [place EXCEPT ![p] = label]
  /\ timer' = IF label = "cpu" THEN [timer EXCEPT ![p] = MaxCpuWait] ELSE timer

-----------------------------------------------------------------------------
(* The queue: one pass over the slots, then a short sleep.                 *)

Enter(p) ==
  /\ place[p] = "idle"
  /\ place' = [place EXCEPT ![p] = "head"]
  /\ timer' = [timer EXCEPT ![p] = QueueTimeout]
  /\ UNCHANGED <<slotVars, idx, other, host, rsv, owed, candVars, otherVars>>

\* Mutant: the deadline is not looked at.
HeadIgnoringDeadline(p) ==
  /\ place[p] = "head"
  /\ Goto(p, "try")
  /\ idx' = [idx EXCEPT ![p] = 0]
  /\ UNCHANGED <<slotVars, other, host, rsv, owed, candVars, otherVars>>

\* The deadline is looked at between passes only.
Head(p) ==
  /\ place[p] = "head"
  /\ Goto(p, IF timer[p] = 0 THEN "failed" ELSE "try")
  /\ idx' = [idx EXCEPT ![p] = 0]
  /\ UNCHANGED <<slotVars, other, host, rsv, owed, candVars, otherVars>>

TrySlot(p) ==
  /\ place[p] = "try"
  /\ \/ /\ idx[p] = Concurrency
        /\ Goto(p, "head")
        /\ UNCHANGED <<idx, slotLock>>
     \/ /\ idx[p] < Concurrency
        /\ slotLock[idx[p]] # NoProc
        /\ idx' = [idx EXCEPT ![p] = @ + 1]
        /\ UNCHANGED <<place, timer, slotLock>>
     \/ /\ idx[p] < Concurrency
        /\ slotLock[idx[p]] = NoProc
        /\ slotLock' = [slotLock EXCEPT ![idx[p]] = p]
        /\ Goto(p, "check")
        /\ UNCHANGED idx
  /\ UNCHANGED <<stamp, identity, admission, other, host, rsv, owed, candVars,
                 otherVars>>

\* Mutant: the time in the slot file is not looked at.
CheckStampBlind(p) ==
  /\ place[p] = "check"
  /\ Goto(p, IF p \in gated THEN "mutex"
             ELSE IF ReleaseDelay > 0 THEN "truncate" ELSE "cpu")
  /\ UNCHANGED <<slotVars, idx, other, host, rsv, owed, candVars, otherVars>>

\* A slot whose file holds a later time is still reserved for tokens of an
\* earlier candidate.
CheckStamp(p) ==
  /\ place[p] = "check"
  /\ Goto(p, IF stamp[idx[p]].left > 0 THEN "unlock"
             ELSE IF p \in gated THEN "mutex"
             ELSE IF ReleaseDelay > 0 THEN "truncate" ELSE "cpu")
  /\ UNCHANGED <<slotVars, idx, other, host, rsv, owed, candVars, otherVars>>

\* `continue': the finally clause unlocks the slot, then the next one.
Unlock(p) ==
  /\ place[p] = "unlock"
  /\ slotLock' = [slotLock EXCEPT ![idx[p]] = NoProc]
  /\ idx' = [idx EXCEPT ![p] = @ + 1]
  /\ Goto(p, "try")
  /\ UNCHANGED <<stamp, identity, admission, other, host, rsv, owed, candVars,
                 otherVars>>

-----------------------------------------------------------------------------
(* The backend gate.                                                       *)

\* The only blocking lock of the protocol.
LockAdmission(p) ==
  /\ place[p] = "mutex"
  /\ admission = NoProc
  /\ admission' = p
  /\ other' = [other EXCEPT ![p] = Slots \ {idx[p]}]
  /\ rsv' = [rsv EXCEPT ![p] = {}]
  /\ Goto(p, "probe")
  /\ UNCHANGED <<slotLock, stamp, identity, idx, host, owed, candVars, otherVars>>

\* The identity file names the host of the current reservation only if it
\* repeats the time in the slot file.
HostAt(o) == IF identity[o] = stamp[o].by THEN identity[o] ELSE NoProc

Least(o, S) == o \in S /\ \A u \in S : o <= u

\* Read identity and stamp of the next other slot, in the order of their
\* numbers.  The identities are written under the admission lock only.
ReadIdentity(p) ==
  /\ place[p] = "probe"
  /\ \/ \E o \in other[p] :
          /\ Least(o, other[p])
          /\ host' = [host EXCEPT ![p] = HostAt(o)]
          /\ Goto(p, "flock")
     \/ /\ other[p] = {}
        /\ Goto(p, "query")
        /\ UNCHANGED host
  /\ UNCHANGED <<slotVars, idx, other, rsv, owed, candVars, otherVars>>

\* A slot that somebody has locked is reserved.  One that nobody has is locked
\* by the call that looks at it, for others to see.
TryOther(p) ==
  /\ place[p] = "flock"
  /\ \E o \in other[p] :
       /\ Least(o, other[p])
       /\ \/ /\ slotLock[o] # NoProc
             /\ other' = [other EXCEPT ![p] = @ \ {o}]
             /\ rsv' = [rsv EXCEPT ![p] = @ \cup {<<o, host[p]>>}]
             /\ Goto(p, "probe")
             /\ UNCHANGED slotLock
          \/ /\ slotLock[o] = NoProc
             /\ slotLock' = [slotLock EXCEPT ![o] = p]
             /\ Goto(p, "reread")
             /\ UNCHANGED <<other, rsv>>
  /\ UNCHANGED <<stamp, identity, admission, idx, host, owed, candVars, otherVars>>

\* It is reserved, too, if its time has not come; the close unlocks it.
Reread(p) ==
  /\ place[p] = "reread"
  /\ \E o \in other[p] :
       /\ Least(o, other[p])
       /\ slotLock' = [slotLock EXCEPT ![o] = NoProc]
       /\ other' = [other EXCEPT ![p] = @ \ {o}]
       /\ rsv' = IF stamp[o].left > 0
                 THEN [rsv EXCEPT ![p] = @ \cup {<<o, host[p]>>}]
                 ELSE rsv
  /\ Goto(p, "probe")
  /\ UNCHANGED <<stamp, identity, admission, idx, host, owed, candVars, otherVars>>

\* Mutant: a named reservation counts as observed before the server shows it.
UnobservedAnonymous(reservations) ==
  Cardinality({r \in reservations : r[2] = NoProc})

\* unobserved_reservations: a host the server shows accounts for one of them.
Unobserved(reservations) ==
  Cardinality(reservations)
    - Cardinality({h \in Shown \cap Named : \E o \in Slots :
                     <<o, h>> \in reservations})

\* can_admit, on the server's count; a query that fails waits like a refusal.
Query(p) ==
  /\ place[p] = "query"
  /\ LET active == Cardinality(Shown) + Foreign IN
       \/ active + Unobserved(rsv[p]) < Limit /\ Goto(p, "truncate")
       \/ Goto(p, "refused")
  /\ rsv' = [rsv EXCEPT ![p] = {}]
  /\ UNCHANGED <<slotVars, idx, other, host, owed, candVars, otherVars>>

\* After a sleep of 5 s, under both locks.
Refused(p) ==
  /\ place[p] = "refused"
  /\ admission' = NoProc
  /\ Goto(p, "unlock")
  /\ UNCHANGED <<slotLock, stamp, identity, idx, other, host, rsv, owed, candVars,
                 otherVars>>

-----------------------------------------------------------------------------
(* Admission: the reservation is written before anything is started.       *)

Truncate(p) ==
  /\ place[p] = "truncate"
  /\ stamp' = [stamp EXCEPT ![idx[p]] = Empty]
  /\ Goto(p, "write")
  /\ UNCHANGED owed
  /\ UNCHANGED <<slotLock, identity, admission, idx, other, host, rsv, candVars,
                 otherVars>>

\* Mutant: the time the candidate itself may take is left out.
WriteStampWithoutExecution(p) ==
  /\ place[p] = "write"
  /\ stamp' = [stamp EXCEPT ![idx[p]] = [Reservation(p) EXCEPT !.left = ReleaseDelay]]
  /\ Goto(p, IF p \in gated THEN "identity" ELSE "cpu")
  /\ owed' = [owed EXCEPT ![p] = Reservation(p).left]
  /\ UNCHANGED <<slotLock, identity, admission, idx, other, host, rsv, candVars,
                 otherVars>>

WriteStamp(p) ==
  /\ place[p] = "write"
  /\ stamp' = [stamp EXCEPT ![idx[p]] = Reservation(p)]
  /\ Goto(p, IF p \in gated THEN "identity" ELSE "cpu")
  /\ owed' = [owed EXCEPT ![p] = Reservation(p).left]
  /\ UNCHANGED <<slotLock, identity, admission, idx, other, host, rsv, candVars,
                 otherVars>>

WriteIdentity(p) ==
  /\ place[p] = "identity"
  /\ identity' = [identity EXCEPT ![idx[p]] = IF p \in Named THEN p ELSE NoProc]
  /\ admission' = NoProc
  /\ Goto(p, "cpu")
  /\ UNCHANGED <<slotLock, stamp, idx, other, host, rsv, owed, candVars, otherVars>>

-----------------------------------------------------------------------------
(* The execution under the slot: the CPU lease first, then the candidate.  *)

StartCandidate(p) ==
  /\ place[p] = "cpu"
  /\ cand' = [cand EXCEPT ![p] = "running"]
  /\ place' = [place EXCEPT ![p] = "run"]
  /\ timer' = [timer EXCEPT ![p] = TimeLimit]
  /\ UNCHANGED <<slotVars, idx, other, host, rsv, owed, visible, otherVars>>

\* No CPU in time, or no network, volume or container for the candidate.
StartFails(p) ==
  /\ place[p] = "cpu"
  /\ Goto(p, IF ReleaseDelay > 0 THEN "exitTruncate" ELSE "exit")
  /\ UNCHANGED <<slotVars, idx, other, host, rsv, owed, candVars, otherVars>>

\* The candidate ends, or _exec kills it at its limit; its token lives on.
CandidateEnds(p) ==
  /\ cand[p] = "running"
  /\ cand' = [cand EXCEPT ![p] = "ended"]
  /\ timer' = [timer EXCEPT ![p] = TokenLife]
  /\ UNCHANGED <<slotVars, place, idx, other, host, rsv, owed, visible, otherVars>>

\* The server begins to show the environment.
Appear(p) ==
  /\ p \in Live \ visible
  /\ visible' = visible \cup {p}
  /\ UNCHANGED <<slotVars, procVars, cand, otherVars>>

\* The candidate is gone.
ExecutionReturns(p) ==
  /\ place[p] = "run"
  /\ cand[p] # "running"
  /\ Goto(p, IF ReleaseDelay > 0 THEN "exitTruncate" ELSE "exit")
  /\ UNCHANGED <<slotVars, idx, other, host, rsv, owed, candVars, otherVars>>

Lose(p) ==
  /\ lost' = lost \cup {p}
  /\ Cardinality(lost') <= MaxLost
  /\ UNCHANGED gated

\* At the limit it could not be killed, or `docker rm -f' failed; _exec passes
\* over both and returns.
ReturnsAnyway(p) ==
  /\ place[p] = "run"
  /\ cand[p] = "running" /\ timer[p] = 0
  /\ Lose(p)
  /\ Goto(p, IF ReleaseDelay > 0 THEN "exitTruncate" ELSE "exit")
  /\ UNCHANGED <<slotVars, idx, other, host, rsv, owed, candVars>>

ExitTruncate(p) ==
  /\ place[p] = "exitTruncate"
  /\ stamp' = [stamp EXCEPT ![idx[p]] = Empty]
  /\ Goto(p, "exitWrite")
  /\ owed' = [owed EXCEPT ![p] = 0]
  /\ UNCHANGED <<slotLock, identity, admission, idx, other, host, rsv, candVars,
                 otherVars>>

\* Mutant: the file is left empty.
ExitWriteNothing(p) ==
  /\ place[p] = "exitWrite"
  /\ Goto(p, "exit")
  /\ owed' = [owed EXCEPT ![p] = Cooldown.left]
  /\ UNCHANGED <<slotVars, idx, other, host, rsv, candVars, otherVars>>

ExitWrite(p) ==
  /\ place[p] = "exitWrite"
  /\ stamp' = [stamp EXCEPT ![idx[p]] = Cooldown]
  /\ Goto(p, "exit")
  /\ owed' = [owed EXCEPT ![p] = Cooldown.left]
  /\ UNCHANGED <<slotLock, identity, admission, idx, other, host, rsv, candVars,
                 otherVars>>

Exit(p) ==
  /\ place[p] = "exit"
  /\ slotLock' = [slotLock EXCEPT ![idx[p]] = NoProc]
  /\ Goto(p, "done")
  /\ UNCHANGED <<stamp, identity, admission, idx, other, host, rsv, owed, candVars,
                 otherVars>>

\* The grader is killed: the kernel drops its locks and the files stay.  Its
\* candidate lives on, and nobody is left who ends it at its limit.
KillCall(p) ==
  /\ place[p] \notin {"idle", "done", "failed", "dead"}
  /\ Lose(p)
  /\ slotLock' = [i \in Slots |-> IF slotLock[i] = p THEN NoProc ELSE slotLock[i]]
  /\ admission' = IF admission = p THEN NoProc ELSE admission
  /\ Goto(p, "dead")
  /\ UNCHANGED <<stamp, identity, idx, other, host, rsv, owed, candVars>>

-----------------------------------------------------------------------------
(* Time.  Writing a stamp takes none; the wait for CPUs, and an execution   *)
(* whose caller lives, end by their limits.                                *)

Dec(n) == IF n > 0 THEN n - 1 ELSE 0

Tick ==
  /\ \A p \in Procs :
       /\ place[p] \notin {"truncate", "write", "identity",
                        "exitTruncate", "exitWrite"}
       /\ place[p] = "cpu" \/ (place[p] = "run" /\ cand[p] = "running")
            => timer[p] > 0
  /\ stamp' = [i \in Slots |-> [stamp[i] EXCEPT !.left = Dec(@)]]
  /\ timer' = [p \in Procs |-> Dec(timer[p])]
  /\ owed' = [p \in Procs |-> Dec(owed[p])]
  /\ UNCHANGED <<slotLock, identity, admission, place, idx, other, host, rsv, cand,
                 visible, otherVars>>

Queue(p) == \/ Head(p) \/ TrySlot(p) \/ CheckStamp(p) \/ Unlock(p)
            \/ LockAdmission(p) \/ ReadIdentity(p) \/ TryOther(p) \/ Reread(p)
            \/ Query(p) \/ Refused(p)
            \/ Truncate(p) \/ WriteStamp(p) \/ WriteIdentity(p)

Run(p) == \/ StartCandidate(p) \/ StartFails(p)
          \/ ExecutionReturns(p) \/ ReturnsAnyway(p)
          \/ ExitTruncate(p) \/ ExitWrite(p) \/ Exit(p)

WlsNext == \/ \E p \in Procs : \/ Enter(p) \/ Queue(p) \/ Run(p)
                               \/ CandidateEnds(p) \/ Appear(p) \/ KillCall(p)
           \/ Tick

WlsSpec == WlsInit /\ [][WlsNext]_wlsVars

\* A call is a running process, which ends its candidate, and time passes.
FairWlsSpec ==
  /\ WlsSpec
  /\ WF_wlsVars(Tick)
  /\ \A p \in Procs : WF_wlsVars(Queue(p)) /\ WF_wlsVars(Run(p))
                        /\ WF_wlsVars(place[p] = "run" /\ CandidateEnds(p))

-----------------------------------------------------------------------------
(* What the slots owe the license and the calls.                           *)

\* Types of the files, the calls and their candidates.
WlsTypeOK ==
  /\ gated \subseteq Procs
  /\ slotLock \in [Slots -> Procs \cup {NoProc}]
  /\ stamp \in [Slots -> Stamp]
  /\ identity \in [Slots -> Named \cup {NoProc}]
  /\ admission \in Procs \cup {NoProc}
  /\ place \in [Procs -> Place]
  /\ idx \in [Procs -> 0 .. Concurrency]
  /\ other \in [Procs -> SUBSET Slots]
  /\ host \in [Procs -> Named \cup {NoProc}]
  /\ rsv \in [Procs -> SUBSET (Slots \X (Named \cup {NoProc}))]
  /\ timer \in [Procs -> Nat]
  /\ owed \in [Procs -> Nat]
  /\ cand \in [Procs -> {"none", "running", "ended"}]
  /\ visible \subseteq Procs
  /\ lost \subseteq Procs

Reserved(i) == slotLock[i] # NoProc \/ stamp[i].left > 0

\* While no grader is killed and each removes its candidate, the license never
\* carries more environments than it allows, although the server shows each one
\* late and a call decides on what it read before (README.md 447-452, "to cover
\* backend visibility lag").
TokensFitLicense ==
  gated = Procs /\ lost = {} /\ Live # {} => Cardinality(Live) + Foreign <= Limit

\* A candidate that its call lost, and for longer than the call had reserved
\* its slot: no live process enforces its time limit (execution.py 1022-1043).
Outlived(p) == p \in lost /\ cand[p] = "running" /\ owed[p] = 0

\* No two candidates run on one slot, and so no more than wls_concurrency at
\* once, until one of them has outlived what its call reserved.
ConcurrencyRespected ==
  \A p, q \in Procs :
    /\ p # q /\ cand[p] = "running" /\ cand[q] = "running"
    /\ ~ Outlived(p) /\ ~ Outlived(q)
    => idx[p] # idx[q]

\* "a killed grader cannot immediately reuse it" (execution.py 268-269): from
\* the time its call wrote the reservation, before the wait for CPUs, the slot
\* of a candidate that runs stays reserved for the longest execution and the
\* release delay, grader killed or not; and for the release delay after a call
\* that returned without having removed it.
KilledRunsStayReserved ==
  \A p \in Procs : cand[p] = "running" /\ owed[p] > 0 => Reserved(idx[p])

\* The stronger claim, for as long as a candidate is within its time limit: a
\* wait for CPUs may use up what was reserved (cpu_slots.py 10, 86400 s).
RunsWithinLimitStayReserved ==
  \A p \in Procs : cand[p] = "running" /\ timer[p] > 0 => Reserved(idx[p])

\* "Completed executions retain a reservation for at least 310 seconds"
\* (README.md 451): the slot stays reserved until the tokens have expired, if
\* the call saw the candidate end.
CompletedRunsStayReserved ==
  \A p \in Procs :
    cand[p] = "ended" /\ timer[p] > 0 /\ p \notin lost => Reserved(idx[p])

\* Each call is admitted or gives up, whatever the server answers and although
\* admission.lock is waited for without a timeout.
CallsReturn ==
  \A p \in Procs :
    place[p] = "head" ~> place[p] \in {"cpu", "failed", "dead"}

=============================================================================
