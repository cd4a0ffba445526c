------------------------------- MODULE AgentRun -------------------------------
(***************************************************************************)
(* The supervisor of a CORAL run (run_coral_until_done,                    *)
(* test_time_self_evolution/coral/runner.py) with what it looks after:     *)
(* CORAL's manager, sessions and docker objects (AgentRuntime), and the    *)
(* attempts that agents ask for and the grader finalizes.  The supervisor  *)
(* gives the run up for one of five reasons, or for an exception, and then *)
(* takes it down, in a fixed order and whatever parts of it have died.  An *)
(* exception before the loop or on the way down leaves the rest of it      *)
(* undone.  The supervisor may be killed, with CORAL, by the service both  *)
(* run in, and is resumed at once.                                         *)
(*                                                                         *)
(* What the broker does with a request is the subject of EvalBroker, what  *)
(* the debug host does that of DebugRunner, and when the manager restarts  *)
(* an agent that of PendingMonitor.                                        *)
(***************************************************************************)
EXTENDS AgentRuntime

CONSTANTS
  MaxAttempts,  \* the run's attempts
  MaxRestarts,  \* _SubmissionProgressGuard.max_restarts
  MaxKills      \* bound on kills of the service (the model's)

ASSUME RunAssumption ==
  MaxAttempts \in Nat /\ MaxRestarts \in Nat \ {0} /\ MaxKills \in Nat

VARIABLES
  sup,        \* where the supervisor is
  reason,     \* stop_reason
  read,       \* runtime_starts as the progress guard has read it
  guard,      \* its signature of the attempts, and runtime_baseline
  asked,      \* agents with an evaluation request in the inbox
  grading,    \* agents with a pending attempt
  finalized,  \* number of attempts that are not pending
  changedAt,  \* sessions started when the attempts last changed
  outcome,    \* how the supervisor's call ends: none, returned, raised, or
              \* aborted, raised by what it does before or after the loop
  kills

attempts == <<asked, grading, finalized, changedAt>>
supervisor == <<sup, reason, read, guard, outcome>>
vars == <<runtime, supervisor, attempts, kills>>

NotSeen == [signature |-> <<>>, baseline |-> 0]

Init ==
  /\ RuntimeInit
  /\ sup = "open" /\ reason = "none" /\ outcome = "none"
  /\ read = 0 /\ guard = NotSeen
  /\ asked = {} /\ grading = {} /\ finalized = 0 /\ changedAt = 0
  /\ kills = 0

At(place, next) == sup = place /\ sup' = next

GivesUp(why) == reason' = why /\ sup' = "mark"

\* An exception that nobody catches; a file or a command of the host that
\* fails counts with docker's.
Aborts == sup' = "done" /\ outcome' = "aborted"

-----------------------------------------------------------------------------
(* The supervisor's loop.                                                  *)

\* CORAL has been started; the debug host opens its directory.
Open ==
  /\ sup = "open"
  /\ \/ sup' = "drain" /\ UNCHANGED <<outcome, faults>>
     \/ Fault /\ Aborts
  /\ UNCHANGED <<manager, alive, docker, audit, reason, read, guard, attempts, kills>>

\* The broker, the debug host, or a look at the workspace or the attempts
\* raises: the reason on record is the one it began with.
LoopRaises ==
  /\ sup \in {"drain", "progress"}
  /\ Fault /\ outcome' = "raised"
  /\ GivesUp("wall_clock_exhausted")
  /\ read' = 0
  /\ UNCHANGED <<manager, alive, docker, audit, guard, attempts, kills>>

\* The broker admits or refuses each request that it lists.
Drain(a) ==
  /\ sup = "drain" /\ a \in asked
  /\ asked' = asked \ {a}
  /\ IF a \notin grading /\ Cardinality(grading) + finalized < MaxAttempts
     THEN grading' = grading \cup {a} /\ changedAt' = starts
     ELSE UNCHANGED <<grading, changedAt>>
  /\ UNCHANGED <<runtime, supervisor, finalized, kills>>

\* The drain is over, the size of the workspace and the attempts are looked
\* at, and the activity is read.
Look ==
  /\ sup = "drain" /\ asked = {}
  /\ \/ GivesUp("workspace_quota_exhausted") /\ UNCHANGED read
     \/ finalized >= MaxAttempts /\ GivesUp("attempt_budget_complete") /\ UNCHANGED read
     \/ /\ finalized < MaxAttempts
        /\ sup' = "progress" /\ read' = starts
        /\ UNCHANGED reason
  /\ UNCHANGED <<runtime, guard, attempts, outcome, kills>>

\* Mutant: an attempt that is finalized is no progress.
SignatureOfCommits == <<Cardinality(grading) + finalized>>

\* Commits with their status; both only ever advance.
Signature == <<grading, finalized>>

\* _SubmissionProgressGuard.exhausted, on attempts read after the activity.
Progress ==
  /\ sup = "progress"
  /\ LET base == IF guard.signature = Signature THEN guard.baseline ELSE read IN
       /\ guard' = [signature |-> Signature, baseline |-> base]
       /\ IF grading = {} /\ read - base >= MaxRestarts
          THEN GivesUp("agent_no_submission_progress")
          ELSE sup' = "poll" /\ UNCHANGED reason
  /\ read' = 0
  /\ UNCHANGED <<runtime, attempts, outcome, kills>>

\* CORAL has exited, or the next round begins.
PollCoral ==
  /\ sup = "poll"
  /\ IF coral = "running" THEN sup' = "drain" /\ UNCHANGED reason
                          ELSE GivesUp("coral_process_exit")
  /\ UNCHANGED <<runtime, read, guard, attempts, outcome, kills>>

\* It does not begin after the deadline.
TimeUp ==
  /\ sup = "poll" /\ coral = "running"
  /\ GivesUp("wall_clock_exhausted")
  /\ UNCHANGED <<runtime, read, guard, attempts, outcome, kills>>

Loop == \/ Open \/ (\E a \in Agents : Drain(a)) \/ LoopRaises
        \/ Look \/ Progress \/ PollCoral

-----------------------------------------------------------------------------
(* The end of the run.                                                     *)

\* The attempts are read and termination.json is written.
Mark ==
  /\ \/ At("mark", "close") /\ UNCHANGED <<outcome, faults>>
     \/ sup = "mark" /\ Fault /\ Aborts
  /\ UNCHANGED <<manager, alive, docker, audit, reason, read, guard, attempts, kills>>

\* The debug host is closed, which takes as long as the execution that it runs.
\* Its last poll raises what the one in the loop has raised.
Close ==
  /\ \/ At("close", "stop") /\ UNCHANGED <<outcome, faults>>
     \/ /\ sup = "close" /\ Aborts
        /\ \/ Fault
           \/ outcome = "raised" /\ UNCHANGED faults
  /\ UNCHANGED <<manager, alive, docker, audit, reason, read, guard, attempts, kills>>

\* Mutant: the supervisor waits for CORAL without a limit.
StopPolitely ==
  /\ sup = "stop" /\ coral # "running"
  /\ sup' = "audit"
  /\ UNCHANGED <<runtime, reason, read, guard, attempts, outcome, kills>>

\* CORAL is asked to stop, and may; 20 s later it is killed, and its sessions,
\* which are not in its group, run on.  One that takes 10 s to die of that
\* raises.
Stop ==
  /\ sup = "stop"
  /\ coral' = IF coral = "running" THEN "killed" ELSE coral
  /\ Forgets
  /\ \/ sup' = "audit" /\ UNCHANGED <<outcome, faults>>
     \/ coral = "running" /\ Fault /\ Aborts
  /\ UNCHANGED <<alive, docker, audit, reason, read, guard, attempts, kills>>

\* Activity without a policy record, or none at all of a CORAL that says it
\* did well, is an error; so is a CORAL that failed by itself.
Accounted == IF starts > 0 THEN policy ELSE coral \in {"failed", "killed"}

FailedItself == reason = "coral_process_exit" /\ coral = "failed"

Outcome ==
  IF outcome = "none" /\ Accounted /\ ~FailedItself THEN "returned" ELSE "raised"

\* Mutant: what the audit raises skips the cleanup.
AuditUnguarded ==
  /\ sup = "audit"
  /\ outcome' = Outcome
  /\ sup' = IF Accounted THEN "rm agents" ELSE "done"
  /\ UNCHANGED <<runtime, reason, read, guard, attempts, kills>>

Audit ==
  /\ At("audit", "rm agents")
  /\ outcome' = Outcome
  /\ UNCHANGED <<runtime, reason, read, guard, attempts, kills>>

\* cleanup_secure_runtime, whose commands fail without an exception.  Nothing
\* limits the time they take; they are assumed to return.
Cleanup ==
  /\ \/ At("rm agents", "rm egress") /\ Remove("agents")
     \/ At("rm egress", "rm model") /\ Remove("egress")
     \/ At("rm model", "rm network") /\ Remove("model")
     \/ At("rm network", "done") /\ Remove("network")
  /\ UNCHANGED <<manager, starts, policy, reason, read, guard, attempts, outcome, kills>>

Shutdown == Mark \/ Close \/ Stop \/ Audit \/ Cleanup

-----------------------------------------------------------------------------
(* The rest of the run.                                                    *)

Manager ==
  /\ \/ \E a \in Agents : Start(a) /\ (session[a] # 0 => a \notin grading)
     \/ Manage \/ Leaves
  /\ UNCHANGED <<supervisor, attempts, kills>>

\* A session, also a forgotten one, asks for an evaluation.  What arrives
\* during a drain is listed by the next one, as if it had arrived after it.
Asks(a) ==
  /\ Of(a) # {} /\ sup # "drain" /\ asked' = asked \cup {a}
  /\ UNCHANGED <<runtime, supervisor, grading, finalized, changedAt, kills>>

\* The grader, a child of CORAL.  What it finalizes between the two reads of
\* the guard counts from the first.
Finalizes(a) ==
  /\ coral = "running" /\ a \in grading
  /\ grading' = grading \ {a} /\ finalized' = finalized + 1
  /\ changedAt' = IF sup = "progress" THEN read ELSE starts
  /\ UNCHANGED <<runtime, supervisor, asked, kills>>

\* The service is stopped, and started with the run to be resumed.
Killed ==
  /\ sup # "done" /\ kills < MaxKills
  /\ kills' = kills + 1
  /\ Restart
  /\ sup' = "open" /\ reason' = "none" /\ outcome' = "none"
  /\ read' = 0 /\ guard' = NotSeen
  /\ UNCHANGED attempts

Next ==
  \/ Loop \/ TimeUp \/ Shutdown \/ Manager
  \/ \E a \in Agents : Asks(a) \/ Finalizes(a)
  \/ Killed

Spec == Init /\ [][Next]_vars

\* The supervisor runs, and time passes; CORAL, its grader and the agents need
\* not do anything.
FairSpec == Spec /\ WF_vars(Loop \/ Shutdown) /\ SF_vars(TimeUp)

-----------------------------------------------------------------------------
TypeOK ==
  /\ RuntimeTypeOK
  /\ sup \in {"open", "drain", "progress", "poll", "mark", "close", "stop", "audit",
              "rm agents", "rm egress", "rm model", "rm network", "done"}
  /\ reason \in {"none", "wall_clock_exhausted", "workspace_quota_exhausted",
                 "attempt_budget_complete", "agent_no_submission_progress",
                 "coral_process_exit"}
  /\ read \in Nat
  /\ asked \subseteq Agents /\ grading \subseteq Agents
  /\ finalized \in Nat /\ changedAt \in Nat
  /\ outcome \in {"none", "returned", "raised", "aborted"}

NothingRuns ==
  coral # "running" /\ alive = {} /\ \A o \in Objects : docker[o] = "none"

\* A supervisor that has got to its end, by whatever reason it gave the run up,
\* whatever it and those it resumed had raised, lost or left, has left no CORAL,
\* session, container, proxy or network, unless docker failed to remove one of
\* them just then.  What is raised before the loop, and on the way down before
\* the audit, takes the audit and the cleanup with it.
RunLeavesNothing ==
  sup = "done" /\ outcome # "aborted" /\ kept = {} => NothingRuns

\* The stronger claim, of those too: the loop is followed by a finally clause,
\* but within it only the audit is guarded (runner.py 760-771, 788).
EveryEndLeavesNothing == sup = "done" /\ kept = {} => NothingRuns

\* A run is only given up for want of submissions (trusted_eval_infra/README.md 574-576,
\* "pending evaluations are exempt") when as many sessions have been started
\* since an attempt was last admitted or finalized, and none is pending.
OnlyStalledRunsStop ==
  reason = "agent_no_submission_progress" =>
    grading = {} /\ starts - changedAt >= MaxRestarts

\* The supervisor ends, although CORAL may hang and agents may go on asking.
RunEnds == <>(sup = "done")

=============================================================================
