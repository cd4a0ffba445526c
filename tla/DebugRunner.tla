---------------------------- MODULE DebugRunner -----------------------------
(***************************************************************************)
(* Unscored debug executions: DebugRunner (trusted_eval_infra/agent/       *)
(* debug.py), the branch of drain_eval_requests that calls it, and the     *)
(* shim's `coral debug'.  The host takes one request at a time, a pool of  *)
(* one worker executes it, and the record files survive a crash of the     *)
(* host where the table of futures does not.                               *)
(***************************************************************************)
EXTENDS Naturals, FiniteSets

CONSTANTS
  DebugNonces, \* requests; each has a nonce of its own
  Valid,       \* those that pass _validate_request
  MaxRuns,     \* MAX_DEBUG_RUNS
  MaxCrashes,  \* bound on crashes of the host (the model's)
  NoDebugNonce

ASSUME DebugAssumption ==
  /\ Valid \subseteq DebugNonces /\ IsFiniteSet(DebugNonces)
  /\ NoDebugNonce \notin DebugNonces
  /\ MaxRuns \in Nat /\ MaxCrashes \in Nat

VARIABLES
  shim,        \* per request: idle, waiting, answered
  debugInbox,  \* requests in the inbox
  record,      \* private/debug/<nonce>.json: none, running, completed
  response,    \* public/request_status/<nonce>.json
  future,      \* per request: none, queued, running, done, failed, cancelled
  pending,     \* requests in the table of futures
  host,        \* where the host is
  current,     \* the request it handles
  crashes

files == <<debugInbox, record, response>>
debugVars == <<shim, files, future, pending, host, current, crashes>>

DebugInit ==
  /\ shim = [n \in DebugNonces |-> "idle"]
  /\ debugInbox = {}
  /\ record = [n \in DebugNonces |-> "none"]
  /\ response = [n \in DebugNonces |-> "none"]
  /\ future = [n \in DebugNonces |-> "none"]
  /\ pending = {}
  /\ host = "loop"
  /\ current = NoDebugNonce
  /\ crashes = 0

Recorded == {n \in DebugNonces : record[n] # "none"}
Finished(n) == future[n] \in {"done", "failed", "cancelled"}
Executing == {n \in DebugNonces : future[n] = "running"}

-----------------------------------------------------------------------------
(* The shim.                                                               *)

Ask(n) ==
  /\ shim[n] = "idle"
  /\ shim' = [shim EXCEPT ![n] = "waiting"]
  /\ debugInbox' = debugInbox \cup {n}
  /\ UNCHANGED <<record, response, future, pending, host, current, crashes>>

\* It waits for a response that does not say running.
ReadAnswer(n) ==
  /\ shim[n] = "waiting"
  /\ response[n] \in {"rejected", "completed"}
  /\ shim' = [shim EXCEPT ![n] = "answered"]
  /\ UNCHANGED <<files, future, pending, host, current, crashes>>

-----------------------------------------------------------------------------
(* The host: DebugRunner.poll.                                             *)

\* Mutant: an exception of the execution is not caught.
CollectSuccessOnly(n, next) ==
  /\ n \in pending /\ future[n] = "done"
  /\ record' = [record EXCEPT ![n] = "completed"]
  /\ current' = n
  /\ host' = next
  /\ UNCHANGED <<shim, debugInbox, response, future, pending, crashes>>

\* A future that is done, failed or cancelled completes the trusted record.
Collect(n, next) ==
  /\ n \in pending /\ Finished(n)
  /\ record' = [record EXCEPT ![n] = "completed"]
  /\ current' = n
  /\ host' = next
  /\ UNCHANGED <<shim, debugInbox, response, future, pending, crashes>>

\* Then the agent may read the result.
Publish(next) ==
  /\ response' = [response EXCEPT ![current] = "completed"]
  /\ pending' = pending \ {current}
  /\ current' = NoDebugNonce
  /\ host' = next
  /\ UNCHANGED <<shim, debugInbox, record, future, crashes>>

Poll == \/ host = "loop" /\ (\E n \in DebugNonces : Collect(n, "publish"))
        \/ host = "publish" /\ Publish("loop")

-----------------------------------------------------------------------------
(* The host: DebugRunner.submit, which polls first, in the broker's drain. *)

\* Requests out of form or out of turn are refused, and those over the quota.
Allowed(n) == n \in Valid /\ pending = {} /\ Cardinality(Recorded) < MaxRuns

\* Mutant: only executions of this process count for the quota.
AdmitThisLife(n) ==
  /\ host = "loop" /\ n \in debugInbox
  /\ \A p \in pending : ~Finished(p)
  /\ IF /\ n \in Valid /\ pending = {}
        /\ Cardinality({p \in DebugNonces : Finished(p)}) < MaxRuns
     THEN record' = [record EXCEPT ![n] = "running"] /\ host' = "queue"
     ELSE UNCHANGED record /\ host' = "reject"
  /\ current' = n
  /\ UNCHANGED <<shim, debugInbox, response, future, pending, crashes>>

\* The trusted record is written before anything runs.
Admit(n) ==
  /\ host = "loop" /\ n \in debugInbox
  /\ \A p \in pending : ~Finished(p)
  /\ IF Allowed(n)
     THEN record' = [record EXCEPT ![n] = "running"] /\ host' = "queue"
     ELSE UNCHANGED record /\ host' = "reject"
  /\ current' = n
  /\ UNCHANGED <<shim, debugInbox, response, future, pending, crashes>>

Queue ==
  /\ host = "queue"
  /\ future' = [future EXCEPT ![current] = "queued"]
  /\ pending' = pending \cup {current}
  /\ host' = "accept"
  /\ UNCHANGED <<shim, files, current, crashes>>

Respond ==
  /\ host \in {"accept", "reject"}
  /\ response' = [response EXCEPT ![current] =
                    IF host = "accept" THEN "running" ELSE "rejected"]
  /\ host' = "unlink"
  /\ UNCHANGED <<shim, debugInbox, record, future, pending, current, crashes>>

\* After the line of the audit log the broker removes the request.
UnlinkRequest ==
  /\ host = "unlink"
  /\ debugInbox' = debugInbox \ {current}
  /\ current' = NoDebugNonce
  /\ host' = "loop"
  /\ UNCHANGED <<shim, record, response, future, pending, crashes>>

Submit == (\E n \in DebugNonces : Admit(n)) \/ Queue \/ Respond \/ UnlinkRequest

-----------------------------------------------------------------------------
(* The worker of the pool.                                                 *)

Execute(n) ==
  /\ future[n] = "queued" /\ Executing = {}
  /\ future' = [future EXCEPT ![n] = "running"]
  /\ UNCHANGED <<shim, files, pending, host, current, crashes>>

\* With the output of the program, whatever it did, or with an exception of
\* the infrastructure.
ExecutionEnds(n) ==
  /\ future[n] = "running"
  /\ \E f \in {"done", "failed"} : future' = [future EXCEPT ![n] = f]
  /\ UNCHANGED <<shim, files, pending, host, current, crashes>>

-----------------------------------------------------------------------------
(* The host: DebugRunner.close when the run ends, and crashes.             *)

\* shutdown cancels what has not started.
Close ==
  /\ host = "loop"
  /\ future' = [n \in DebugNonces |->
                  IF future[n] = "queued" THEN "cancelled" ELSE future[n]]
  /\ host' = "closing"
  /\ UNCHANGED <<shim, files, pending, current, crashes>>

\* It waits for what has, polls once more, and is done.
CloseEnds ==
  /\ host = "closing" /\ Executing = {} /\ pending = {}
  /\ host' = "closed"
  /\ UNCHANGED <<shim, files, future, pending, current, crashes>>

Closing == \/ host = "closing" /\ Executing = {}
                /\ (\E n \in DebugNonces : Collect(n, "last"))
           \/ host = "last" /\ Publish("closing")
           \/ CloseEnds

\* The host process dies and is resumed, at once, with empty tables; files
\* and requests stay.
CrashHost ==
  /\ crashes < MaxCrashes
  /\ crashes' = crashes + 1
  /\ future' = [n \in DebugNonces |-> "none"]
  /\ pending' = {}
  /\ current' = NoDebugNonce
  /\ host' = "loop"
  /\ UNCHANGED <<shim, files>>

DebugHost == Poll \/ Submit \/ Closing

DebugNext ==
  \/ \E n \in DebugNonces :
       Ask(n) \/ ReadAnswer(n) \/ Execute(n) \/ ExecutionEnds(n)
  \/ DebugHost \/ Close \/ CrashHost

DebugSpec == DebugInit /\ [][DebugNext]_debugVars

\* The host's loop and the worker run; agents and crashes need not.
FairDebugSpec ==
  /\ DebugSpec
  /\ WF_debugVars(Poll) /\ WF_debugVars(Submit) /\ WF_debugVars(Closing)
  /\ \A n \in DebugNonces :
       WF_debugVars(Execute(n)) /\ WF_debugVars(ExecutionEnds(n))

-----------------------------------------------------------------------------
\* Types; a closed host has collected everything.
DebugTypeOK ==
  /\ shim \in [DebugNonces -> {"idle", "waiting", "answered"}]
  /\ debugInbox \subseteq DebugNonces /\ pending \subseteq DebugNonces
  /\ record \in [DebugNonces -> {"none", "running", "completed"}]
  /\ response \in [DebugNonces -> {"none", "running", "rejected", "completed"}]
  /\ future \in [DebugNonces -> {"none", "queued", "running", "done",
                                 "failed", "cancelled"}]
  /\ host \in {"loop", "publish", "queue", "accept", "reject", "unlink",
               "closing", "last", "closed"}
  /\ current \in DebugNonces \cup {NoDebugNonce}
  /\ (current = NoDebugNonce) <=> (host \in {"loop", "closing", "closed"})
  /\ host = "closed" => pending = {} /\ Executing = {}

\* The quota outlives the process: a task never has more admitted requests
\* than it may, whatever crashes and repeats (trusted_eval_infra/README.md 339-340).
QuotaRespected == Cardinality(Recorded) <= MaxRuns

\* close() leaves no admitted request without its result, also one it had
\* to cancel.
CloseAnswers ==
  host = "closed" /\ crashes = 0 => \A n \in Recorded : response[n] = "completed"

\* "Debug result is still pending" (submit.py 140): as long as the host's
\* loop runs, a response that says running belongs to an execution it will
\* collect, or to a request it will take up again.
RunningIsPending ==
  host = "loop" =>
    \A n \in DebugNonces :
      response[n] = "running" => n \in pending \cup debugInbox

\* A request gets its answer, also when its execution raises, unless the run
\* ends before the host takes it up or a crash takes the table of futures
\* with it (RunningIsPending).
RequestsAnswered ==
  \A n \in DebugNonces : shim[n] = "waiting" ~>
    (response[n] \in {"rejected", "completed"} \/ host = "closed" \/ crashes > 0)

=============================================================================
