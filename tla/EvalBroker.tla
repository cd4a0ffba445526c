----------------------------- MODULE EvalBroker -----------------------------
(***************************************************************************)
(* The evaluation request broker of the CORAL runs, with both of its       *)
(* clients:                                                                *)
(*   - the shim `coral eval` inside every agent container                  *)
(*     (trusted_eval_infra/agent/submit.py), which commits the candidate,  *)
(*     drops a request file in the inbox and polls for the answer;         *)
(*   - the host supervisor (coral/runner.py, run_coral_until_done), whose  *)
(*     loop calls drain_eval_requests (agent/broker.py) once per second;   *)
(*   - the grading daemon of CORAL (not in this repository), which turns a *)
(*     pending attempt into a terminal one.                                *)
(* They share nothing but files.  Every file write of the drain is a step  *)
(* of its own: the supervisor can die after any of them and be resumed,    *)
(* and shims and the grader run between them.                              *)
(***************************************************************************)
EXTENDS Naturals, FiniteSets

CONSTANTS
  Agents,       \* registered agents of the run
  Commits,      \* candidate commits
  Seed,         \* the seed commit, ancestor of every agent branch
  Nonces,       \* uuid4 names of request files; bounds the calls of a run
  Terminal,     \* statuses the grader may give (scored, crashed, timeout, ...)
  MaybeInvalid, \* requests that may be found unreadable or invalid
  MaxAttempts,  \* scored attempts the run may spend
  MaxDrain,     \* MAX_REQUESTS_PER_DRAIN
  MaxResumes,   \* bound on resumed runs (the model's, not the code's)
  NoAgent, NoNonce, NoCommit, NoDecision

ASSUME BrokerAssumption ==
  /\ IsFiniteSet(Commits) /\ Seed \in Commits
  /\ IsFiniteSet(Nonces) /\ MaybeInvalid \subseteq Nonces
  /\ MaxAttempts \in Nat /\ MaxDrain \in Nat \ {0} /\ MaxResumes \in Nat
  /\ NoAgent \notin Agents
  /\ NoNonce \notin Nonces
  /\ NoCommit \notin Commits
  /\ "none" \notin Terminal /\ "pending" \notin Terminal

VARIABLES
  \* files
  status,     \* per commit: "none", or the status in attempts/<commit>.json
  owner,      \* per commit: the agent_id in that file
  creator,    \* per commit: the request that created the file (history only)
  sent,       \* per nonce: the request written under that name, once
  inbox,      \* nonces whose request file is in private/eval_requests/inbox
  responses,  \* per nonce: decision in public/request_status, or NoDecision
  audit,      \* per nonce: the accepted flags appended to eval_requests.jsonl
  archive,    \* per nonce: the accepted flag in eval_requests/archive, if any
  \* git
  head,       \* per agent: HEAD of its branch
  branch,     \* per agent: commits on refs/heads/coral/<agent>
  \* supervisor memory
  phase,      \* what the supervisor is about to do
  batch,      \* rest of the directory listing this drain works through
  cur,        \* request in hand
  decision,   \* its decision
  accepted,   \* accepted_count
  resumes,
  interrupted, \* requests a dead supervisor had half handled (history only)
  \* shims
  pc,         \* per agent: where its `coral eval` is, "idle" if none runs
  want,       \* per agent: commit whose result it waits for
  nonce       \* per agent: its request, NoNonce if it only waits

fileVars == <<status, owner, creator, sent, inbox, responses, audit, archive>>
gitVars == <<head, branch>>
hostVars == <<phase, batch, cur, decision, accepted, resumes, interrupted>>
shimVars == <<pc, want, nonce>>
vars == <<fileVars, gitVars, hostVars, shimVars>>

-----------------------------------------------------------------------------
(* Values.                                                                 *)

Status == {"none", "pending"} \cup Terminal
Request == [agent : Agents, commit : Commits]
NoRequest == [agent |-> NoAgent, commit |-> NoCommit]
Reason == {"accepted", "budget", "submitted", "pending", "invalid"}
Decision == [accepted : BOOLEAN, reason : Reason,
             waiting : Commits \cup {NoCommit}]

\* The supervisor is inside drain_eval_requests, with a request in hand.
Handling == {"decide", "attempt", "respond", "audit", "archive", "unlink"}
Phase == {"idle", "pick", "stopping", "stopped", "down"} \cup Handling

ShimPC == {"idle", "commit", "enqueue", "response", "result"}

ASSUME NoDecisionAssumption == NoDecision \notin Decision

Attempted == {c \in Commits : status[c] # "none"}
Finalized == {c \in Commits : status[c] \in Terminal}
PendingOf(a) == {c \in Commits : status[c] = "pending" /\ owner[c] = a}
Used == {n \in Nonces : sent[n] # NoRequest}
Made == UNION {branch[a] : a \in Agents}

\* Handling the request in hand has left a trace: its attempt, or its answer.
HalfHandled == \/ phase \in {"audit", "archive", "unlink"}
               \/ phase = "respond" /\ decision.accepted

Init ==
  /\ status = [c \in Commits |-> "none"]
  /\ owner = [c \in Commits |-> NoAgent]
  /\ creator = [c \in Commits |-> NoNonce]
  /\ sent = [n \in Nonces |-> NoRequest]
  /\ inbox = {}
  /\ responses = [n \in Nonces |-> NoDecision]
  /\ audit = [n \in Nonces |-> {}]
  /\ archive = [n \in Nonces |-> {}]
  /\ head = [a \in Agents |-> Seed]
  /\ branch = [a \in Agents |-> {Seed}]
  /\ phase = "idle"
  /\ batch = {}
  /\ cur = NoNonce
  /\ decision = NoDecision
  /\ accepted = 0
  /\ resumes = 0
  /\ interrupted = {}
  /\ pc = [a \in Agents |-> "idle"]
  /\ want = [a \in Agents |-> NoCommit]
  /\ nonce = [a \in Agents |-> NoNonce]

-----------------------------------------------------------------------------
(* The shim: _submit, one step per access to a shared file.                *)

\* _submit first looks for a pending attempt of its own agent.  No `coral
\* eval' starts once all of Nonces are used: the bound on a run's length.
SubmitStart(a) ==
  /\ phase # "stopped"
  /\ Used # Nonces
  /\ pc[a] = "idle"
  /\ \/ /\ PendingOf(a) = {}
        /\ pc' = [pc EXCEPT ![a] = "commit"]
        /\ UNCHANGED want
     \/ \E c \in PendingOf(a) :
          /\ want' = [want EXCEPT ![a] = c]
          /\ pc' = [pc EXCEPT ![a] = "result"]
  /\ UNCHANGED <<fileVars, gitVars, hostVars, nonce>>

\* _commit: a new commit if the work tree changed, else HEAD again.  A commit
\* that already has a record is then read, not requested again.
Commit(a) ==
  /\ pc[a] = "commit"
  /\ \/ UNCHANGED gitVars
     \/ \E c \in Commits \ (Made \cup {Seed}) :
          /\ head' = [head EXCEPT ![a] = c]
          /\ branch' = [branch EXCEPT ![a] = @ \cup {c}]
  /\ want' = [want EXCEPT ![a] = head'[a]]
  /\ pc' = [pc EXCEPT ![a] = IF status[head'[a]] # "none"
                             THEN "result" ELSE "enqueue"]
  /\ UNCHANGED <<fileVars, hostVars, nonce>>

\* A fresh name: which one is all the same, no name is preferred anywhere.
FreshNonce == CHOOSE n \in Nonces : n \notin Used

\* os.replace puts the complete request into the inbox under a fresh name.
Enqueue(a) ==
  /\ pc[a] = "enqueue"
  /\ Used # Nonces
  /\ sent' = [sent EXCEPT ![FreshNonce] = [agent |-> a, commit |-> want[a]]]
  /\ inbox' = inbox \cup {FreshNonce}
  /\ nonce' = [nonce EXCEPT ![a] = FreshNonce]
  /\ pc' = [pc EXCEPT ![a] = "response"]
  /\ UNCHANGED <<status, owner, creator, responses, audit, archive,
                 gitVars, hostVars, want>>

-----------------------------------------------------------------------------
(* The shim: _wait_for_result.                                             *)

\* `coral eval` returns, and the agent may call it again.
Leave(a) ==
  /\ pc' = [pc EXCEPT ![a] = "idle"]
  /\ want' = [want EXCEPT ![a] = NoCommit]
  /\ nonce' = [nonce EXCEPT ![a] = NoNonce]
  /\ UNCHANGED <<fileVars, gitVars, hostVars>>

Answer(a) == IF nonce[a] = NoNonce THEN NoDecision ELSE responses[nonce[a]]
Refused(a) == Answer(a) # NoDecision /\ ~Answer(a).accepted

\* Mutant: a refusal is taken for a missing answer.
PollResponseIgnoringRefusal(a) ==
  /\ pc[a] = "response"
  /\ pc' = [pc EXCEPT ![a] = "result"]
  /\ UNCHANGED <<fileVars, gitVars, hostVars, want, nonce>>

\* Look at the admission answer.  A refusal that names a pending attempt
\* redirects the wait, and one for a commit already submitted is no refusal.
PollResponse(a) ==
  /\ pc[a] = "response"
  /\ \/ /\ Refused(a)
        /\ Answer(a).waiting # NoCommit
        /\ want' = [want EXCEPT ![a] = Answer(a).waiting]
        /\ nonce' = [nonce EXCEPT ![a] = NoNonce]
        /\ pc' = [pc EXCEPT ![a] = "result"]
        /\ UNCHANGED <<fileVars, gitVars, hostVars>>
     \/ /\ Refused(a)
        /\ Answer(a).waiting = NoCommit
        /\ Answer(a).reason # "submitted"
        /\ Leave(a)
     \/ /\ Refused(a) => /\ Answer(a).waiting = NoCommit
                         /\ Answer(a).reason = "submitted"
        /\ pc' = [pc EXCEPT ![a] = "result"]
        /\ UNCHANGED <<fileVars, gitVars, hostVars, want, nonce>>

\* Look at the attempt's record; without a result, poll again.
PollResult(a) ==
  /\ pc[a] = "result"
  /\ \/ /\ status[want[a]] \in Terminal
        /\ Leave(a)
     \/ /\ status[want[a]] \notin Terminal
        /\ pc' = [pc EXCEPT ![a] = "response"]
        /\ UNCHANGED <<fileVars, gitVars, hostVars, want, nonce>>

\* --no-wait, or the polling deadline: the evaluation is reported pending.
GiveUp(a) ==
  /\ pc[a] = "result"
  /\ status[want[a]] \notin Terminal
  /\ Leave(a)

\* The agent's container is stopped or restarted under the shim.
Kill(a) ==
  /\ pc[a] # "idle"
  /\ Leave(a)

Shim(a) == \/ SubmitStart(a) \/ Commit(a) \/ Enqueue(a)
           \/ PollResponse(a) \/ PollResult(a) \/ GiveUp(a) \/ Kill(a)

-----------------------------------------------------------------------------
(* The grading daemon publishes the outcome of a pending attempt.          *)

Grade(c) ==
  /\ phase # "stopped"
  /\ status[c] = "pending"
  /\ \E s \in Terminal : status' = [status EXCEPT ![c] = s]
  /\ UNCHANGED <<owner, creator, sent, inbox, responses, audit, archive,
                 gitVars, hostVars, shimVars>>

-----------------------------------------------------------------------------
(* The supervisor: drain_eval_requests.                                    *)

DiskUnchanged == UNCHANGED <<fileVars, gitVars, shimVars, resumes, interrupted>>

\* accepted_count and the directory listing are taken once per drain; uuid4
\* names are in no particular order, so a full inbox yields any MaxDrain.
DrainStart ==
  /\ phase = "idle"
  /\ accepted' = Cardinality(Attempted)
  /\ \/ Cardinality(inbox) <= MaxDrain /\ batch' = inbox
     \/ /\ Cardinality(inbox) > MaxDrain
        /\ \E S \in SUBSET inbox : Cardinality(S) = MaxDrain /\ batch' = S
  /\ phase' = "pick"
  /\ DiskUnchanged
  /\ UNCHANGED <<cur, decision>>

PickRequest ==
  /\ phase = "pick"
  /\ \E n \in batch :
       /\ cur' = n
       /\ batch' = batch \ {n}
  /\ phase' = "decide"
  /\ DiskUnchanged
  /\ UNCHANGED <<decision, accepted>>

Refuse(reason, waiting) ==
  /\ decision' = [accepted |-> FALSE, reason |-> reason, waiting |-> waiting]
  /\ phase' = "respond"

Accept ==
  /\ decision' = [accepted |-> TRUE, reason |-> "accepted",
                  waiting |-> NoCommit]
  /\ phase' = "attempt"

\* Mutant: whether the commit has a record already is not looked at.
DecideResubmitting ==
  /\ phase = "decide"
  /\ LET r == sent[cur] IN
       \/ cur \in MaybeInvalid /\ Refuse("invalid", NoCommit)
       \/ accepted >= MaxAttempts /\ Refuse("budget", NoCommit)
       \/ /\ accepted < MaxAttempts
          /\ \E c \in PendingOf(r.agent) : Refuse("pending", c)
       \/ /\ accepted < MaxAttempts
          /\ PendingOf(r.agent) = {}
          /\ Accept
  /\ DiskUnchanged
  /\ UNCHANGED <<batch, cur, accepted>>

\* Mutant: the pending attempt a refusal names may be another agent's.
DecideIgnoringOwner ==
  /\ phase = "decide"
  /\ LET r == sent[cur]
         open == {c \in Commits : status[c] = "pending"} IN
       \/ cur \in MaybeInvalid /\ Refuse("invalid", NoCommit)
       \/ accepted >= MaxAttempts /\ Refuse("budget", NoCommit)
       \/ /\ accepted < MaxAttempts
          /\ status[r.commit] # "none"
          /\ Refuse("submitted", NoCommit)
       \/ /\ accepted < MaxAttempts
          /\ status[r.commit] = "none"
          /\ \E c \in open : Refuse("pending", c)
       \/ /\ accepted < MaxAttempts
          /\ status[r.commit] = "none"
          /\ open = {}
          /\ Accept
  /\ DiskUnchanged
  /\ UNCHANGED <<batch, cur, accepted>>

\* The order of the checks is the code's.  A request of MaybeInvalid may be
\* refused whatever it says and whenever it is handled, or not: its file may be
\* unreadable, before anything else is looked at, it may break a rule of
\* _validate_request, or a git command of that check may time out.
Decide ==
  /\ phase = "decide"
  /\ LET r == sent[cur] IN
       \/ cur \in MaybeInvalid /\ Refuse("invalid", NoCommit)
       \/ accepted >= MaxAttempts /\ Refuse("budget", NoCommit)
       \/ /\ accepted < MaxAttempts
          /\ status[r.commit] # "none"
          /\ Refuse("submitted", NoCommit)
       \/ /\ accepted < MaxAttempts
          /\ status[r.commit] = "none"
          /\ \E c \in PendingOf(r.agent) : Refuse("pending", c)
       \/ /\ accepted < MaxAttempts
          /\ status[r.commit] = "none"
          /\ PendingOf(r.agent) = {}
          /\ Accept
  /\ DiskUnchanged
  /\ UNCHANGED <<batch, cur, accepted>>

WriteAttempt ==
  /\ phase = "attempt"
  /\ LET r == sent[cur] IN
       /\ status' = [status EXCEPT ![r.commit] = "pending"]
       /\ owner' = [owner EXCEPT ![r.commit] = r.agent]
       /\ creator' = [creator EXCEPT ![r.commit] = cur]
  /\ accepted' = accepted + 1
  /\ phase' = "respond"
  /\ UNCHANGED <<sent, inbox, responses, audit, archive, gitVars, shimVars,
                 batch, cur, decision, resumes, interrupted>>

\* Mutant: the budget is compared again after the attempt was counted.
WriteResponseRechecking ==
  /\ phase = "respond"
  /\ responses' = [responses EXCEPT ![cur] =
       [decision EXCEPT !.accepted = @ /\ accepted < MaxAttempts]]
  /\ phase' = "audit"
  /\ UNCHANGED <<status, owner, creator, sent, inbox, audit, archive,
                 gitVars, shimVars, batch, cur, decision, accepted, resumes,
                 interrupted>>

WriteResponse ==
  /\ phase = "respond"
  /\ responses' = [responses EXCEPT ![cur] = decision]
  /\ phase' = "audit"
  /\ UNCHANGED <<status, owner, creator, sent, inbox, audit, archive,
                 gitVars, shimVars, batch, cur, decision, accepted, resumes,
                 interrupted>>

\* Mutant: the request is removed without its archive copy.
AppendAuditOnly ==
  /\ phase = "audit"
  /\ audit' = [audit EXCEPT ![cur] = @ \cup {decision.accepted}]
  /\ phase' = "unlink"
  /\ UNCHANGED <<status, owner, creator, sent, inbox, responses, archive,
                 gitVars, shimVars, batch, cur, decision, accepted, resumes,
                 interrupted>>

AppendAudit ==
  /\ phase = "audit"
  /\ audit' = [audit EXCEPT ![cur] = @ \cup {decision.accepted}]
  /\ phase' = "archive"
  /\ UNCHANGED <<status, owner, creator, sent, inbox, responses, archive,
                 gitVars, shimVars, batch, cur, decision, accepted, resumes,
                 interrupted>>

WriteArchive ==
  /\ phase = "archive"
  /\ archive' = [archive EXCEPT ![cur] = {decision.accepted}]
  /\ phase' = "unlink"
  /\ UNCHANGED <<status, owner, creator, sent, inbox, responses, audit,
                 gitVars, shimVars, batch, cur, decision, accepted, resumes,
                 interrupted>>

\* Mutant: only accepted requests are removed.
UnlinkAccepted ==
  /\ phase = "unlink"
  /\ inbox' = IF decision.accepted THEN inbox \ {cur} ELSE inbox
  /\ phase' = "pick"
  /\ cur' = NoNonce
  /\ decision' = NoDecision
  /\ UNCHANGED <<status, owner, creator, sent, responses, audit, archive,
                 gitVars, shimVars, batch, accepted, resumes, interrupted>>

Unlink ==
  /\ phase = "unlink"
  /\ inbox' = inbox \ {cur}
  /\ phase' = "pick"
  /\ cur' = NoNonce
  /\ decision' = NoDecision
  /\ UNCHANGED <<status, owner, creator, sent, responses, audit, archive,
                 gitVars, shimVars, batch, accepted, resumes, interrupted>>

-----------------------------------------------------------------------------
(* The supervisor: the loop around the drain, its end, and its death.      *)

\* The drain is done: stop once the whole budget is graded, else sleep.
\* A deadline, the workspace quota, the progress guard or the exit of the
\* CORAL process end the loop here as well.
LoopEnd ==
  /\ phase = "pick"
  /\ batch = {}
  /\ \/ phase' = "stopping"
     \/ Cardinality(Finalized) < MaxAttempts /\ phase' = "idle"
  /\ accepted' = 0
  /\ DiskUnchanged
  /\ UNCHANGED <<batch, cur, decision>>

\* `coral stop`, then the process group is killed: agents and grader are gone.
StopRun ==
  /\ phase = "stopping"
  /\ phase' = "stopped"
  /\ pc' = [a \in Agents |-> "idle"]
  /\ want' = [a \in Agents |-> NoCommit]
  /\ nonce' = [a \in Agents |-> NoNonce]
  /\ UNCHANGED <<fileVars, gitVars,
                 batch, cur, decision, accepted, resumes, interrupted>>

\* The supervisor dies: its memory is lost, the files stay as they are.
Crash ==
  /\ phase \notin {"down", "stopped"}
  /\ phase' = "down"
  /\ batch' = {}
  /\ cur' = NoNonce
  /\ decision' = NoDecision
  /\ accepted' = 0
  /\ interrupted' = interrupted \cup (IF HalfHandled THEN {cur} ELSE {})
  /\ UNCHANGED <<fileVars, gitVars, shimVars, resumes>>

\* A resumed run enters the loop again over the same directories, after a
\* death of the supervisor or a regular stop.
Resume ==
  /\ phase \in {"down", "stopped"}
  /\ resumes < MaxResumes
  /\ resumes' = resumes + 1
  /\ phase' = "idle"
  /\ UNCHANGED <<fileVars, gitVars, shimVars, batch, cur, decision, accepted,
                 interrupted>>

\* A run that stopped, or that nobody resumes, may stay as it is: nothing else.
Terminated == phase \in {"stopped", "down"} /\ UNCHANGED vars

Host == \/ DrainStart \/ PickRequest \/ Decide \/ WriteAttempt
        \/ WriteResponse \/ AppendAudit \/ WriteArchive \/ Unlink
        \/ LoopEnd \/ StopRun

Next == \/ \E a \in Agents : Shim(a)
        \/ \E c \in Commits : Grade(c)
        \/ Host \/ Crash \/ Resume \/ Terminated

Spec == Init /\ [][Next]_vars

\* The supervisor's loop runs on while the process lives, the grader works
\* through pending attempts (each under its own timeout), and a polling shim
\* keeps polling.  Nobody has to submit, give up, crash, or resume.
Fairness == /\ WF_vars(Host)
            /\ \A c \in Commits : WF_vars(Grade(c))
            /\ \A a \in Agents : WF_vars(PollResponse(a) \/ PollResult(a))

FairSpec == Spec /\ Fairness

-----------------------------------------------------------------------------
(* What the broker owes its clients.                                       *)

\* Types; requests in the inbox have been sent, and the batch is part of it.
TypeOK ==
  /\ status \in [Commits -> Status]
  /\ owner \in [Commits -> Agents \cup {NoAgent}]
  /\ creator \in [Commits -> Nonces \cup {NoNonce}]
  /\ sent \in [Nonces -> Request \cup {NoRequest}]
  /\ inbox \subseteq Used
  /\ responses \in [Nonces -> Decision \cup {NoDecision}]
  /\ audit \in [Nonces -> SUBSET BOOLEAN]
  /\ archive \in [Nonces -> SUBSET BOOLEAN]
  /\ head \in [Agents -> Commits] /\ branch \in [Agents -> SUBSET Commits]
  /\ phase \in Phase
  /\ batch \subseteq inbox
  /\ phase \in Handling => cur \in inbox \ batch
  /\ cur \in Nonces \cup {NoNonce}
  /\ decision \in Decision \cup {NoDecision}
  /\ accepted \in Nat /\ resumes \in Nat /\ interrupted \subseteq Nonces
  /\ pc \in [Agents -> ShimPC]
  /\ want \in [Agents -> Commits \cup {NoCommit}]
  /\ \A a \in Agents : pc[a] \notin {"idle", "commit"} => want[a] \in Commits
  /\ nonce \in [Agents -> Used \cup {NoNonce}]

\* The budget of scored attempts is never exceeded, although it is compared
\* with a count taken at the start of the drain and kept by hand
\* (broker.py, accepted_count), and although a supervisor that dies between
\* two writes handles the same request file again.
BudgetRespected == Cardinality(Attempted) <= MaxAttempts

\* An agent never has two evaluations pending, even when a shim that gave up
\* waiting left an earlier request in the inbox (broker.py 242-249).
OnePendingPerAgent ==
  \A c, d \in Commits :
    status[c] = "pending" /\ status[d] = "pending" /\ owner[c] = owner[d]
      => c = d

\* An "accepted" answer is never ahead of the attempt it announces: the record
\* is on disk, charged to the agent that asked, when the answer is published.
AcceptedHasAttempt ==
  \A n \in Nonces :
    responses[n] # NoDecision /\ responses[n].accepted
      => /\ status[sent[n].commit] # "none"
         /\ owner[sent[n].commit] = sent[n].agent

\* A request leaves the inbox only after its answer, its audit line and its
\* archive copy are on disk: a supervisor that dies never loses one.
NoRequestLost ==
  \A n \in Used \ inbox :
    /\ responses[n] # NoDecision
    /\ archive[n] # {}
    /\ archive[n] \subseteq audit[n]

\* No commit is accepted for two requests, whoever sent them and whatever is
\* replayed: the audit never charges a commit twice.
AcceptedOncePerCommit ==
  \A m, n \in Nonces :
    TRUE \in audit[m] /\ TRUE \in audit[n] /\ m # n
      => sent[m].commit # sent[n].commit

\* A refusal of request n was recorded or published, be it overwritten since.
WasRefused(n) ==
  \/ FALSE \in audit[n]
  \/ responses[n] # NoDecision /\ ~responses[n].accepted

\* "Rejected requests do not create attempts or consume the evaluation
\* budget" (broker.py 265-266), over any number of deaths and resumed runs: no
\* attempt comes from a request that was also refused.  The one exception is
\* a request that a supervisor had half handled when it died: the next one
\* finds it in the inbox again and may decide otherwise.
RejectedConsumesNothing ==
  \A c \in Attempted : WasRefused(creator[c]) => creator[c] \in interrupted

\* The same without the exception, which TLC refutes.
RefusalsNeverConsume == \A c \in Attempted : ~WasRefused(creator[c])

\* The record a shim waits for, and will report the score of, is charged to
\* its own agent, be it that of an earlier request, of a shim that was killed,
\* or one that a refusal redirected it to (submit.py 83-86); only the seed
\* commit, which is on every branch, may have been submitted by another agent.
WaitsForOwn ==
  \A a \in Agents :
    pc[a] \in {"response", "result"} /\ status[want[a]] # "none"
      => owner[want[a]] = a \/ want[a] = Seed

\* A record is never withdrawn, moved to another agent, or graded twice: a
\* replayed or duplicate request cannot put a graded commit back to pending.
AttemptsNeverRewritten ==
  [][\A c \in Commits :
       /\ status[c] # "none" => owner'[c] = owner[c] /\ status'[c] # "none"
       /\ status[c] \in Terminal => status'[c] = status[c]]_<<status, owner>>

\* Every request is answered and removed, unless the run ends first: none stays
\* in the inbox from some point on.
RequestsAreAnswered ==
  \A n \in Nonces : []<>(n \notin inbox \/ phase \in {"stopped", "down"})

\* No shim polls forever, even with no deadline of its own: it gets a refusal
\* or a result, unless the run ends first.
ShimsReturn ==
  \A a \in Agents :
    []<>(pc[a] \notin {"response", "result"} \/ phase \in {"stopped", "down"})

\* The broker implements the ledger: admissions are decided in several steps
\* against remembered counts, yet each one is legal when its record appears.
Ledger == INSTANCE EvalLedger
LedgerSpec == Ledger!LedgerSpec

=============================================================================
