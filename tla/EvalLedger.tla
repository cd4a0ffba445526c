----------------------------- MODULE EvalLedger -----------------------------
(***************************************************************************)
(* What the evaluation service promises, whatever happens between an       *)
(* agent's request and the host's files: a ledger of scored attempts.  An  *)
(* attempt is opened at most once per commit, never past the budget, never *)
(* while its agent already waits for another one, and, once graded, keeps  *)
(* its grade.  EvalBroker implements this module.                          *)
(***************************************************************************)
EXTENDS Naturals, FiniteSets

CONSTANTS
  Agents,       \* registered agents of the run (agent-1, agent-2, ...)
  Commits,      \* candidate commits
  Terminal,     \* statuses the grader may give
  MaxAttempts,  \* budget of scored attempts of the task
  NoAgent       \* owner of a commit nobody has submitted

VARIABLES
  status,   \* per commit: status field of public/attempts/<commit>.json
  owner     \* per commit: agent_id field of the same file

ledgerVars == <<status, owner>>

Status == {"none", "pending"} \cup Terminal

Attempted == {c \in Commits : status[c] # "none"}
PendingOf(a) == {c \in Commits : status[c] = "pending" /\ owner[c] = a}

LedgerInit ==
  /\ status = [c \in Commits |-> "none"]
  /\ owner = [c \in Commits |-> NoAgent]

\* A new attempt is charged to the budget and to its agent.
Admit(a, c) ==
  /\ status[c] = "none"
  /\ Cardinality(Attempted) < MaxAttempts
  /\ PendingOf(a) = {}
  /\ status' = [status EXCEPT ![c] = "pending"]
  /\ owner' = [owner EXCEPT ![c] = a]

\* The grader publishes the outcome of a pending attempt, once.
Finalize(c, s) ==
  /\ status[c] = "pending"
  /\ s \in Terminal
  /\ status' = [status EXCEPT ![c] = s]
  /\ UNCHANGED owner

LedgerNext ==
  \/ \E a \in Agents, c \in Commits : Admit(a, c)
  \/ \E c \in Commits, s \in Terminal : Finalize(c, s)

LedgerSpec == LedgerInit /\ [][LedgerNext]_ledgerVars

=============================================================================
