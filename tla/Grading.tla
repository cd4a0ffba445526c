------------------------------ MODULE Grading -------------------------------
(***************************************************************************)
(* The evaluation of a program: a gate (stage 1) and a score (stage 2),    *)
(* each an isolated_evaluation (openevolve/evidence.py) that records what  *)
(* it does and executes a copy of the program in a CandidateSandbox.       *)
(*                                                                         *)
(* Seeds are evaluations of the seed program by runs that share a          *)
(* seed-fitness cache: whoever finds no entry executes the program under   *)
(* the lock of the entry.  Graded are evaluations by CORAL's grader        *)
(* (agent/grader.py): a worker process that a coordinator joins with a     *)
(* timeout, kills, and cleans up after (agent/grading_lifecycle.py).  The  *)
(* coordinator itself is CORAL's.  The two kinds of evaluation share       *)
(* nothing, and a behaviour has those of one campaign.                     *)
(*                                                                         *)
(* A stage has one instance.  Left out: the re-hash of the private copy of *)
(* the source, which nobody changes here, and the watchdog's removal of    *)
(* containers, which looks for the same mount as the cleanup.              *)
(***************************************************************************)
EXTENDS CandidateSandbox

CONSTANTS
  Evals,     \* evaluations of a program
  Seeds,     \* those whose cache_path is not None
  Graded,    \* those made by a grading worker
  Campaigns, \* sets of evaluations that happen together
  MaxKills   \* bound on killed processes (the model's)

Stages == {1, 2}

Scores == {"pass", "fail"}

None == "none"

ASSUME GradingAssumption ==
  /\ Calls = Evals \X Stages
  /\ Seeds \subseteq Evals /\ Graded \subseteq Evals
  /\ Seeds \cap Graded = {}
  /\ Campaigns \subseteq SUBSET Evals
  /\ None \notin Evals
  /\ MaxKills \in Nat

VARIABLES
  campaign, \* the evaluations of this behaviour
  stage,    \* per evaluation: the stage it is at
  phase,    \* per evaluation: where in isolated_evaluation
  record,   \* per call: the status in evaluation.json
  score,    \* per call: combined_score
  lock,     \* per stage: who has the flock of the seed's cache entry
  cache,    \* per stage: the score in the seed's cache entry
  coord,    \* per graded evaluation: its coordinator
  cleaned,  \* graded evaluations whose cleanup raised no exception
  kills

evaluation == <<campaign, stage, phase, record, score, lock, cache>>
grader == <<coord, cleaned, kills>>
vars == <<sandbox, evaluation, grader>>

Init ==
  /\ SandboxInit
  /\ campaign \in Campaigns
  /\ stage = [e \in Evals |-> 1]
  /\ phase = [e \in Evals |-> "idle"]
  /\ record = [c \in Calls |-> "none"]
  /\ score = [c \in Calls |-> None]
  /\ lock = [s \in Stages |-> None]
  /\ cache = [s \in Stages |-> None]
  /\ coord = [e \in Graded |-> "queued"]
  /\ cleaned = {}
  /\ kills = 0

Current(e) == <<e, stage[e]>>

Enter(e, p) == phase' = [phase EXCEPT ![e] = p]

\* Closing the file, or the death of its owner, frees its lock.
Freed(e) == [s \in Stages |-> IF lock[s] = e THEN None ELSE lock[s]]

-----------------------------------------------------------------------------
(* isolated_evaluation.                                                    *)

\* A directory of its own, a copy of the program, and a record.
Begin(e) ==
  /\ phase[e] = "idle"
  /\ e \in Graded => coord[e] = "grading"
  /\ Enter(e, "open")
  /\ record' = [record EXCEPT ![Current(e)] = "running"]
  /\ UNCHANGED <<sandbox, campaign, stage, score, lock, cache, grader>>

\* Mutant: the file is opened and not locked.
AcquireShared(e) ==
  /\ phase[e] = "open" /\ e \in Seeds
  /\ lock' = [lock EXCEPT ![stage[e]] = e]
  /\ Enter(e, "locked")
  /\ UNCHANGED <<sandbox, campaign, stage, record, score, cache, grader>>

Acquire(e) ==
  /\ phase[e] = "open" /\ e \in Seeds
  /\ lock[stage[e]] = None
  /\ lock' = [lock EXCEPT ![stage[e]] = e]
  /\ Enter(e, "locked")
  /\ UNCHANGED <<sandbox, campaign, stage, record, score, cache, grader>>

\* The entry is replayed as the evidence of this evaluation.
Hit(e) ==
  /\ phase[e] = "locked" /\ cache[stage[e]] # None
  /\ score' = [score EXCEPT ![Current(e)] = cache[stage[e]]]
  /\ Enter(e, "stored")
  /\ UNCHANGED <<sandbox, campaign, stage, record, lock, cache, grader>>

Miss(e) ==
  /\ \/ phase[e] = "locked" /\ cache[stage[e]] = None
     \/ phase[e] = "open" /\ e \notin Seeds
  /\ Call(Current(e))
  /\ Enter(e, "running")
  /\ UNCHANGED <<campaign, stage, record, score, lock, cache, grader>>

Execute(e) ==
  /\ phase[e] = "running"
  /\ Work(Current(e))
  /\ UNCHANGED <<evaluation, grader>>

\* Mutant: the lock is released before the score is stored.
JudgeUnlocked(e) ==
  /\ phase[e] = "running"
  /\ Answered(Current(e))
  /\ \E r \in Scores :
       /\ verdict[Current(e)] = "failure" => r = "fail"
       /\ score' = [score EXCEPT ![Current(e)] = r]
  /\ lock' = Freed(e)
  /\ Enter(e, "judged")
  /\ UNCHANGED <<campaign, stage, record, cache, grader>>

\* Whatever run_docker failed of, the instance counts as failed.
Judge(e) ==
  /\ phase[e] = "running"
  /\ Answered(Current(e))
  /\ \E r \in Scores :
       /\ verdict[Current(e)] = "failure" => r = "fail"
       /\ score' = [score EXCEPT ![Current(e)] = r]
  /\ Enter(e, "judged")
  /\ UNCHANGED <<campaign, stage, record, lock, cache, grader>>

\* A checker raises, or the license has died (SystemExit).
Raise(e) ==
  /\ phase[e] = "running"
  /\ Answered(Current(e))
  /\ lock' = Freed(e)
  /\ record' = [record EXCEPT ![Current(e)] = "failed"]
  /\ Enter(e, "ended")
  /\ UNCHANGED <<campaign, stage, score, cache, grader>>

\* An evaluation that had an instance to run has its results and no key of an
\* error in its metrics, whatever became of the candidate.
Store(e) ==
  /\ phase[e] = "judged" /\ e \in Seeds
  /\ cache' = [cache EXCEPT ![stage[e]] = score[Current(e)]]
  /\ Enter(e, "stored")
  /\ UNCHANGED <<sandbox, campaign, stage, record, score, lock, grader>>

\* The lock is released and the record closed.  The gate decides on stage 2.
Complete(e) ==
  /\ \/ phase[e] = "stored"
     \/ phase[e] = "judged" /\ e \notin Seeds
  /\ lock' = Freed(e)
  /\ record' = [record EXCEPT ![Current(e)] = "completed"]
  /\ IF stage[e] = 1 /\ score[Current(e)] = "pass"
       THEN stage' = [stage EXCEPT ![e] = 2] /\ Enter(e, "idle")
       ELSE Enter(e, "ended") /\ UNCHANGED stage
  /\ UNCHANGED <<sandbox, campaign, score, cache, grader>>

Evaluate(e) ==
  \/ Begin(e) \/ Acquire(e) \/ Hit(e) \/ Miss(e) \/ Execute(e)
  \/ Judge(e) \/ Raise(e) \/ Store(e) \/ Complete(e)

-----------------------------------------------------------------------------
(* Death of an evaluating process, and the coordinator of a graded one.    *)

Dies(e) ==
  /\ IF phase[e] = "running" /\ at[Current(e)] # "returned"
       THEN Killed(Current(e)) ELSE UNCHANGED sandbox
  /\ lock' = Freed(e)
  /\ Enter(e, "killed")
  /\ UNCHANGED <<campaign, stage, record, score, cache>>

Kill(e) ==
  /\ e \in Seeds
  /\ phase[e] \notin {"ended", "killed"}
  /\ kills < MaxKills
  /\ kills' = kills + 1
  /\ Dies(e)
  /\ UNCHANGED <<coord, cleaned>>

\* One attempt at a time.
GradeNext(e) ==
  /\ coord[e] = "queued"
  /\ \A g \in Graded : coord[g] \notin {"grading", "cleaning"}
  /\ coord' = [coord EXCEPT ![e] = "grading"]
  /\ UNCHANGED <<sandbox, evaluation, cleaned, kills>>

WorkerReturns(e) ==
  /\ coord[e] = "grading" /\ phase[e] = "ended"
  /\ coord' = [coord EXCEPT ![e] = "cleaning"]
  /\ UNCHANGED <<sandbox, evaluation, cleaned, kills>>

\* _run_grader_with_timeout gives up on its worker and kills it.
GradingTimesOut(e) ==
  /\ coord[e] = "grading" /\ phase[e] # "ended"
  /\ Dies(e)
  /\ coord' = [coord EXCEPT ![e] = "cleaning"]
  /\ UNCHANGED <<cleaned, kills>>

\* What /workspace/code.py of a candidate is mounted from, and what the
\* cleanup takes for it.
CodeMount(c) == <<"coral_eval", c[2], c[1]>>
CheckoutCode(e) == <<"grader_checkouts", e>>

CheckoutContainers(e) ==
  {c \in Calls : "candidate" \in objects[c] /\ CodeMount(c) = CheckoutCode(e)}

\* cleanup_checkout in the finally of guarded: an exception is logged.
CleanupCheckout(e) ==
  /\ coord[e] = "cleaning"
  /\ coord' = [coord EXCEPT ![e] = "final"]
  /\ \/ /\ objects' = [c \in Calls |-> IF c \in CheckoutContainers(e)
                                         THEN objects[c] \ {"candidate"}
                                         ELSE objects[c]]
        /\ cleaned' = cleaned \cup {e}
     \/ UNCHANGED <<objects, cleaned>>
  /\ UNCHANGED <<at, made, lease, ran, verdict, tries, faults, broken>>
  /\ UNCHANGED <<evaluation, kills>>

Coordinate(e) ==
  \/ GradeNext(e) \/ WorkerReturns(e) \/ CleanupCheckout(e)

Orphans ==
  /\ \E c \in Calls : OrphanExits(c)
  /\ UNCHANGED <<evaluation, grader>>

Ended ==
  /\ \A e \in campaign : phase[e] \in {"ended", "killed"}
  /\ \A e \in campaign \cap Graded : coord[e] = "final"
  /\ UNCHANGED vars

Next ==
  \/ \E e \in campaign : Evaluate(e) \/ Kill(e)
  \/ \E e \in campaign \cap Graded : Coordinate(e) \/ GradingTimesOut(e)
  \/ Orphans
  \/ Ended

Spec == Init /\ [][Next]_vars

\* Every docker command and every execution has a time limit, so a process
\* that is not killed goes on.
FairSpec ==
  /\ Spec
  /\ \A e \in Evals : WF_vars(e \in campaign /\ Evaluate(e))
  /\ \A e \in Graded : WF_vars(e \in campaign /\ Coordinate(e))

-----------------------------------------------------------------------------
(* What is promised of an evaluation.                                      *)

TypeOK ==
  /\ SandboxTypeOK
  /\ campaign \in Campaigns
  /\ stage \in [Evals -> Stages]
  /\ phase \in [Evals -> {"idle", "open", "locked", "running", "judged",
                          "stored", "ended", "killed"}]
  /\ record \in [Calls -> {"none", "running", "completed", "failed"}]
  /\ score \in [Calls -> Scores \cup {None}]
  /\ lock \in [Stages -> Evals \cup {None}]
  /\ cache \in [Stages -> Scores \cup {None}]
  /\ coord \in [Graded -> {"queued", "grading", "cleaning", "final"}]
  /\ cleaned \subseteq Graded
  /\ kills \in Nat

\* However the runs that share a seed meet at its cache entry, and whoever of
\* them is killed at it, the seed is scored once per stage, and every
\* evaluation of it that completes has that score.
Answers ==
  [e \in Seeds |-> [s \in Stages |->
     IF record[<<e, s>>] = "completed" THEN score[<<e, s>>] ELSE None]]
Memo == INSTANCE SeedMemo
          WITH Users <- Seeds, NoScore <- None, memo <- cache, answer <- Answers
MemoSpec == Memo!MemoSpec

\* While nobody is killed, the seed is executed by one run per stage, unless its
\* evaluation raises: the others wait for the score instead of spending CPUs and
\* licenses on it beside the one that does.
SeedRunsOnce ==
  kills = 0 =>
    \A s \in Stages :
      Cardinality({e \in Seeds : at[<<e, s>>] # "idle"
                                   /\ record[<<e, s>>] # "failed"}) <= 1

\* An evaluation that has begun ends, whoever holds the lock it waits for, and
\* a grading is over at last, with its worker or without.
EvaluationsEnd ==
  /\ \A e \in Seeds : phase[e] # "idle" ~> phase[e] \in {"ended", "killed"}
  /\ \A e \in Graded : e \in campaign => <>(coord[e] = "final")

\* "clean containers on grader failure": after a grading whose cleanup met no
\* error, no candidate of it runs beside the next one.
GradingLeavesNoCandidate ==
  \A e \in cleaned : \A s \in Stages : "candidate" \notin objects[<<e, s>>]

=============================================================================
