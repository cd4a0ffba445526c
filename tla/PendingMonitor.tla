--------------------------- MODULE PendingMonitor ---------------------------
(***************************************************************************)
(* The guards that trusted_eval_infra/agent/scheduling.py puts around the  *)
(* monitor loop of the pinned CORAL manager.  The loop itself is outside   *)
(* the repository: its order of work is the one tests/coral_monitor_probe  *)
(* relies on.  A pass first delivers completed results, one per scan, and  *)
(* then looks after agents that exited or fell silent.  Broker, grader and *)
(* agents change the attempt files meanwhile.                              *)
(***************************************************************************)
EXTENDS Naturals, FiniteSets, Sequences, SequencesExt

CONSTANTS
  Agents,
  Commits,
  Author,      \* the agent of each commit
  Scores,      \* scores the grader gives
  Minimize,    \* direction of the task
  Every,       \* the heartbeat is due after each so many results
  MaxResumes,  \* bound on `coral resume' (the model's)
  NoScore, NoAgent

ASSUME MonitorAssumption ==
  /\ IsFiniteSet(Commits)
  /\ Author \in [Commits -> Agents] /\ Scores \subseteq Nat
  /\ Minimize \in BOOLEAN /\ Every \in Nat \ {0}
  /\ MaxResumes \in Nat
  /\ NoScore \notin Scores /\ NoAgent \notin Agents

VARIABLES
  inbox,      \* commits requested and not yet seen by the broker
  attempt,    \* attempts/<commit>.json: none, pending or done
  score,      \* the score in it
  filed,      \* per agent: its attempts, by timestamp
  finished,   \* completed attempts, by the time they were completed (mtime)
  grader,     \* is the grading daemon alive
  alive,      \* per agent: is its model session running
  pc,         \* where the monitor is
  names,      \* attempts the current scan saw
  seen,       \* attempts the loop has done with
  count,      \* per agent: _agent_eval_counts
  best,       \* per agent: _agent_best_scores
  plateau,    \* per agent: _agent_evals_since_improvement
  told,       \* history, per agent: heartbeats it has been given by any manager
  deferred,   \* per agent: _frontieror_deferred_heartbeats
  missed,     \* history, per agent: heartbeats that were due and not given
              \* when this manager took up the count
  todo,       \* agents this pass has still to look after
  acting,     \* agent about to be restarted or interrupted
  looked,     \* history: its attempts on record when that was decided
  resumes

fileVars == <<inbox, attempt, score, filed, finished, grader>>
counterVars == <<count, best, plateau, told, deferred, missed>>
loopVars == <<pc, names, seen, todo, acting, looked>>
vars == <<fileVars, alive, counterVars, loopVars, resumes>>

Of(a) == {c \in Commits : Author[c] = a}
Pending(a) == {c \in Of(a) : attempt[c] = "pending"}
OnRecord(a) == {c \in Of(a) : attempt[c] # "none"}
Completed(cs) == {c \in cs : attempt[c] = "done"}

Improves(s, b) == IF Minimize THEN s < b ELSE s > b

\* One result more: a score that is the first or beats the best one ends the
\* plateau, anything else makes it longer.
After(state, c) ==
  IF score[c] # NoScore /\ (state.best = NoScore \/ Improves(score[c], state.best))
  THEN [best |-> score[c], plateau |-> 0]
  ELSE [state EXCEPT !.plateau = @ + 1]

NoHistory == [best |-> NoScore, plateau |-> 0]

Init ==
  /\ inbox = {}
  /\ attempt = [c \in Commits |-> "none"]
  /\ score = [c \in Commits |-> NoScore]
  /\ filed = [a \in Agents |-> <<>>]
  /\ finished = <<>>
  /\ grader = TRUE
  /\ alive = [a \in Agents |-> TRUE]
  /\ pc = "start"
  /\ names = {} /\ seen = {} /\ todo = {} /\ acting = NoAgent /\ looked = {}
  /\ count = [a \in Agents |-> 0]
  /\ best = [a \in Agents |-> NoScore]
  /\ plateau = [a \in Agents |-> 0]
  /\ told = [a \in Agents |-> 0]
  /\ deferred = [a \in Agents |-> 0]
  /\ missed = [a \in Agents |-> 0]
  /\ resumes = 0

-----------------------------------------------------------------------------
(* Agents, broker and grader.                                              *)

\* The shim does not ask while an evaluation of the agent is pending.
Submit(c) ==
  /\ alive[Author[c]]
  /\ attempt[c] = "none" /\ c \notin inbox
  /\ Pending(Author[c]) = {}
  /\ inbox' = inbox \cup {c}
  /\ UNCHANGED <<attempt, score, filed, finished, grader, alive,
                 counterVars, loopVars, resumes>>

\* The broker records one pending attempt per agent and drops the rest.
Admit(c) ==
  /\ c \in inbox
  /\ inbox' = inbox \ {c}
  /\ IF Pending(Author[c]) = {} /\ attempt[c] = "none"
     THEN /\ attempt' = [attempt EXCEPT ![c] = "pending"]
          /\ filed' = [filed EXCEPT ![Author[c]] = Append(@, c)]
     ELSE UNCHANGED <<attempt, filed>>
  /\ UNCHANGED <<score, finished, grader, alive, counterVars, loopVars, resumes>>

\* A score, or none for a crash or a timeout.
Grade(c) ==
  /\ grader
  /\ attempt[c] = "pending"
  /\ attempt' = [attempt EXCEPT ![c] = "done"]
  /\ \E s \in Scores \cup {NoScore} : score' = [score EXCEPT ![c] = s]
  /\ finished' = Append(finished, c)
  /\ UNCHANGED <<inbox, filed, grader, alive, counterVars, loopVars, resumes>>

GraderDies ==
  /\ grader
  /\ grader' = FALSE
  /\ UNCHANGED <<inbox, attempt, score, filed, finished, alive,
                 counterVars, loopVars, resumes>>

AgentExits(a) ==
  /\ alive[a]
  /\ alive' = [alive EXCEPT ![a] = FALSE]
  /\ UNCHANGED <<fileVars, counterVars, loopVars, resumes>>

-----------------------------------------------------------------------------
(* The monitor: seen_attempts and filter_scored.                           *)

\* Mutant: the daemon is looked at when the monitor starts only.
GraderGoneAtStart ==
  /\ pc = "start"
  /\ ~grader
  /\ pc' = "stopped"
  /\ UNCHANGED <<fileVars, alive, counterVars, names, seen, todo, acting, looked,
                 resumes>>

\* A dead grading daemon ends the run before anything waits for it.
GraderGone ==
  /\ pc \in {"start", "scan"}
  /\ ~grader
  /\ pc' = "stopped"
  /\ UNCHANGED <<fileVars, alive, counterVars, names, seen, todo, acting, looked,
                 resumes>>

\* What a history makes of an agent's best score and plateau: its attempts by
\* timestamp, those among the given ones.
Replay(order, done) ==
  LET state[n \in 0 .. Len(order)] ==
        IF n = 0 THEN NoHistory
        ELSE IF order[n] \in done THEN After(state[n - 1], order[n])
        ELSE state[n - 1]
  IN  state[Len(order)]

\* The counters of a manager that takes up the given history, in which each
\* attempt is once.  It gives no heartbeat for what it restores: those that no
\* manager gave before are missed.
Restore(done) ==
  LET past(a) == Replay(filed[a], done) IN
    /\ count' = [a \in Agents |-> Cardinality(Of(a) \cap done)]
    /\ best' = [a \in Agents |-> past(a).best]
    /\ plateau' = [a \in Agents |-> past(a).plateau]
    /\ missed' = [a \in Agents |->
                    (Cardinality(Of(a) \cap done) \div Every) - told[a]]
    /\ UNCHANGED <<told, deferred>>

\* Mutant: pending attempts are taken for seen, like the others on record.
InitialScanOfAll ==
  /\ pc = "start" /\ grader
  /\ Restore(Completed(Commits))
  /\ seen' = {c \in Commits : attempt[c] # "none"}
  /\ pc' = "scan"
  /\ UNCHANGED <<fileVars, alive, names, todo, acting, looked,
                 resumes>>

\* The first scan of a manager: results that are complete are history, which
\* restores the counters; a pending one stays to be delivered.
InitialScan ==
  /\ pc = "start" /\ grader
  /\ Restore(Completed(Commits))
  /\ seen' = Completed(Commits)
  /\ pc' = "scan"
  /\ UNCHANGED <<fileVars, alive, names, todo, acting, looked,
                 resumes>>

Scan ==
  /\ pc = "scan" /\ grader
  /\ names' = {c \in Commits : attempt[c] # "none"}
  /\ pc' = "filter"
  /\ UNCHANGED <<fileVars, alive, counterVars, seen, todo, acting, looked,
                 resumes>>

\* Mutant: a heartbeat for an agent that exited is dropped.
HeartbeatDropped(a) ==
  IF count'[a] % Every # 0 \/ ~alive[a] THEN UNCHANGED <<told, deferred>>
  ELSE /\ told' = [told EXCEPT ![a] = @ + 1]
       /\ UNCHANGED deferred

\* Whether a heartbeat that is due reaches the agent now, or waits for its
\* next restart.
Heartbeat(a) ==
  IF count'[a] % Every # 0 THEN UNCHANGED <<told, deferred>>
  ELSE IF alive[a]
       THEN /\ told' = [told EXCEPT ![a] = @ + 1]
            /\ UNCHANGED deferred
       ELSE /\ deferred' = [deferred EXCEPT ![a] = @ + 1]
            /\ UNCHANGED told

Count(c) ==
  LET a == Author[c]
      now == After([best |-> best[a], plateau |-> plateau[a]], c) IN
    /\ count' = [count EXCEPT ![a] = @ + 1]
    /\ best' = [best EXCEPT ![a] = now.best]
    /\ plateau' = [plateau EXCEPT ![a] = now.plateau]
    /\ UNCHANGED missed
    /\ Heartbeat(a)

Oldest(cs) == CHOOSE c \in cs :
  \A d \in cs : \E i \in DOMAIN finished : /\ finished[i] = c
                                           /\ d \notin ToSet(SubSeq(finished, 1, i - 1))

\* Mutant: the scan is done with all new results, the oldest is counted.
DeliverCoalesced ==
  /\ pc = "filter"
  /\ LET done == Completed(names \ seen) IN
       /\ done # {}
       /\ seen' = seen \cup done
       /\ Count(Oldest(done))
  /\ pc' = "scan"
  /\ UNCHANGED <<fileVars, alive, names, todo, acting, looked,
                 resumes>>

\* filter_scored hands the loop one result, the oldest; the loop counts it,
\* asks for heartbeats and scans again.
Deliver ==
  /\ pc = "filter"
  /\ LET done == Completed(names \ seen) IN
       /\ done # {}
       /\ seen' = seen \cup {Oldest(done)}
       /\ Count(Oldest(done))
  /\ pc' = "scan"
  /\ UNCHANGED <<fileVars, alive, names, todo, acting, looked,
                 resumes>>

NothingNew ==
  /\ pc = "filter"
  /\ Completed(names \ seen) = {}
  /\ pc' = "health"
  /\ todo' = Agents
  /\ UNCHANGED <<fileVars, alive, counterVars, names, seen, acting, looked,
                 resumes>>

-----------------------------------------------------------------------------
(* The monitor: restart and interrupt.                                     *)

\* Mutant: the attempts of the agent are not asked for.
LookAfterBlindly(a) ==
  /\ pc = "health"
  /\ a \in todo
  /\ todo' = todo \ {a}
  /\ \/ acting' = a /\ pc' = "act" /\ looked' = OnRecord(a)
     \/ alive[a] /\ UNCHANGED <<acting, pc, looked>>
  /\ UNCHANGED <<fileVars, alive, counterVars, names, seen, resumes>>

\* An agent that exited is restarted and one that was silent for too long is
\* interrupted, unless it has an attempt pending.  The files are read before
\* the model is started.
LookAfter(a) ==
  /\ pc = "health"
  /\ a \in todo
  /\ todo' = todo \ {a}
  /\ \/ Pending(a) = {} /\ acting' = a /\ pc' = "act" /\ looked' = OnRecord(a)
     \/ (alive[a] \/ Pending(a) # {}) /\ UNCHANGED <<acting, pc, looked>>
  /\ UNCHANGED <<fileVars, alive, counterVars, names, seen, resumes>>

\* The start of a session carries the deferred heartbeats to an agent that
\* exited; one that is interrupted has none.
Act ==
  /\ pc = "act"
  /\ alive' = [alive EXCEPT ![acting] = TRUE]
  /\ told' = [told EXCEPT ![acting] = @ + deferred[acting]]
  /\ deferred' = [deferred EXCEPT ![acting] = 0]
  /\ acting' = NoAgent /\ looked' = {}
  /\ pc' = "health"
  /\ UNCHANGED <<fileVars, count, best, plateau, missed, names, seen, todo, resumes>>

PassEnds ==
  /\ pc = "health"
  /\ todo = {}
  /\ pc' = "scan"
  /\ UNCHANGED <<fileVars, alive, counterVars, names, seen, todo, acting, looked,
                 resumes>>

\* The CORAL process ends at any point and `coral resume' starts a manager
\* with nothing but the files, without the heartbeats that were deferred; the
\* agents get new sessions.
Resume ==
  /\ resumes < MaxResumes
  /\ resumes' = resumes + 1
  /\ pc' = "start"
  /\ grader' = TRUE
  /\ alive' = [a \in Agents |-> TRUE]
  /\ names' = {} /\ seen' = {} /\ todo' = {}
  /\ acting' = NoAgent /\ looked' = {}
  /\ count' = [a \in Agents |-> 0]
  /\ best' = [a \in Agents |-> NoScore]
  /\ plateau' = [a \in Agents |-> 0]
  /\ deferred' = [a \in Agents |-> 0]
  /\ missed' = [a \in Agents |-> 0]
  /\ UNCHANGED <<inbox, attempt, score, filed, finished, told>>

Monitor == \/ GraderGone \/ InitialScan \/ Scan \/ Deliver \/ NothingNew
           \/ (\E a \in Agents : LookAfter(a)) \/ Act \/ PassEnds

Next == \/ \E c \in Commits : Submit(c) \/ Admit(c) \/ Grade(c)
        \/ \E a \in Agents : AgentExits(a)
        \/ GraderDies \/ Monitor \/ Resume

Spec == Init /\ [][Next]_vars

\* The monitor thread runs; nothing else has to.
FairSpec == Spec /\ WF_vars(Monitor)

-----------------------------------------------------------------------------
\* Types; an agent whose session runs has no heartbeat waiting.
TypeOK ==
  /\ inbox \subseteq Commits
  /\ attempt \in [Commits -> {"none", "pending", "done"}]
  /\ score \in [Commits -> Scores \cup {NoScore}]
  /\ grader \in BOOLEAN
  /\ alive \in [Agents -> BOOLEAN]
  /\ pc \in {"start", "scan", "filter", "health", "act", "stopped"}
  /\ seen \subseteq Commits /\ names \subseteq Commits
  /\ count \in [Agents -> Nat] /\ plateau \in [Agents -> Nat]
  /\ best \in [Agents -> Scores \cup {NoScore}]
  /\ told \in [Agents -> Nat] /\ deferred \in [Agents -> Nat]
  /\ missed \in [Agents -> Nat]
  /\ looked \subseteq Commits
  /\ todo \subseteq Agents
  /\ acting \in Agents \cup {NoAgent}
  /\ (acting = NoAgent) <=> (pc # "act")
  /\ \A a \in Agents : alive[a] => deferred[a] = 0

\* Of two attempts of an agent, d was submitted before c.
Before(a, d, c) ==
  \E i, j \in 1 .. Len(filed[a]) : i < j /\ filed[a][i] = d /\ filed[a][j] = c

\* The agent's results among cs that have a score and that no other beats.
Scored(cs) == {c \in cs : score[c] # NoScore}
Leading(cs) ==
  {c \in Scored(cs) : \A d \in Scored(cs) : ~ Improves(score[d], score[c])}

\* An agent's best score and plateau are those of its results cs: the plateau
\* counts the results since the first that has the best score, or all of them
\* while none has a score.
Matches(state, a, cs) ==
  /\ IF Scored(cs) = {} THEN state.best = NoScore
     ELSE \E c \in Leading(cs) : state.best = score[c]
  /\ state.plateau =
       Cardinality({c \in cs : \/ Scored(cs) = {}
                               \/ \E d \in Leading(cs) : Before(a, d, c)})

\* Every completed result the loop is done with has gone through the counters
\* once, in the agent's order of submission: a resumed manager, which rebuilds
\* them from the files, and one that counted results as they came agree on
\* what the files say (scheduling.py 103-140, "so simultaneous completions
\* cannot lose feedback or skip per-agent heartbeat/plateau counter
\* increments").
CountersMatchHistory ==
  \A a \in Agents :
    /\ count[a] = Cardinality(Of(a) \cap seen)
    /\ Matches([best |-> best[a], plateau |-> plateau[a]], a, Of(a) \cap seen)
    /\ Of(a) \cap seen = Completed(Of(a) \cap seen)

\* While a manager runs, every heartbeat that the results it counts make due
\* is given to the agent or kept for its next session, and over all managers
\* none is given twice: what was given or waits never exceeds what the
\* completed results make due.  Heartbeats that were due when a manager took
\* up the count, and that no earlier one gave, are missed (`missed').
HeartbeatsKept ==
  \A a \in Agents :
    /\ told[a] + deferred[a] <= Cardinality(Completed(Of(a))) \div Every
    /\ pc \notin {"start", "stopped"} =>
         told[a] + deferred[a] + missed[a] = count[a] \div Every

\* The stronger claim that no heartbeat is lost between managers either; a
\* resumed one restores counters and no heartbeat (scheduling.py 108-128,
\* 176-180).
HeartbeatsSurviveResume == \A a \in Agents : missed[a] = 0

\* A restart of an agent that exited, or an interrupt for silence, does not
\* come over an evaluation that was on record as the files were looked at and
\* is still pending.  An attempt admitted between the look and the start, and
\* interrupts for heartbeats (scheduling.py 97), are not covered.
NoRestartOverPending ==
  [][\A a \in Agents : Act /\ acting = a => Pending(a) \cap looked = {}]_vars

\* "Do not consume another model invocation while its score is absent"
\* (scheduling.py 80): an agent that exited is not restarted while an
\* evaluation of it is requested or pending.
NoSessionWhileScoreAbsent ==
  [][\A a \in Agents :
       Act /\ acting = a /\ ~alive[a] => Pending(a) \cup (inbox \cap Of(a)) = {}]_vars

\* "stop the run instead of waiting": without a grader the monitor stops.
DeadGraderStopsRun == ~grader ~> (grader \/ pc = "stopped")

\* Results that are complete reach the counters, also those of attempts that
\* were pending as the manager started, unless the run stops.
ResultsDelivered ==
  \A a \in Agents : \A n \in 1 .. Cardinality(Of(a)) :
    Cardinality(Completed(Of(a))) >= n ~> (count[a] >= n \/ pc = "stopped")

=============================================================================
