----------------------------- MODULE EohBudget -----------------------------
(***************************************************************************)
(* One EoH run under a budget of candidate evaluations, over the lives of  *)
(* its process: run_eoh (test_time_self_evolution/eoh/runner.py), the      *)
(* admission ledger and the trimming of batches (eoh/budget.py), and       *)
(* EohBenchmarkProblem.evaluate (eoh/problem_adapter.py).                  *)
(*                                                                         *)
(* The evolution loop, its thread pool and its checkpoint files belong to  *)
(* the upstream package, which is not in the repository; they are modelled *)
(* from what the patches in runner.py and its comments rely on.  A batch   *)
(* asks the model for up to PopSize programs on parallel threads.  The     *)
(* objective is minimised: a candidate beats the seed, or gets the         *)
(* sentinel of a failed evaluation; all that lies between is left out.     *)
(***************************************************************************)
EXTENDS Naturals, FiniteSets, Sequences

CONSTANTS
  Limit,      \* new_candidate_evaluations
  PopSize,    \* pop_size
  Operators,  \* number of ec_operators
  AskedNPop,  \* n_pop of the caller
  Workers,    \* exp_n_proc
  MaxLives    \* bound on the lives of the process (the model's)

ASSUME EohAssumption ==
  /\ {Limit, PopSize, Operators, Workers, MaxLives} \subseteq Nat \ {0}
  /\ AskedNPop \in Nat

Slots == 1 .. PopSize

Better == 0
SeedObjective == 1
Sentinel == 2
NoObjective == 3
Objectives == {Better, SeedObjective, Sentinel, NoObjective}

Least(m, n) == IF m <= n THEN m ELSE n

\* Mutant of Capacity: rounds down.
CapacityFloor ==
  LET required == IF Limit > PopSize - 1 THEN Limit - (PopSize - 1) ELSE 0
  IN  required \div (PopSize * Operators)

\* What `required` and math.ceil give: generations enough for the budget.
Capacity ==
  LET required == IF Limit > PopSize - 1 THEN Limit - (PopSize - 1) ELSE 0
      batch == PopSize * Operators
  IN  (required + batch - 1) \div batch

NPop == IF AskedNPop > Capacity THEN AskedNPop ELSE Capacity

VARIABLES
  \* files of the run
  submitted,  \* entries of candidate_budget.json
  claimed,    \* seed_oneshot/.claimed
  seedCached, \* metrics of the seed in eoh_eval_cache
  aborted,    \* credit-abort.json
  saved,      \* population_generation_<N>.json for N = 0, 1, ...: best
              \* objective, and the slots wasted up to it
  \* the process
  pc,         \* "down", "seeding", "loop", "batch", "done"
  ready,      \* seed_fitness_ready
  gen, op,    \* batch at hand: generation 0 is i1
  best,       \* best objective of the population
  at,         \* per slot of the batch: where its thread is
  offspring,  \* best objective of the batch
  row,        \* the ledger as read under the lock
  \* what happened
  lives,      \* processes started
  ran,        \* candidates executed, in all lives
  wasted,     \* slots that used no admission, but for the seed's own
  refused     \* admit has said no

files == <<submitted, claimed, seedCached, aborted, saved>>
process == <<pc, ready, gen, op, best, at, offspring, row>>
history == <<lives, ran, wasted, refused>>
vars == <<files, process, history>>

Idle == [s \in Slots |-> "off"]
Busy == {s \in Slots : at[s] \notin {"off", "wait", "over"}}

Init ==
  /\ submitted = 0 /\ saved = <<>>
  /\ claimed = FALSE /\ seedCached = FALSE /\ aborted = FALSE
  /\ pc = "down" /\ ready = FALSE /\ gen = 0 /\ op = 0
  /\ best = NoObjective /\ at = Idle /\ offspring = NoObjective /\ row = 0
  /\ lives = 0 /\ ran = 0 /\ wasted = 0 /\ refused = FALSE

\* The first life makes the ledger, the others are resumes: without --resume
\* an existing ledger stops the process before it does anything.
Resuming == lives > 1

-----------------------------------------------------------------------------
(* Start of a process. *)

Start ==
  /\ pc = "down" /\ lives < MaxLives
  /\ lives' = lives + 1
  /\ claimed' = FALSE
  /\ pc' = "seeding" /\ ready' = FALSE
  /\ UNCHANGED <<submitted, seedCached, aborted, saved, gen, op, best, at,
                 offspring, row, ran, wasted, refused>>

\* What comes before generation g: its first batch, or the end of the run,
\* which is an error if the credit was used up.
Following(g) ==
  IF g <= NPop THEN "loop" ELSE IF aborted THEN "down" ELSE "done"

\* The seed is evaluated before the population exists; a failure gives the
\* sentinel, and stops the run unless an earlier life left the metrics.
\* A resumed run goes on from the latest population, and has nothing left to
\* do if that is the last one.
EvaluateSeedFirst ==
  /\ pc = "seeding"
  /\ \E ok \in BOOLEAN : seedCached' = (seedCached \/ ok)
  /\ ready' = seedCached'
  /\ IF ~ seedCached' \/ (Resuming /\ saved = <<>>)
       THEN pc' = "down" /\ UNCHANGED <<gen, op, best, wasted>>
       ELSE IF Resuming
         THEN /\ gen' = Len(saved) /\ op' = 1
              /\ best' = saved[Len(saved)].best
              /\ wasted' = saved[Len(saved)].wasted
              /\ pc' = Following(gen')
         ELSE /\ gen' = 0 /\ op' = 0 /\ best' = NoObjective /\ wasted' = 0
              /\ pc' = "loop"
  /\ UNCHANGED <<submitted, claimed, aborted, saved, at, offspring, row,
                 lives, ran, refused>>

-----------------------------------------------------------------------------
(* Batches: get_algorithm as patch_batch_admission wraps it. *)

\* Mutant of BatchSize: room for the seed in every batch.
BatchSizeSeedAlways(remaining) ==
  IF remaining = 0 /\ gen # 0 THEN 0 ELSE Least(PopSize, remaining + 1)

\* Size of the next batch.  The first one holds the seed as well.
BatchSize(remaining) ==
  IF remaining = 0 /\ gen # 0 THEN 0
  ELSE Least(PopSize, remaining + (IF gen = 0 THEN 1 ELSE 0))

OpenBatch ==
  /\ pc = "loop"
  /\ at' = [s \in Slots |->
              IF s <= BatchSize(Limit - submitted) THEN "wait" ELSE "off"]
  /\ offspring' = NoObjective
  /\ pc' = "batch"
  /\ UNCHANGED <<files, ready, gen, op, best, row, history>>

\* The population keeps its best member; it is saved after the last operator
\* of a generation.  An empty population ends the process with an error.
CloseBatch ==
  /\ pc = "batch" /\ \A s \in Slots : at[s] \in {"off", "over"}
  /\ best' = Least(best, offspring)
  /\ at' = Idle
  /\ IF best' = NoObjective
       THEN pc' = "down" /\ UNCHANGED <<saved, gen, op>>
       ELSE IF gen # 0 /\ op < Operators
         THEN pc' = "loop" /\ op' = op + 1 /\ UNCHANGED <<saved, gen>>
         ELSE /\ saved' = Append(saved, [best |-> best', wasted |-> wasted])
              /\ gen' = gen + 1 /\ op' = 1
              /\ pc' = Following(gen')
  /\ UNCHANGED <<submitted, claimed, seedCached, aborted, ready, offspring,
                 row, history>>

-----------------------------------------------------------------------------
(* One slot of a batch: a thread that asks for a program and evaluates it. *)

Goto(s, where) == at' = [at EXCEPT ![s] = where]

Waste == wasted' = Least(Limit, wasted + 1)

\* Mutant of TakesSeed: a marker of an earlier run is not removed.
TakesSeedNever == gen = 0 /\ ~ claimed /\ lives = 0

\* The first i1 takes the seed program instead of an answer.
TakesSeed == gen = 0 /\ ~ claimed

\* After a credit error no call is made any more.
Ask(s) ==
  /\ at[s] = "wait" /\ Cardinality(Busy) < Workers
  /\ IF TakesSeed
       THEN claimed' = TRUE /\ Goto(s, "seed") /\ wasted' = wasted
       ELSE /\ claimed' = claimed
            /\ IF aborted THEN Goto(s, "over") /\ Waste
                          ELSE Goto(s, "asked") /\ wasted' = wasted
  /\ UNCHANGED <<submitted, seedCached, aborted, saved, pc, ready, gen, op,
                 best, offspring, row, lives, ran, refused>>

AnswerNew(s) ==
  /\ at[s] = "asked"
  /\ Goto(s, "new")
  /\ UNCHANGED <<files, pc, ready, gen, op, best, offspring, row, history>>

\* The answer is the seed again.
AnswerSeed(s) ==
  /\ at[s] = "asked"
  /\ Goto(s, "seed") /\ Waste
  /\ UNCHANGED <<files, pc, ready, gen, op, best, offspring, row, lives, ran,
                 refused>>

\* No answer: an error, perhaps that the credit is used up.  An answer that
\* is on its way to another thread still arrives.
AnswerFails(s) ==
  /\ at[s] = "asked"
  /\ Goto(s, "over") /\ Waste
  /\ aborted' \in {aborted, TRUE}
  /\ UNCHANGED <<submitted, claimed, seedCached, saved, pc, ready, gen, op,
                 best, offspring, row, lives, ran, refused>>

\* The seed needs no admission, and its score is read from the cache.
SeedFromCache == ready /\ seedCached

EvaluateSeed(s) ==
  /\ at[s] = "seed"
  /\ IF SeedFromCache
       THEN offspring' = Least(offspring, SeedObjective)
       ELSE \E o \in {SeedObjective, Sentinel} : offspring' = Least(offspring, o)
  /\ Goto(s, "over")
  /\ UNCHANGED <<files, pc, ready, gen, op, best, row, lives, ran, wasted,
                 refused>>

\* Mutant of Locked: no lock.
NotLocked == FALSE

\* The flock of candidate_budget.lock is the holder's until it has written.
Locked == \E s \in Slots : at[s] = "locked"

Lock(s) ==
  /\ at[s] = "new" /\ ~ Locked
  /\ Goto(s, "locked") /\ row' = submitted
  /\ UNCHANGED <<files, pc, ready, gen, op, best, offspring, history>>

Admit(s) ==
  /\ at[s] = "locked"
  /\ IF row >= Limit
       THEN /\ refused' = TRUE /\ Waste /\ Goto(s, "over")
            /\ submitted' = submitted
       ELSE /\ submitted' = row + 1 /\ Goto(s, "admitted")
            /\ UNCHANGED <<wasted, refused>>
  /\ UNCHANGED <<claimed, seedCached, aborted, saved, pc, ready, gen, op,
                 best, offspring, row, lives, ran>>

Execute(s) ==
  /\ at[s] = "admitted"
  /\ Goto(s, "running") /\ ran' = ran + 1
  /\ UNCHANGED <<files, pc, ready, gen, op, best, offspring, row, lives,
                 wasted, refused>>

\* A failed evaluation has the sentinel for its objective, not none.
ExecutionEnds(s) ==
  /\ at[s] = "running"
  /\ \E o \in {Better, Sentinel} : offspring' = Least(offspring, o)
  /\ Goto(s, "over")
  /\ UNCHANGED <<files, pc, ready, gen, op, best, row, history>>

SlotStep(s) ==
  \/ Ask(s) \/ AnswerNew(s) \/ AnswerSeed(s) \/ AnswerFails(s)
  \/ EvaluateSeed(s) \/ Lock(s) \/ Admit(s) \/ Execute(s) \/ ExecutionEnds(s)

-----------------------------------------------------------------------------
(* Kills, and the specification. *)

\* The process is killed; what it had in memory is gone, and so is its lock.
Crash ==
  /\ pc \notin {"down", "done"}
  /\ pc' = "down" /\ ready' = FALSE /\ at' = Idle
  /\ UNCHANGED <<files, gen, op, best, offspring, row, history>>

Next ==
  \/ Start \/ EvaluateSeedFirst \/ OpenBatch \/ CloseBatch \/ Crash
  \/ \E s \in Slots : SlotStep(s)

Spec == Init /\ [][Next]_vars

-----------------------------------------------------------------------------
(* Properties. *)

\* Types, for the ledger and the threads that use it.
TypeOK ==
  /\ submitted \in 0 .. Limit /\ row \in 0 .. Limit /\ ran \in Nat
  /\ {claimed, seedCached, aborted, ready, refused} \subseteq BOOLEAN
  /\ pc \in {"down", "seeding", "loop", "batch", "done"}
  /\ gen \in 0 .. NPop + 1 /\ op \in 0 .. Operators
  /\ best \in Objectives /\ offspring \in Objectives
  /\ at \in [Slots -> {"off", "wait", "asked", "seed", "new", "locked",
                       "admitted", "running", "over"}]
  /\ \A i \in 1 .. Len(saved) :
       saved[i] \in [best : Objectives, wasted : 0 .. Limit]
  /\ lives \in 0 .. MaxLives /\ wasted \in 0 .. Limit

\* Over all lives, no candidate is executed before the ledger has an entry
\* for it: threads and crashes lose no entry (budget.py: "Reserve before
\* execution; failures/interrupted evaluations count").
ReservedBeforeRun ==
  ran + Cardinality({s \in Slots : at[s] = "admitted"}) <= submitted

\* Trimming the batch is enough: admit never turns away a program that the
\* model has been paid for, whatever the threads, the failures, the answers
\* that repeat the seed, and the crashes before.
NeverRefused == ~ refused

\* A run that ends has spent its budget, but for slots that produced no new
\* program: the generations that run_eoh asks for are enough, also after a
\* resume that repeats part of one.
BudgetIsSpent == pc = "done" => Limit - submitted <= wasted

\* No saved population is worse than the seed, so none is empty and the
\* program selected at the end is at least as good.
NeverWorseThanSeed ==
  \A i \in 1 .. Len(saved) : saved[i].best <= SeedObjective

=============================================================================
