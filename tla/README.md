# A verification project for FrontierOR

FrontierOR evaluates programs that language models write for operations
research problems. Untrusted agents and search frameworks propose candidate
programs; trusted host code admits them, runs them in a sandbox under limits
that many processes share, scores what they return, and records the outcome in
files that have to survive crashes. This directory holds TLA+ models of the
parts that coordinate threads, processes and files, the TLC runs that check them
on small instances, and theorems that TLAPS checks for every instance.

Source paths below are relative to `src/`. `PROJECT.json` maps each definition
to the lines it models, lists the hazards line by line, and pairs each property
with a mutation of the code that breaks it. The mutants are kept next to the
definitions they mutate and begin with the comment "Mutant".

    tlc -workers 2 -config EvalBroker_run.cfg MC_EvalBroker
    tlapm EvalBrokerProofs.tla

## 1. The system

### Components

| component | source | state it keeps | operations | talks to | modelled |
|---|---|---|---|---|---|
| Evaluation broker and shim | `trusted_eval_infra/agent/broker.py`, `submit.py` | inbox, attempts, responses, audit and archive: files | submit, wait, drain | supervisor, grader, agents | `EvalBroker` |
| Debug executions | `agent/debug.py` | records on disk, futures in memory | submit, poll, close | broker's drain, shim | `DebugRunner` |
| Pending-aware scheduling | `agent/scheduling.py` | seen attempts, counters, deferred heartbeats | scan, filter, restart, heartbeat | CORAL's monitor loop, broker's files | `PendingMonitor` |
| CORAL run supervisor | `test_time_self_evolution/coral/runner.py` | loop, deadline, progress guard, CORAL process | drain, poll, stop, audit | broker, debug runner, CORAL, agent runtime | `AgentRun`; its steps within a drain in `EvalBroker` and `DebugRunner` |
| CPU leases | `trusted_eval_infra/cpu_slots.py` | one lock file per CPU | reserve, release | every execution on the host | `CpuLeases` |
| WLS license slots | `trusted_eval_infra/execution.py` 139-287, `wls_gate.py` | slot, identity and admission files | admit, run, cool down | license server, CPU leases | `WlsSlots` |
| Candidate execution | `execution.py` | containers, networks, volumes | start, kill, clean up | docker, both of the above | `CandidateSandbox` (docker backend) |
| Live evaluation watchdog | `agent/live_eval_watchdog.py` | held coordinators | stop, continue, release | grading coordinators | `LiveEvalWatchdog` |
| EoH search | `test_time_self_evolution/eoh/` | evaluation budget, checkpoints | admit, evaluate, resume | model, evaluator | `EohBudget` |
| One-shot pipeline | `one_shot_eval.py` 1900-2957 | code, attempt files, result rows | gate, debug, correct, flush | model, CSV files | `OneShotRun` |
| Results and cost CSV | `one_shot_eval.py` 2226-2425 | one file each, two locks | replace, add, read | threads of several processes | `ResultsCsv` |
| Agent runtime | `agent/runtime.py`, `container_handle.py`, `process_control.py`, `startup_cleanup.py` | container, networks, proxies, activity audit | start, stop, finalize | docker, supervisor | `AgentRuntime` |
| Grading lifecycle | `agent/grader.py`, `grading_lifecycle.py` | environment of the process, checkout's containers | grade, clean up | evaluator, docker | `Grading` |
| OpenEvolve evaluation | `test_time_self_evolution/openevolve/`, `seed_fitness.py` | evidence records, seed cache | evaluate in stages, abort | execution | isolated evaluation and seed cache in `Grading`, `SeedMemo` |
| Tide bridge | `tide_eval_driver.py`, `tide_eval_worker.py` | worker process, result envelope | execute with a deadline | a framework's runner | not yet |
| Model and egress proxies | `agent/model_proxy.py`, `egress_proxy.py`, `wls_proxy.py` | call records | forward | agents, network | no |
| Scoring | `test_time_self_evolution/scoring/` | none | pure functions | evaluator | not yet |
| Submission bundles, policies, checkers, command lines, scripts | the rest of `trusted_eval_infra/`, `scripts/`, `frontieror_task_builder/` | files of one process | validate, package, report | users | no |
| Docker subnets | `docker_networks.py` | docker's networks | create | docker | one command of `CandidateSandbox` and `AgentRuntime` |
| Seed programs, tasks, artifacts | `eval/`, `samples/`, `artifact/`, `configs/` | data | - | - | no |

### How they interact

An agent commits a candidate and leaves a request file (`submit.py`). The
supervisor's loop (`runner.py`, `run_coral_until_done`) calls the broker's drain
about once a second; the drain turns an admissible request into a pending
attempt file, and an inadmissible one into a refusal, and hands debug requests
to `DebugRunner`. CORAL's grader, watched by the live evaluation watchdog, picks
up pending attempts, runs the candidate under a license slot, and within that
under a CPU lease, and completes the attempt file. CORAL's monitor loop, inside
the guards of `scheduling.py`, sees completed attempts and starts or interrupts
the agents' sessions. The one-shot pipeline and EoH run candidates through the
same execution layer and keep their own budgets, checkpoints and tables.

Nothing but files, locks and signals connects these processes, and each of them
can be killed. That is where the hard behaviours are:

* *Files written one after the other.* A crash leaves a prefix, and the next
  life starts from it (broker, debug records, EoH checkpoints, result rows, slot
  files, `held.json`).
* *Counts and states that are read once and used later*, while others change
  them (the broker's counts of a drain, the license server's view, the
  watchdog's ages, the monitor's scan).
* *Locks that die with their owner* while what they protected lives on (leases
  and slots, whose candidates run in sessions and containers of their own).
* *Limits used to the last unit*: attempts, debug runs, license environments,
  evaluations, corrections.
* *Docker objects made one command at a time* and removed in reverse, by a
  process that may fail or die at any of them (sandbox, agent runtime).
* *Somebody who waits*: a shim for an answer, a call for a slot, a stopped
  coordinator for its SIGCONT, a session for a score.

### What makes the components correct

* Broker: the budget is never exceeded, an agent has one evaluation pending, a
  commit is attempted once, no request is lost, an answer never precedes what it
  announces, and whoever waits is answered.
* Debug runner: the quota survives restarts, what was admitted is answered.
* Scheduling: each result counts once, in order, also after a resume; a heartbeat
  is given at most once, and while a manager runs none that is due is dropped; no
  restart comes over an evaluation that was pending at the look; the loop does
  not wait for a dead grader.
* CPU leases: candidates share no CPU; a request is granted whole or not at all.
* License slots: the license is never oversubscribed although its server is
  slow; a slot stays reserved until the token of its candidate has expired, and
  that of a lost candidate for as long as its call reserved.
* Watchdog: no coordinator stands still unknown to it or for longer than it has
  to, and none abandons a worker early that it was found in time for.
* EoH: a candidate is paid for before it runs, nothing that was paid for is
  refused, the budget is used, and the result is no worse than the seed.
* One-shot pipeline: the gate comes first, budgets are used before a failure is
  accepted, recorded results are left alone.
* CSV: a rewrite is atomic, and a key has one row.
* Sandbox: an execution that returned has removed what it made; CPUs and slots
  are given back when the candidate is gone.
* Seed cache: the seed is executed once per stage however many runs share it,
  and all of them get one score.
* Agent runtime and supervisor: an agent has one live session, a run is given up
  for a true reason, ends, and leaves no process, container or network.

## 2. Modules

`MC_M.tla` gives the constants of `M` values for TLC; `MProofs.tla` holds
theorems about `M`. Some proof modules are about two components: `EvalBrokerProofs`
also about `DebugRunner`, `CpuLeasesProofs` about `WlsSlots`, `OneShotRunProofs`
about `ResultsCsv`, `GradingProofs` about `CandidateSandbox`, `AgentRunProofs` about
`AgentRuntime`. They extend both, and for that the specifications of `DebugRunner`,
`ResultsCsv` and `WlsSlots` have names with a prefix (`DebugSpec`, `CsvSpec`,
`WlsSpec`, and so on). Each specification declares its constants with a named
assumption and writes every operation of the code as an action of its own;
`Spec` is without fairness, `FairSpec` (`FairDebugSpec`, `FairCsvSpec`,
`FairWlsSpec`) adds what is needed for liveness.

### EvalBroker, EvalLedger

`EvalLedger` is the abstract service: `Admit` opens an attempt within the budget,
for an agent that has none pending, and `Finalize` grades it, once. `EvalBroker`
has the files of the run directory as variables (`status`/`owner` for
`attempts/`, `inbox`, `responses`, `audit`, `archive`), the branch heads, the
memory of a drain (`batch`, `cur`, `decision`, `accepted`), and the shims.

| action | code |
|---|---|
| `SubmitStart`, `Commit`, `Enqueue` | `submit.py` `_submit`, `_commit` |
| `PollResponse`, `PollResult`, `GiveUp` | `_wait_for_result`, its redirection to a commit that is being evaluated included |
| `Kill` | the death of a shim: its request stays in the inbox, and its agent may ask again beside it |
| `DrainStart`, `PickRequest`, `Decide` | listing, reading and judging requests; the counts are those at the start of the drain |
| `WriteAttempt`, `WriteResponse`, `AppendAudit`, `WriteArchive`, `Unlink` | the five effects of a request, in the order of `broker.py` 250-284 |
| `LoopEnd`, `StopRun`, `Crash`, `Resume` | the supervisor; a crash may come between any two writes |
| `Grade` | CORAL's daemon (external) |

`creator` and `interrupted` are history variables: the request an attempt was made
for, and the requests that had left a trace on disk, and were not done with, when
a supervisor died (`HalfHandled`).

### DebugRunner

Requests, record files and response files on disk, futures in memory. `Collect`
and `Publish` are the two writes of `poll`, `Admit`, `Queue`, `Respond` and
`Unlink` those of `submit` and of the drain around it; `poll` precedes `submit`
as in the code. `Execute`/`ExecutionEnds` is the pool's one worker, which may
raise. `Close` cancels, waits and polls once more. A crash empties the futures.

### PendingMonitor

`scheduling.py` wraps functions of CORAL's manager, which is not in the
repository: `Count`, `PassEnds` and the order of a pass are external, as
`tests/coral_monitor_probe` uses them. `Scan` and `Deliver` hand over one
completed result per look, `Restore`/`InitialScan` rebuild the counters of a
resumed manager (`Replay` is their loop over an agent's history), `LookAfter`
decides on a session that another action, `Act`, then starts, `Heartbeat` gives or
defers. A manager that ends takes its deferred heartbeats with it, and the next
one has none (`deferred`). `told` counts the heartbeats that any manager has given,
`missed` those that were due and not given when the present one took up the count,
and `looked` is what it saw when it decided: history, which no guard reads.

### CpuLeases, CpuAllocator

`CpuAllocator` grants a set of CPUs at once and takes it back at once.
`CpuLeases` tries one lock file per step (`TryCpu`), gives back what an
unsuccessful pass collected file by file (`Drop`), sleeps and retries until the
deadline (`MaxPasses`), and releases file by file. `Kill` closes all files at
once, as the kernel does, and leaves the candidate running; `Abandon` and
`FinishAlive` are executions that give up their CPUs with the candidate alive,
because docker did not remove it. `StrayEnds` ends such candidates, or nothing
does. `Granted` is the
refinement mapping: what a caller holds while it is between the grant and the
first close.

### WlsSlots

One action per step of `_wls_execution_slot`: lock a slot, look at its stamp,
take the admission lock, look at the other slots (`ReadIdentity`, `Probe`,
`TryOther`, `Reread`: a read of the host name, of the stamp, an attempt at the
lock, a second read), ask the server, truncate, write the stamp and the
identity, wait for a CPU, run, truncate, write the cooldown, unlock. `Tick` is
time: deadlines and stamps are the time left. `Appear` is the moment at which
the server shows an environment. `gated` says which calls ask the server and
does not change. `KillCall` and `ReturnsAnyway` lose the candidate, which no
process then stops at its time limit: it runs on for as long as it likes. `owed`
is a history variable: how long the call had the slot reserved for it, or what
it left on return.

### LiveEvalWatchdog

A pass over the manifest in the steps in which the code reads and acts: `Look`,
`ReadChildren`, `Due`/`Continue`/`Pop` or `Hold`/`Record`, and `Save` of the file;
`DockerFails` is the exception that ends `main`, `Terminate` the signal, `Kill`
SIGKILL, and `Release` a run of `--release` after the end. The watchdog starts over
coordinators with running workers of any age. They start, join and abandon workers
on their own, and time passes in `Tick`, of which a pass takes at most `PassTicks`.
`late` is a history variable: the coordinators found with a worker that the first
pass may be too slow for.

### EohBudget

Lives of a process: `Start`, `EvaluateSeedFirst`, then batches of slots on
`Workers` threads. `OpenBatch` is the trimming of `budget.py` 68-81, `Lock` and
`Admit` its ledger, `TakesSeed` the claim of the seed in the first batch. Answers
of the model are new programs, the seed again, or failures, one of which is the
credit error that stops the run. `CloseBatch` selects and saves (external).

### OneShotRun

Invocations that share `code.py`, the attempt files and the rows. `Start` counts
earlier attempts and freezes rows, `PreJudge` looks at the gate's old row,
`RunGate`, `Phase0Debug`, `Phase1Correct`, `RunOthers`, `Phase2Debug` and
`Phase2Correct` are the phases, `GateFails`/`GatePasses` the decision, `Flush`
writes rows one by one. Results are five outcomes told apart by what the flow
does with them.

### ResultsCsv, RowTable

`RowTable` is a table with `Read`, `Write` and `Lose`. `ResultsCsv` takes the
lock of the module and the flock, loads, truncates, writes row after row and
closes; `KillProcess` stops all threads of a process, and `CallRaises` is an
exception under the locks, which closes the file as it is. `Accumulate` chooses
between the file of results and the one of costs. While a writer rewrites the
file, the table is what it has read.

### CandidateSandbox, Grading, SeedMemo

`CandidateSandbox` is `run_docker` as a sequence of docker commands: lease,
egress network, proxy, attachment, readiness, output volume and its holder,
candidate, the wait with its time limit, two attempts to remove a candidate that
overran it, export, and the contexts left inside out. `made` is what the context
managers will remove, `objects` what docker has. A command fails without effect
(`SetupFails`, or a removal that leaves its object) or after it; `Killed` ends
the caller at any step and `OrphanExits` what it leaves.

`Grading` runs a sandbox per stage of an evaluation. `Begin`, `Acquire`, `Hit`,
`Miss`, `Execute`, `Judge`, `Raise`, `Store` and `Complete` are
`isolated_evaluation` with the seed cache under its flock; the seeds are those
of two runs. For an attempt of CORAL, `GradeNext`, `WorkerReturns`,
`GradingTimesOut` and `CleanupCheckout` are the coordinator that joins the
worker, kills it, and cleans up its checkout. `SeedMemo` is the cache as its
users see it: a score per stage that is filled once and answered from then on.

### AgentRuntime, AgentRun

`AgentRuntime` has the docker objects of a run (`docker`), which outlive the
process that made them, and what that process remembers (`prepared`, `handle`,
`session`). The manager starts a session step by step: `EnsureEgress` and
`ConnectEgress` find or make network and proxy by name, `EnsureModelProxy` and
`EnsureSharedContainer` replace whatever they have not made themselves,
`RecordStart` counts, `Exec` starts. `CleanHandle` kills what a handle whose
`docker exec` has ended may have left, `Remove` is one command of
`cleanup_secure_runtime`.

`AgentRun` extends it with the supervisor: `Drain`, `Look`, `Progress` (the
guard against sessions that submit nothing, with the two reads it makes),
`PollCoral`, `TimeUp` and `LoopRaises` give the run up; `Mark`, `Close`, `Stop`,
`Audit` and `Cleanup` take it down. What `Open`, `Mark`, `Close` and `Stop`
raise is not caught (`Aborts`): the run ends there, with its outcome "aborted".
CORAL exits, fails or hangs on its own; `Killed` stops the service with
supervisor and CORAL at any step and starts it again to resume the run.
`changedAt` is a history variable: the sessions counted when an attempt was last
admitted or finalized.

### Composition

`EvalBroker` composes shims, drain, supervisor and grader; `PendingMonitor` has
the broker's admissions as an action (`Admit`); `WlsSlots` contains the wait for
a CPU lease as a bounded delay, which is what `CpuLeases` promises with its
timeout; a wait may be longer than what a slot's reservation adds. `OneShotRun`
writes a row in one step, which is what `ResultsCsv` proves of the two locks.
`Grading` composes evaluations, their cache and the sandboxes they run in, and
`RunsSandboxes` proves that nothing it does escapes `SandboxSpec`. `AgentRun`
composes supervisor, runtime and attempts; the drain in it is one step per
request, which `BrokerImplementsLedger` justifies, and what the debug host does
while it closes is left to `DebugRunner`.

## 3. Runs

Twelve runs; states are distinct states.

| run | instance | states | question |
|---|---|---|---|
| `EvalBroker_run` | 2 agents, seed and one commit, 2 requests, budget 2, 1 resume, fair | 501 k | after a crash at any write, and kills of shims: `NoRequestLost`, `WaitsForOwn`, `RejectedConsumesNothing`, the refinement `LedgerSpec`, and `RequestsAreAnswered`, `ShimsReturn` |
| `CpuLeases_calls` | 3 callers, 3 CPUs, needs 2, 2 and 1, 1 caller that is killed or cannot remove its candidate | 756 k | the refinement `AllocatorSpec` |
| `WlsSlots_calls` | 2 calls, 2 slots, license for 1, one call without a host name, 1 lost candidate, a wait for CPUs longer than its allowance, any calls gated, fair | 260 k | `TokensFitLicense`, `CompletedRunsStayReserved`, `ConcurrencyRespected`, `KilledRunsStayReserved`, `CallsReturn` |
| `DebugRunner_requests` | 4 requests, 1 invalid, quota 2, 1 crash, fair | 127 k | `QuotaRespected`, `RequestsAnswered` |
| `PendingMonitor_run` | 2 agents, 3 commits, heartbeat every 2, 1 resume, fair | 296 k | `CountersMatchHistory`, `HeartbeatsKept`, `NoRestartOverPending`, `DeadGraderStopsRun`, `ResultsDelivered` |
| `AgentRun_run` | 1 agent, 3 sessions, 2 attempts, guard of 2 sessions, 1 docker failure or exception, 1 kill, fair | 581 k | `OneSessionPerAgent`, `RunLeavesNothing`, `OnlyStalledRunsStop`, `RunEnds` |
| `Grading_runs` | two runs that share a seed, 1 kill, or an attempt of CORAL; 2 docker failures, fair | 156 k | `NothingLeft`, `CandidateGoneFirst`, `SeedRunsOnce`, the refinement `MemoSpec`, `EvaluationsEnd` |
| `Grading_timeout` | the same, without failures and kills | - | violates `GradingLeavesNoCandidate` (section 5) |
| `EohBudget_lives` | budget 7, batches of 3, 2 threads, 2 lives | 242 k | `ReservedBeforeRun`, `NeverRefused`, `BudgetIsSpent`, `NeverWorseThanSeed` |
| `OneShotRun_lives` | gate and two large instances, or one alone, budgets 1 and 1, 2 lives | 405 k | `GivesUpWhenSpent`, `GateRowsAgree`, `RecordedIsFrozen` |
| `ResultsCsv_rows` | 3 threads of 2 processes, 2 keys, 1 kill or exception, fair | 103 k | `Atomic`, `CallsReturn` |
| `LiveEvalWatchdog_run` | 2 coordinators, found with workers or without, 2 workers in all, fair | 575 k | `StoppedIsHeld`, `NoEarlyAbandon`, `StoppedResumes` |

Five more invariants and action properties are proved for all constants
(section 4) and not repeated in a run: `BudgetRespected`,
`AcceptedOncePerCommit`, `CandidatesApart`, `CloseAnswers` and
`ContinuedWhenDue`; so is `OneRowPerKey`.

### Why these bounds

* Broker: two requests are those of two agents, which meet at the seed commit and
  in one drain, or of one agent, one of its shims killed: then the second is refused
  for the pending first and redirected to it. A crash and a resume replay either.
  A budget of two lets both be admitted, and the theorems have every other budget; a
  third life adds nothing, since a resumed drain knows nothing of the life before.
* Leases: two callers that each need two of three CPUs block each other half
  way; the third competes for the CPU that decides. One lost candidate is enough
  for its CPUs to be leased again beside it.
* Slots: the second call for a license of one meets the first, with or without a
  host name, at each step of its admission, while it is visible or not, and in
  its cooldown. `MaxCpuWait = 3` exceeds what a reservation has beside the
  execution (`Slack + ReleaseDelay = 2`), as a busy host's wait may. Three calls
  on three slots for a license of two, the smallest case in which environments
  and reservations add up, were explored too, without lost candidates (5.1 M
  states, no error).
* Debug runner: two admissible requests fill the quota, a third meets it full,
  the fourth is malformed.
* Monitor: one agent has two results, so that both can complete between two
  looks and make a heartbeat due; another agent's result lies between them.
* EoH: seven evaluations are a seeded first batch and two generations, the last
  trimmed; three slots on two threads let one thread wait for the ledger.
* One-shot: `FirstLarge` alone makes a list in which a large instance is the
  gate; two invocations meet each other's rows. Three invocations of lists of
  two, with both reusing modes, were also explored (712 k states, no error).
* CSV: two threads share the module's lock, and one of another process meets
  only the flock.
* Sandbox and grading: two docker failures are what it takes to leave a
  candidate beside a free CPU (a client that is cut off and a removal that fails),
  and a third changes nothing new. The second run of the shared seed has neither
  network nor volume, to keep the instance small; the first and the attempt have
  both.
* Agent run: three sessions let the guard's count pass its limit of two after an
  attempt has been admitted; one failure and one kill meet every step of setup and
  cleanup, and each other. Two agents were explored with the same bounds, safety
  only (11.5 M states, no error), and with liveness for two sessions and one
  attempt (1.0 M states).
* CSV and leases have a bound on losses (`MaxLosses`, `MaxFaults`, `MaxLost`) of
  one: each loss frees what the next would have to hold.
* Watchdog: a tick is about 40 s; the window of 120 s is three ticks, a pass
  one. `MaxAge` is past the last time that is told apart, `New + Grace`. A worker
  found running is any age up to the old timeout. The total of workers is two,
  but for those found running: in one coordinator one after the other, or
  in both at once, so that a pass over the one delays the other.

### Fairness and why the code justifies it

* `EvalBroker`: weak fairness of the supervisor's steps (a loop in one process),
  of the grader per commit (each grading has its own timeout), and of a polling
  shim (a loop with a sleep). Nobody has to submit, crash or resume, and the
  properties excuse a run that has ended.
* `WlsSlots`: weak fairness of time, and of each call's process, which stops its
  candidate at its limit with a timeout. A lost candidate need not end. The
  appearance of a session on the server is not fair.
* `DebugRunner`: the host's loop and the pool's worker.
* `PendingMonitor`: only the monitor's thread; the grader may die or be slow.
* `ResultsCsv`: weak fairness per thread. An flock is not a queue, but a thread
  makes finitely many calls (`MaxCalls` here, the instances of a run in the
  code), so that the lock is free for good at last.
* `LiveEvalWatchdog`: the watchdog's steps and time.
* `Grading`: each evaluating process goes on, because every docker command and
  every execution has a time limit; a coordinator joins its worker with a
  timeout. Killed processes do not, and the kernel frees their lock.
* `AgentRun`: weak fairness of the supervisor's loop and of its way down, and
  strong fairness of the deadline, which is only looked at between two rounds:
  the loop comes by again and again, and time does not stop. CORAL, its grader
  and the agents may hang.

`CHECK_DEADLOCK FALSE` is set where the program really stops: the debug runner
after `close`, the monitor after `stop`, EoH and one-shot after their last life,
CSV after the last call, the watchdog when it has ended, and the supervised run
when it is over.

## 4. Theorems

All are proved for every value of the constants that the named assumptions of
the modules allow. Four depend on a relation between constants that the code does
not enforce; it is a hypothesis of the theorem, named and commented in its module,
and without it TLC finds the property violated:

| hypothesis | where it comes from | without it |
|---|---|---|
| `TokensCovered`: a token outlives its candidate by no more than the cooldown | the cooldown is at least 310 s with the gate (`execution.py` 178); the life of a token is the license server's | `WlsSlots_calls` with `TokenLife = 2`: a slot is free while its last token is not, and the license is exceeded |
| `TinyIsAsked`: a list of instances has the tiny one, or is the first large one alone | so are the default and the documented lists (`one_shot_eval.py` 12, 3136); others are not refused | with lists of two large instances only, the first gates the second, and its row says that the gate failed while the tiny one has no row |
| `LongEnough`: the old timeout exceeds the window by at least a pass | the timeouts are those of the watchdog's manifest, minutes against a window of 120 s | `Old = 3`, `New = 5`, `Early = 3`: a worker that starts just after a look is too old at the next |

| theorem | says |
|---|---|
| `EvalBrokerProofs!TypeCorrect` | `Spec => []TypeOK` |
| `BudgetAndSinglePending` | the budget holds, and no agent has two pending evaluations |
| `RecordsAgree` | no request is lost, no commit is accepted twice, and no answer precedes its attempt |
| `BrokerImplementsLedger` | `Spec => LedgerSpec`: every step is a step of `EvalLedger` or a stutter |
| `NeverRewritten` | no attempt is withdrawn, moved or regraded |
| `CpuLeasesProofs!LeasesIdle` | a caller that sleeps, has returned or is dead has no lock |
| `CandidatesNeverShare` | candidates of executions that go on share no CPU |
| `LeasesImplementAllocator` | `Spec => AllocatorSpec` |
| `LicenseIsKept` | `TokensCovered => (WlsSpec => []TokensFitLicense)`: calls through the gate never put more tokens on the license than it allows |
| `CooldownsAreKept` | `TokensCovered => ...`: a slot stays reserved until the token of the run that has left it expires |
| `SlotsAreExclusive` | no two candidates run on one slot, until one that its call has lost outlives what the call reserved |
| `KilledKeepSlots` | the slot of a candidate, also of a lost one, stays reserved for the time that its call reserved or left, however long the wait for a CPU was |
| `EvalBrokerProofs!WaitingIsOwn` | the record a shim waits for is its own agent's, after any redirections, kills and resumes, unless it is the seed's |
| `RefusalsAreFree` | over any number of resumes, no attempt comes from a refused request, but for those that a supervisor had half handled when it died |
| `QuotaHolds` | the debug requests on record never exceed the quota, whatever crashes |
| `CloseLeavesNothing` | an orderly close has answered every request it admitted |
| `PendingMonitorProofs!HeartbeatsReachAgents` | while a manager runs, a heartbeat that comes due is given or kept for the next session; over all managers none is given twice |
| `CountersAreHistory` | counter, best score and plateau are those of the results seen, in order of submission, for replayed and for counted histories |
| `RestartsWaitForPending` | no restart, and no interrupt for silence, comes over an evaluation that was on record at the look and is still pending |
| `EohBudgetProofs!TypeCorrect` | the types, with the sequence of generations |
| `EntriesCoverRuns` | every execution has an entry of its own in the ledger |
| `TrimmingIsEnough` | `admit` never refuses a paid program |
| `BudgetEnds` | a run that has ended by itself has nothing unspent, over any number of lives |
| `SeedIsKept` | the best program of an ended run is no worse than the seed |
| `OneShotRunProofs!GivesUpOnlyWhenSpent` | an invocation accepts a failure only with the budget for it spent |
| `FrozenRowsStay` | rows that an invocation has frozen are neither run again nor written |
| `GateRows` | `TinyIsAsked => ...`: rows say that the gate failed only beside a gate that did |
| `RewriteIsAtomic` | the file under its locks is a table, for results and for costs |
| `KeysStayDistinct` | one thread is inside, and no key has two rows |
| `GradingProofs!ReturnsClean` | an execution that returned has left nothing, unless docker failed at it |
| `LeaseOutlivesCandidate` | no candidate runs on after its lease, unless the caller was killed or docker failed twice |
| `RunsSandboxes` | evaluations and gradings do to their sandboxes only what `SandboxSpec` allows |
| `EvaluationsLeaveNothing` | both of the above, for evaluations |
| `CacheIsMemo` | `Spec => MemoSpec`: the locked cache with killed processes is the abstract memo |
| `SeedExecutedOnce` | without kills, one evaluation of a stage at most executes the seed and does not fail |
| `AgentRunProofs!RunKeepsOneSession` | an agent never has two sessions with processes, across cut-off clients, dead containers and resumed runs |
| `RunCleansUp` | a supervisor that has ended, and raised nothing on its way down, leaves nothing that docker has not just failed to remove |
| `StopsOnlyWhenStalled` | a run is given up for want of submissions only after that many sessions without any |
| `LiveEvalWatchdogProofs!NoneForgotten` | who stands still is known to the watchdog while it is up, and in its file once it has ended or was killed, but for the one just stopped |
| `ContinuedOnlyWhenDue` | while the watchdog is up, a coordinator is continued only when due |
| `NoneAbandonedEarly` | `LongEnough => ...`: no coordinator gives up a worker before the new timeout, while the watchdog is up, unless it was found with one less than a pass from the old |

The arguments:

* *Broker.* A decision is taken in `Decide` and acted upon one or more steps
  later, so budget and single pending are not inductive. The invariant carries
  what `Decide` has checked up to `WriteAttempt`: the remembered count is the
  number of attempts, the commit has none, the agent has none pending. It is
  stable because only the drain makes attempts and the grader only ends pending
  ones. The refinement then has one interesting step, `WriteAttempt`, at which
  exactly these facts are the guard of `Admit`. `RecordsAgree` adds the order of
  the writes: a request that has left the inbox has its archive copy, an archive
  copy its audit line, an audit line its answer, with a case for the request in
  hand in which each is still missing.
* *Leases.* `held` and `lock` describe the same thing from two sides
  (`HeldIsLocked`), and a phase fixes what may be held (`HeldByPhase`): nothing
  when idle, waiting or dead, exactly `Need` when leased, and the candidate's
  CPUs when running. Sharing a CPU would then give one lock two holders.
* *Waiting and refusals.* `OwnInv`: agents' branches share only the seed, and a
  request, an attempt and a redirection name a commit on the branch of their agent,
  each because of the one before. `RefusalInv` follows the request that an attempt
  came from: it is in hand with its acceptance, or has left the inbox with accepting
  answers only, or a supervisor died with it in hand. Only the last can be refused
  by a resumed drain, which is the divergence of section 5.
* *License slots.* Locks say who may look at a slot, but a slot is handed over
  by the time in its file. `SlotLockInv` has the locks. `OwedInv` weighs a stamp
  against what a call has reserved: from its write to the end of that time the
  stamp has as much left, and nobody else has found the slot free, whether the
  call lives or not. `CoolingInv` does the same for a completed call and its
  token. `LicenseInv` is a count: the environments shown by the server and the
  reservations found in the other slots account for every call admitted before
  (`Probed`, `StampOwn`), because each has a slot of its own (`OneSlotEach`) and
  is either shown, or stands in a slot that is still to be probed or on the
  list. The admission lock keeps others from being admitted between the probe
  and the decision, so the sum fits the license (`Fits`).
* *Debug.* The quota counts records, so it needs that whatever the host collects
  or queues has a record of its own (`DbgRecordInv`): then only `Admit` adds
  one, and it has counted before. An answered close needs the way of a request
  from the inbox to its response (`DbgAnswerInv`), which holds until the first
  crash: a request on record has been answered, is pending, or is about to be
  queued.
* *EoH.* `ReservedBeforeRun` follows from the flock: what the holder has read is
  current. `NeverRefused` is a count of threads: at any time those that may
  still come to ask (`Hopeful`) fit into what is left. The seed makes the first
  batch one larger than the budget; the claim of the seed takes one thread out
  of the count before any can be refused. `RunInv` follows a run over generations
  and lives: what is unspent never exceeds the threads of the batch at hand and the
  slots of the batches to come (`SpentInv`), also counted from what was saved last
  (`SavedInv`), so that when the last generation is over nothing is left; and the
  seed is in the first batch, taken by one of its threads (`SeedInv`).
* *Monitor.* `FinishedInv` and `CountInv` make counting exact: a scan that finds
  results finds an oldest one, and it is counted as it is taken for seen.
  `LoopInv` carries what `LookAfter` has read to `Act`. Scores need an order: an
  agent has one evaluation pending, so its attempts are in one order on record,
  in completion and in what has been seen (`OrderInv`). `CountersMatchHistory`
  says what best score and plateau *are* for a set of results, without a loop;
  one lemma (`OneMoreMatches`) shows that a step of the code's loop keeps it,
  and is used for each delivery and in the induction over the replay
  (`ReplayMatches`).
* *One-shot flow.* `Setup`: whatever an invocation runs or writes is among its live
  instances, and frozen ones are not. `Stages`: what is known at each place of the
  flow, in which phases the gate is ahead and behind, and that only results that
  exist are written. `GateInv` adds what rows say of the gate: until it is decided
  there are none of this invocation, and rows that say it failed follow its own.
* *CSV.* Mutual exclusion (`OneInside`), and what a phase of the holder says of
  the file: unchanged until it is truncated, then a part of what is kept. The
  table changes when the writer closes the file, or is killed.
* *Sandbox.* What exists is not what will be removed: a context is entered after
  its command, and a failed command may have had its effect. `Tidy` relates the
  two at every step of the execution: unless docker broke an object or the caller
  was killed, what exists is listed in `made` (`Owned`); what is listed depends on
  the step alone (`Contexts`); and a candidate that exists after its own steps has
  cost two failures (`Outlived`). A call's steps touch no other call, so each is
  proved for one.
* *Seed cache.* `CacheInv` says whose score the entry holds and for how long: an
  evaluation between its lock and its release has the entry to itself, and what
  it judged or read is the entry once it is stored (`EntryInv`); what is
  completed agrees with it for good (`DoneInv`). `ExecutedInv` adds, without
  kills, that whoever has executed a stage is under way in it or has completed it,
  and that there is one such evaluation.
* *Agent run.* Three invariants that do not need each other. `SessionInv`: once
  a manager has made the container of the agents, whatever runs in it is the
  current session of an agent with a handle; before that, or after a resume, the
  container is foreign and is replaced before a session starts, so that the one
  that starts meets no other of its agent. `CleanupInv`: unless the way down was
  cut short, CORAL, the only one to make objects, is down before the first is
  removed, so that each command finds gone what those before it have removed,
  and the network is removed last, when nothing is attached. `ProgressInv`:
  pending attempts only grow until one is finalized, hence a signature that is
  seen again means that nothing has changed since the baseline was read
  (`SeenIsPast`, `SeenIsCurrent`), and what changes between the two reads counts
  from the first.
* *Watchdog.* It acts on what it has read of a worker some steps before. That is
  not stale in a way that matters (`SnapInv`): a coordinator that stands still
  starts no other worker, an exit is final, and a worker only grows older.
  `RowInv` says what has become of the row in hand at each place of the loop.
  In the file, `Save` may be missing for the row in hand, and for no other; hence a
  killed watchdog leaves one coordinator at most that the file does not name.
  `AgeInv` bounds the age of a worker by the time since it was looked at: a pass
  looks at everyone, and a worker too young then cannot reach the old timeout
  before the next look; one that nobody has looked at yet is reached by the
  first pass, or is `late`.

Induction. The library's induction theorems take a predicate as a parameter, which
the provers cannot instantiate. `PendingMonitorProofs` proves the one it needs for
a *set* of numbers (`AllNumbers`), from the library's `WFMin`, and with it that the
recursive function in `Replay` exists (`ReplayStates`) and what it computes.

What stays with TLC: liveness under fairness, that is `RequestsAreAnswered`,
`ShimsReturn`, `CallsReturn`, `RequestsAnswered`, `DeadGraderStopsRun`,
`ResultsDelivered`, `StoppedResumes`, `EvaluationsEnd` and `RunEnds`. Every
invariant, action property and refinement of a passing run is a theorem. All
inductive invariants were checked by TLC before they were proved, with the
constants of the component's run, `LicenseInv` and the others of `WlsSlots` also
with three calls and a license for two (5.1 M states), `HistoryInv` also with
two scores in both directions (776 k states).

## 5. Where code and text disagree

`Grading_timeout` shows one disagreement as a run. `grading_lifecycle.py` is to
"clean containers on grader failure" (line 1), and
`trusted_eval_infra/README.md` 463 says "The adapter removes containers mounted
from the exact grader checkout on exit, including grader timeouts." It looks for
candidates whose `/workspace/code.py` is mounted from the checkout (10, 23); but
an evaluation executes the private copy that `isolated_evaluation` makes
elsewhere (`openevolve/evidence.py` 62-70). When a grading times out, its
worker is killed, the cleanup finds nothing and succeeds, and the candidate runs
on beside the next grading, until it is done. `NoContainerOfCheckout`
(`GradingProofs`) proves that the cleanup never finds a candidate.

The modules state more that the code does not keep in every behaviour, most of
it sentences of the repository. Each definition is violated within seconds when
it is checked alone, under the specification without fairness, with the
constants of the run named here and the change given:

| definition | run, change | text and code |
|---|---|---|
| `RefusalsNeverConsume` | `EvalBroker_run` | `broker.py` 265-266: "Rejected requests do not create attempts or consume the evaluation budget". The attempt is written at 262 and the answer at 271; a supervisor that dies in between is resumed over the same inbox, finds its own attempt, and refuses the replayed request, while the attempt is graded and counted |
| `SessionsHaveEgress` | `AgentRun_run` | `runtime.py` 60 takes a proxy of the right name for ready. One that was killed between 61 and 70 is on no network, and one that has died is still found: sessions run without a way out. No text promises it |
| `RunsWithinLimitStayReserved` | `WlsSlots_calls` | `execution.py` 268-270: a killed grader "cannot immediately reuse" its slot. The reservation starts before the wait for a CPU (`cpu_slots.py` 10: up to a day); a wait longer than the 120 s and the release delay that it adds leaves even a candidate within its time limit unprotected |
| `SurvivorsApart` | `CpuLeases_calls` | `cpu_slots.py` 11: "Reserve distinct allowed logical CPUs for the entire candidate lifetime". The kernel frees a killed caller's locks, and an execution returns although `docker rm -f` has timed out (`execution.py` 1081-1088): the candidate runs on, on CPUs that the next caller leases |
| `CompletedRunsStayReserved` | `WlsSlots_calls`, without its excuse for lost candidates | `trusted_eval_infra/README.md` 450-451: a completed execution stays reserved for 310 s. A process killed between the truncation and the write of 280-281 leaves an empty stamp |
| `HeartbeatsSurviveResume` | `PendingMonitor_run` | `scheduling.py` 162-186 keeps a heartbeat for the agent's next session, in memory (178-180). A resumed manager restores counters and no heartbeat (108-128): one that waits at that time is lost. No text promises it |
| `EveryEndLeavesNothing` | `AgentRun_run` | `coral/runner.py` 798-808 takes audit and cleanup as the last steps of a `finally` clause. What the write of `termination.json` (760-769), `debug_runner.close` (771) or `proc.wait` (788) raises skips both; what `DebugRunner` raises when it is made (711), after CORAL was started, even skips the clause |
| `RunningIsPending` | `DebugRunner_requests` | `submit.py` 140: "Debug result is still pending". After a crash the response says running and nothing will complete it (`debug.py` 25) |
| `NoSessionWhileScoreAbsent` | `PendingMonitor_run` | `scheduling.py` 80: no session "while its score is absent". A request that the broker has not admitted yet is not seen at 79 |
| `StopReleases` | `LiveEvalWatchdog_run` | `trusted_eval_infra/README.md` 473: a service stop releases suspended coordinators. Not the one stopped at 97 and not yet entered at 98 |
| `ResumesOnlyWhenDue` | `LiveEvalWatchdog_run` | README 472. A docker failure (102-107) releases all of them early |
| `FirstResultsKept` | `OneShotRun_lives`, `Modes = {"all"}` | `one_shot_eval.py` 2033: the original results are preserved. A gate that fails rewrites them (2853) |
| `BudgetContinues` | `OneShotRun_lives`, `Modes = {"all"}`, `MaxCorrect = 0` | 2738: budgets go on where the last run stopped. The next invocation counts attempt files (2611), and a correction whose answer holds no program leaves none |
| `OneKindPerRun` | `OneShotRun_lives`, `Modes = {"none"}`, `MaxLives = 1` | 2608: one of the two kinds per run. Both can be used in one (2821) |
| `RowsStay` | `ResultsCsv_rows` | 2277-2341: other rows stay untouched. A kill after the truncation at 2337, or an exception before the last row, takes them |

Besides, `trusted_eval_infra/README.md` 575 speaks of eight restarts; the guard
(`runner.py` 648-655) counts every session, the first included, and a session
that starts between its two reads counts as one before the change it then sees.

## 6. What is left out

* Contents: programs, prompts, feedback, JSON, CSV escaping, file modes and path
  checks. Requests are valid or not, results are a handful of outcomes.
* Wall-clock time, but for the ticks of `WlsSlots` and `LiveEvalWatchdog` and the
  bounded passes of `CpuLeases`. Two callers that need several CPUs may scan in
  step and both time out; the models allow it and no property denies it.
* In `OneShotRun`: `--skip-existing`, token costs, the retries inside the run of
  one instance, and kills between an attempt file and `code.py`.
* In `EohBudget`: everything between "beats the seed" and "fails", the tool
  calls of the model, and selection.
* In `EvalBroker`: merges that agents make in git by themselves. A branch grows by
  commits of its shim only, which is what makes a commit one agent's.
* In `LiveEvalWatchdog`: the reuse of a process number, and a second watchdog
  that is started over the same manifest without `--release`, to which the
  coordinators that its predecessor had stopped are free ones.
* In `CandidateSandbox`: the bare and systemd backends, resource limits, and the
  search for a free subnet. A docker client that is killed while the daemon still
  carries out its command is a command without effect or with it, not one that
  takes effect later.
* In `Grading`: the re-hash of the private copy, which nobody changes there, and
  more than one instance per stage. With an instance, a stage has results
  and no error key in its metrics, so the condition at `evidence.py` 126-127 for
  storing a score holds. The removal of overdue containers by a
  watchdog looks for the same mount as the cleanup, and is left out with it. A
  score that a docker failure has caused is stored like any other
  (`evidence.py` 127), which is faithful and not a promise broken.
* In `AgentRuntime`: direct access to a model, images, mounts, tokens, the signals
  inside a container, and tool processes that shed the marker of their
  invocation (`process_control.py` 17). Creating, connecting and probing the
  model proxy is one step, since one that is left half made is always replaced.
* In `AgentRun`: the size of the workspace (any round may find it exceeded), the
  preparation of a task, the selection of a result after the run, and a
  supervisor that dies while CORAL lives on. The docker commands of the cleanup have
  no timeout; they are assumed to return.
* The search frameworks (CORAL, EoH, OpenEvolve), docker, the license server
  and the kernel are external; what is assumed of them is what the code relies
  on.
* Components marked "not yet" or "no" in section 1. Bundles, policies, checkers
  and command lines are validation without state; the proxies move bytes; the
  scripts are run by hand, one at a time; scoring is arithmetic on reals.

## 7. Plan

Done, in this order: `EvalLedger`, `EvalBroker`; `CpuAllocator`, `CpuLeases`;
`WlsSlots`; `DebugRunner`; `PendingMonitor`; `EohBudget`; `RowTable`, `ResultsCsv`;
`OneShotRun`; `LiveEvalWatchdog`; `CandidateSandbox`, `SeedMemo`, `Grading`;
`AgentRuntime`, `AgentRun`; and the proofs of all their safety properties.

Next, the most exposed first:

1. `EpisodeBridge` (`tide_eval_driver.py`, `tide_eval_worker.py`): a deadline
   against a late result envelope.
2. The search for a subnet (`docker_networks.py`) as a module of its own.
3. The systemd and bare backends of `execution.py` beside the docker one.
4. The staged score of `scoring/staged_qte.py` as functions over integers,
   against a reference definition.

Proofs, in the order of what they would add: that the drain of `AgentRun`, one step
per request, is the drain of `EvalBroker` with its steps hidden; that `OneShotRun`'s
rows are those of `ResultsCsv`'s table; type correctness of `WlsSlots` as a
theorem of its own; the license with killed calls, which `TokensFitLicense`
excuses.

The runs are kept to a number that can be repeated in some minutes: a new module
takes the place of a run or a property that a theorem has made redundant.
