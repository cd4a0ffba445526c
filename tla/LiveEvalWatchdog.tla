-------------------------- MODULE LiveEvalWatchdog --------------------------
(***************************************************************************)
(* The watchdog of live evaluations (agent/live_eval_watchdog.py) and the  *)
(* grading coordinators it watches.  A coordinator joins its worker with   *)
(* an old, short timeout and abandons it when that has passed; near that   *)
(* time the watchdog stops the coordinator with SIGSTOP, and continues it  *)
(* with SIGCONT when the worker has exited or the new timeout is over.     *)
(*                                                                         *)
(* The coordinators and workers are CORAL's, modelled as far as the        *)
(* watchdog sees them (multiprocessing, join(timeout), kill).  Time is     *)
(* counted in ticks.  Reuse of a process number, which the start times     *)
(* that signal_same compares exclude, is left out, and of the cleanup of   *)
(* containers only that it may raise an exception.  What is read of a      *)
(* worker, its age included, is read in one step.                          *)
(***************************************************************************)
EXTENDS Integers, FiniteSets, Functions

CONSTANTS
  Coordinators,  \* manifest["coordinators"]
  Old, New,      \* old_timeout, new_timeout
  Early, Grace,  \* 120 and 30 seconds
  PassTicks,     \* the time a pass of the loop takes at most
  MaxAge,        \* bound on the age of a worker (the model's)
  MaxEvals       \* bound on the workers that are started (the model's)

ASSUME WatchdogAssumption ==
  /\ {Old, New, Early, Grace, PassTicks, MaxAge, MaxEvals} \subseteq Nat
  /\ Early <= Old /\ Old < New
  \* A coordinator is looked at once in a pass, at any time of it, so that
  \* two looks are less than two passes apart.
  /\ 2 * PassTicks < Early

None == "none"

ASSUME NoneIsNoCoordinator == None \notin Coordinators

VARIABLES
  coord,    \* a coordinator's process: "running", "stopped", "gone"
  worker,   \* its worker: "none", "live", "zombie"
  age,      \* ticks since the worker started
  evals,    \* workers it has started
  late,     \* history: coordinators with the worker that the watchdog found,
            \* if that was too old to be reached in time
  dog,      \* the watchdog: "up", "stopped" (SIGTERM), "failed" (exception),
            \* "killed"
  held,     \* held: coordinators it has stopped, for which worker
  file,     \* held.json
  todo,     \* rows of the manifest left in this pass
  cur,      \* the row in hand
  at,       \* where in the loop
  snap,     \* what it has read of the worker
  ticks     \* ticks since this pass began

world == <<coord, worker, age, evals, late>>
loop == <<todo, cur, at, snap>>
vars == <<world, dog, held, file, loop, ticks>>

NoSnap == [state |-> "none", age |-> 0, no |-> 0]

Entries == [coord : Coordinators, no : Nat]
Held == {e.coord : e \in held}
Filed == {e.coord : e \in file}

\* The watchdog is started over coordinators that have been grading for a
\* while.
Init ==
  /\ coord = [c \in Coordinators |-> "running"]
  /\ worker \in [Coordinators -> {"none", "live"}]
  /\ age \in [Coordinators -> 0 .. Old]
  /\ \A c \in Coordinators : worker[c] = "none" => age[c] = 0
  /\ evals = [c \in Coordinators |-> IF worker[c] = "live" THEN 1 ELSE 0]
  /\ late = {c \in Coordinators : worker[c] = "live" /\ age[c] >= Old - PassTicks}
  /\ dog = "up" /\ held = {} /\ file = {}
  /\ todo = Coordinators /\ cur = None /\ at = "rows" /\ snap = NoSnap
  /\ ticks = 0

-----------------------------------------------------------------------------
(* Coordinators and workers. *)

StartWorker(c) ==
  /\ coord[c] = "running" /\ worker[c] = "none"
  /\ SumFunction(evals) < MaxEvals
  /\ worker' = [worker EXCEPT ![c] = "live"]
  /\ age' = [age EXCEPT ![c] = 0]
  /\ evals' = [evals EXCEPT ![c] = @ + 1]
  /\ late' = late \ {c}
  /\ UNCHANGED <<coord, dog, held, file, loop, ticks>>

WorkerExits(c) ==
  /\ worker[c] = "live"
  /\ worker' = [worker EXCEPT ![c] = "zombie"]
  /\ UNCHANGED <<coord, age, evals, late, dog, held, file, loop, ticks>>

\* join() returns: the result is collected.
Collect(c) ==
  /\ coord[c] = "running" /\ worker[c] = "zombie"
  /\ worker' = [worker EXCEPT ![c] = "none"]
  /\ UNCHANGED <<coord, age, evals, late, dog, held, file, loop, ticks>>

\* join(timeout) returns with the worker alive: it is killed.
Abandon(c) ==
  /\ coord[c] = "running" /\ worker[c] = "live" /\ age[c] >= Old
  /\ worker' = [worker EXCEPT ![c] = "none"]
  /\ UNCHANGED <<coord, age, evals, late, dog, held, file, loop, ticks>>

\* The run of a coordinator ends.
Leave(c) ==
  /\ coord[c] = "running" /\ worker[c] = "none"
  /\ coord' = [coord EXCEPT ![c] = "gone"]
  /\ UNCHANGED <<worker, age, evals, late, dog, held, file, loop, ticks>>

Live == {c \in Coordinators : worker[c] = "live"}

Tick ==
  /\ dog = "up" => ticks < PassTicks
  /\ \E c \in Live : age[c] < MaxAge
  /\ age' = [c \in Coordinators |->
               IF c \in Live /\ age[c] < MaxAge THEN age[c] + 1 ELSE age[c]]
  /\ ticks' = IF dog = "up" THEN ticks + 1 ELSE ticks
  /\ UNCHANGED <<coord, worker, evals, late, dog, held, file, loop>>

-----------------------------------------------------------------------------
(* The loop. *)

Goes(c, sig) ==
  coord' = [coord EXCEPT ![c] =
              IF @ = "gone" THEN "gone"
              ELSE IF sig = "STOP" THEN "stopped" ELSE "running"]

\* proc_state of the coordinator; a row whose process is gone is passed over.
Look ==
  /\ dog = "up" /\ at = "rows"
  /\ \E c \in todo :
       /\ todo' = todo \ {c}
       /\ IF coord[c] = "gone"
            THEN cur' = cur /\ at' = at
            ELSE cur' = c /\ at' = "children"
  /\ UNCHANGED <<world, dog, held, file, snap, ticks>>

\* The process is no more, wherever in its loop it was.
Ends(as) ==
  /\ dog' = as /\ held' = {}
  /\ todo' = {} /\ snap' = NoSnap /\ ticks' = 0
  /\ UNCHANGED <<cur, at>>

\* release_all, then the end of the process.
ReleaseAll(as) ==
  /\ coord' = [c \in Coordinators |->
                 IF c \in Held /\ coord[c] = "stopped" THEN "running" ELSE coord[c]]
  /\ file' = {}
  /\ Ends(as)
  /\ UNCHANGED <<worker, age, evals, late>>

\* /proc/<pid>/task/<pid>/children and proc_state of the worker.
ReadChildren ==
  /\ dog = "up" /\ at = "children" /\ coord[cur] # "gone"
  /\ snap' = [state |-> worker[cur], age |-> age[cur], no |-> evals[cur]]
  /\ at' = IF cur \in Held THEN "held" ELSE "free"
  /\ UNCHANGED <<world, dog, held, file, todo, cur, ticks>>

\* The coordinator has exited since Look: read_text raises.
ChildrenGone ==
  /\ dog = "up" /\ at = "children" /\ coord[cur] = "gone"
  /\ ReleaseAll("failed")

NextRow == at' = "rows" /\ cur' = None

Entry == [coord |-> cur, no |-> snap.no]

\* The worker it was stopped for is gone, or the new timeout has passed.
Done == Entry \notin held \/ snap.state # "live"

Due == Done \/ snap.age > New + Grace

Continue ==
  /\ dog = "up" /\ at = "held"
  /\ IF Due
       THEN /\ Goes(cur, "CONT") /\ at' = "pop" /\ cur' = cur
       ELSE NextRow /\ UNCHANGED coord
  /\ UNCHANGED <<worker, age, evals, late, dog, held, file, todo, snap, ticks>>

\* held.pop
Pop ==
  /\ dog = "up" /\ at = "pop"
  /\ held' = {e \in held : e.coord # cur}
  /\ at' = "save"
  /\ UNCHANGED <<world, dog, file, todo, cur, snap, ticks>>

\* Mutant of InWindow: the coordinator is stopped when its timeout is there.
InWindowLate == snap.age >= Old /\ snap.age < New

InWindow == snap.age >= Old - Early /\ snap.age < New

Hold ==
  /\ dog = "up" /\ at = "free"
  /\ IF snap.state = "live" /\ InWindow /\ coord[cur] # "gone"
       THEN /\ Goes(cur, "STOP") /\ at' = "stopped" /\ cur' = cur
       ELSE NextRow /\ UNCHANGED coord
  /\ UNCHANGED <<worker, age, evals, late, dog, held, file, todo, snap, ticks>>

\* Mutant of Record: in the file only.
RecordFile ==
  /\ dog = "up" /\ at = "stopped"
  /\ file' = file \cup {Entry}
  /\ NextRow
  /\ UNCHANGED <<world, dog, held, todo, snap, ticks>>

\* held[pid] = ...
Record ==
  /\ dog = "up" /\ at = "stopped"
  /\ held' = held \cup {Entry}
  /\ at' = "save"
  /\ UNCHANGED <<world, dog, file, todo, cur, snap, ticks>>

\* The file is replaced at once.
Save ==
  /\ dog = "up" /\ at = "save"
  /\ file' = held
  /\ NextRow
  /\ UNCHANGED <<world, dog, held, todo, snap, ticks>>

\* The containers, status.json, two seconds of sleep, and the next pass.
PassEnds ==
  /\ dog = "up" /\ at = "rows" /\ todo = {}
  /\ todo' = Coordinators /\ ticks' = 0
  /\ UNCHANGED <<world, dog, held, file, cur, at, snap>>

\* docker does not answer within its ten seconds: TimeoutExpired.
DockerFails ==
  /\ dog = "up" /\ at = "rows" /\ todo = {}
  /\ ReleaseAll("failed")

\* SIGTERM, SIGINT: the handler runs between any two instructions.
Terminate ==
  /\ dog = "up"
  /\ ReleaseAll("stopped")

\* SIGKILL: what it knows is lost, but for the file.
Kill ==
  /\ dog = "up"
  /\ Ends("killed")
  /\ UNCHANGED <<world, file>>

\* Run again with --release, it continues those in the file.
Release ==
  /\ dog # "up"
  /\ coord' = [c \in Coordinators |->
                 IF c \in Filed /\ coord[c] = "stopped" THEN "running" ELSE coord[c]]
  /\ file' = {}
  /\ UNCHANGED <<worker, age, evals, late, dog, held, loop, ticks>>

LoopStep ==
  \/ Look \/ ReadChildren \/ ChildrenGone
  \/ Continue \/ Pop \/ Hold \/ Record \/ Save \/ PassEnds

WorldStep ==
  \E c \in Coordinators :
    \/ StartWorker(c) \/ WorkerExits(c) \/ Collect(c) \/ Abandon(c) \/ Leave(c)

Next == \/ LoopStep \/ WorldStep \/ Tick
        \/ DockerFails \/ Terminate \/ Kill \/ Release

Spec == Init /\ [][Next]_vars

\* The watchdog and the clock go on.
FairSpec == Spec /\ WF_vars(LoopStep) /\ WF_vars(Tick)

-----------------------------------------------------------------------------
(* Properties. *)

\* Types; who is held stands still, unless it has just been continued.
TypeOK ==
  /\ coord \in [Coordinators -> {"running", "stopped", "gone"}]
  /\ worker \in [Coordinators -> {"none", "live", "zombie"}]
  /\ age \in [Coordinators -> Nat] /\ evals \in [Coordinators -> Nat]
  /\ late \subseteq Coordinators
  /\ dog \in {"up", "stopped", "failed", "killed"}
  /\ held \subseteq Entries /\ file \subseteq Entries
  /\ \A c \in Held : coord[c] = "stopped" \/ (at = "pop" /\ c = cur)
  /\ todo \subseteq Coordinators /\ cur \in Coordinators \cup {None}
  /\ at \in {"rows", "children", "held", "pop", "free", "stopped", "save"}
  /\ snap \in [state : {"none", "live", "zombie"}, age : Nat, no : Nat]
  /\ ticks \in Nat

\* The coordinator between its SIGSTOP and its entry in held, or, when only
\* the file is left, in the file.
Caught ==
  IF at = "stopped" \/ (at = "save" /\ dog = "killed") THEN {cur} ELSE {}

\* A coordinator that stands still is one the watchdog knows of, or, when the
\* watchdog has ended in whatever way, one that --release finds in held.json,
\* but for the one it has just stopped.
StoppedIsHeld ==
  /\ \A c \in Coordinators :
       coord[c] = "stopped" => c \in Caught \cup (IF dog = "up" THEN Held ELSE Filed)
  /\ dog = "up" /\ at # "save" => file = held

\* While the watchdog is up, a coordinator abandons no worker before the new
\* timeout, though it may look at it late in a pass: "Old coordinators
\* already holding the short join timeout are temporarily suspended near that
\* timeout while their independent worker ... continue".  A worker that is found
\* less than a pass from the old timeout may be lost.
NoEarlyAbandon ==
  [][\A c \in Coordinators :
       dog = "up" /\ Abandon(c) /\ c \notin late => age[c] >= New]_vars

\* The worker for which c was stopped lives and has time left.
InTime(c) ==
  /\ [coord |-> c, no |-> evals[c]] \in held
  /\ worker[c] = "live" /\ age[c] <= New + Grace

Continued(c) == coord[c] = "stopped" /\ coord'[c] = "running"

\* A watchdog that stays up continues a coordinator only when the worker it
\* was stopped for has exited or the new timeout has passed.
ContinuedWhenDue ==
  [][\A c \in Coordinators : dog' = "up" /\ Continued(c) => ~ InTime(c)]_vars

\* "The coordinator resumes when the worker exits, or at the new bounded
\* deadline", while the watchdog is up.
StoppedResumes ==
  \A c \in Coordinators :
    coord[c] = "stopped" /\ dog = "up" ~> coord[c] # "stopped" \/ dog # "up"

\* "Service stop also releases suspended coordinators."
StopReleases ==
  dog = "stopped" => \A c \in Coordinators : coord[c] # "stopped"

\* "The coordinator resumes when the worker exits, or at the new bounded
\* deadline": not before, unless the service is stopped.
ResumesOnlyWhenDue ==
  [][\A c \in Coordinators :
       dog' # "stopped" /\ Continued(c) => ~ InTime(c)]_vars

=============================================================================
