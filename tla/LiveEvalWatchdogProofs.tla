----------------------- MODULE LiveEvalWatchdogProofs -----------------------
(***************************************************************************)
(* Proofs about LiveEvalWatchdog, for any coordinators, timeouts and ends  *)
(* of the watchdog.  What it knows of a coordinator it has stopped stays   *)
(* true while the coordinator stands still, which is why it may act on     *)
(* what it has read.                                                       *)
(***************************************************************************)
EXTENDS LiveEvalWatchdog, TLAPS

\* Where the loop is says what has become of the row in hand.
RowInv ==
  /\ dog # "up" => held = {}
  /\ at # "rows" => cur \in Coordinators
  /\ at \in {"free", "stopped"} /\ dog = "up" => cur \notin Held
  /\ at = "stopped" /\ dog = "up" => coord[cur] = "stopped"
  /\ at = "held" /\ dog = "up" => cur \in Held
  /\ at = "pop" => coord[cur] # "stopped"
  /\ at = "save" /\ dog = "up" =>
       \A c \in Coordinators \ {cur} : c \in Held <=> c \in Filed

\* What has been read of the worker of a held coordinator is not stale in a
\* way that matters: no other worker can have started, an exit is final, and
\* a worker only grows older.
SnapInv ==
  at = "held" /\ dog = "up" =>
    /\ snap.no = evals[cur]
    /\ snap.state # "live" => worker[cur] # "live"
    /\ snap.age <= age[cur]

IInv == TypeOK /\ StoppedIsHeld /\ RowInv /\ SnapInv

LEMMA InitIInv == Init => IInv
  BY WatchdogAssumption
  DEF Init, IInv, TypeOK, StoppedIsHeld, RowInv, SnapInv, Held, Filed, Caught, NoSnap, Entries

LEMMA SameHeld ==
  /\ held' = held => Held' = Held
  /\ file' = file => Filed' = Filed
  /\ file = held => Filed = Held
  /\ file' = held => Filed' = Held
  BY DEF Held, Filed

\* Processes come and go, and time passes.
LEMMA WorldIInv == IInv /\ (WorldStep \/ Tick) => IInv'
<1> USE SameHeld, NoneIsNoCoordinator
    DEF IInv, TypeOK, StoppedIsHeld, RowInv, SnapInv, Caught, loop
<1>1. ASSUME IInv, NEW c \in Coordinators, StartWorker(c) PROVE IInv'
  BY <1>1 DEF StartWorker
<1>2. ASSUME IInv, NEW c \in Coordinators, WorkerExits(c) PROVE IInv'
  BY <1>2 DEF WorkerExits
<1>3. ASSUME IInv, NEW c \in Coordinators, Collect(c) \/ Abandon(c) PROVE IInv'
  BY <1>3 DEF Collect, Abandon
<1>4. ASSUME IInv, NEW c \in Coordinators, Leave(c) PROVE IInv'
  BY <1>4 DEF Leave
<1>5. ASSUME IInv, Tick PROVE IInv'
  BY <1>5 DEF Tick, Live
<1> QED
  BY <1>1, <1>2, <1>3, <1>4, <1>5 DEF WorldStep

\* The watchdog ends, in one of its ways.
LEMMA ReleaseIInv == ASSUME IInv, NEW as \in {"stopped", "failed"}, dog = "up", ReleaseAll(as)
                     PROVE  IInv'
<1> USE NoneIsNoCoordinator
    DEF IInv, TypeOK, RowInv, SnapInv, Held, Filed, ReleaseAll, Ends, NoSnap, Entries
<1>1. \A c \in Coordinators : coord'[c] = "stopped" => c \in Caught
  BY DEF StoppedIsHeld, Caught
<1>2. Caught \subseteq Caught'
  BY DEF Caught
<1> QED
  BY <1>1, <1>2 DEF StoppedIsHeld

LEMMA KillIInv == IInv /\ Kill => IInv'
<1> SUFFICES ASSUME IInv, Kill PROVE IInv'
  OBVIOUS
<1> USE NoneIsNoCoordinator
    DEF IInv, TypeOK, RowInv, SnapInv, Kill, Ends, NoSnap, world
<1>1. \A c \in Coordinators : coord[c] = "stopped" => c \in Caught' \cup Filed'
  <2>1. CASE at = "save"
    <3>1. \A c \in Coordinators \ {cur} : c \in Held => c \in Filed
      BY <2>1
    <3> QED
      BY <2>1, <3>1, SameHeld DEF StoppedIsHeld, Caught
  <2>2. CASE at # "save"
    BY <2>2, SameHeld DEF StoppedIsHeld, Caught
  <2> QED
    BY <2>1, <2>2
<1> QED
  BY <1>1 DEF StoppedIsHeld, Held, Entries

\* Those that --release finds, and any that were not in the file.
LEMMA ReleaseFileIInv == IInv /\ Release => IInv'
<1> SUFFICES ASSUME IInv, Release PROVE IInv'
  OBVIOUS
<1>1. Caught' = Caught /\ file' = {} /\ dog' = dog /\ dog # "up"
  BY DEF Release, Caught, loop
<1>2. /\ coord' \in [Coordinators -> {"running", "stopped", "gone"}]
      /\ \A c \in Coordinators : coord'[c] = "stopped" =>
           coord[c] = "stopped" /\ c \notin Filed
  BY DEF Release, IInv, TypeOK
<1>3. \A c \in Coordinators : coord'[c] = "stopped" => c \in Caught'
  BY <1>1, <1>2 DEF IInv, StoppedIsHeld
<1>4. StoppedIsHeld'
  BY <1>1, <1>3 DEF StoppedIsHeld
<1>5. held' = {} /\ held = {} /\ Held' = {}
  BY DEF Release, Held, IInv, RowInv
<1> QED
  BY <1>1, <1>2, <1>4, <1>5, NoneIsNoCoordinator
  DEF IInv, TypeOK, RowInv, SnapInv, Release, loop, Entries

LEMMA LoopIInv == IInv /\ LoopStep => IInv'
<1> SUFFICES ASSUME IInv, LoopStep PROVE IInv'
  OBVIOUS
<1> USE SameHeld, NoneIsNoCoordinator
    DEF IInv, TypeOK, StoppedIsHeld, RowInv, SnapInv, Caught, world, NextRow
<1>1. CASE Look
  BY <1>1 DEF Look
<1>2. CASE ReadChildren
  BY <1>2 DEF ReadChildren
<1>3. CASE ChildrenGone
  BY <1>3, ReleaseIInv DEF ChildrenGone
<1>4. CASE Continue
  <2>1. CASE Due
    <3>1. coord' = [coord EXCEPT ![cur] = IF @ = "gone" THEN "gone" ELSE "running"]
      BY <1>4, <2>1 DEF Continue, Goes
    <3>2. coord' \in [Coordinators -> {"running", "stopped", "gone"}]
      BY <3>1
    <3> QED
      BY <1>4, <2>1, <3>1, <3>2 DEF Continue
  <2>2. CASE ~ Due
    BY <1>4, <2>2 DEF Continue
  <2> QED
    BY <2>1, <2>2
<1>5. CASE Pop
  BY <1>5 DEF Pop, Held
<1>6. CASE Hold
  <2>1. CASE snap.state = "live" /\ InWindow /\ coord[cur] # "gone"
    <3>1. coord' = [coord EXCEPT ![cur] = "stopped"]
      BY <1>6, <2>1 DEF Hold, Goes
    <3> QED
      BY <1>6, <2>1, <3>1 DEF Hold
  <2>2. CASE ~ (snap.state = "live" /\ InWindow /\ coord[cur] # "gone")
    BY <1>6, <2>2 DEF Hold
  <2> QED
    BY <2>1, <2>2
<1>9. CASE Save
  <2>1. held \subseteq Entries /\ UNCHANGED <<world, dog, held, todo, snap, ticks>>
    BY <1>9 DEF Save
  <2> QED
    BY <1>9, <2>1 DEF Save
<1>7. CASE Record
  <2>1. Entry \in Entries /\ Entry.coord = cur
    BY <1>7 DEF Record, Entry, Entries
  <2>2. Held' = Held \cup {cur}
    BY <1>7, <2>1 DEF Record, Held
  <2> QED
    BY <1>7, <2>1, <2>2 DEF Record
<1>8. CASE PassEnds
  BY <1>8 DEF PassEnds
<1> QED
  BY <1>1, <1>2, <1>3, <1>4, <1>5, <1>6, <1>7, <1>8, <1>9 DEF LoopStep

LEMMA NextIInv == IInv /\ [Next]_vars => IInv'
<1>1. IInv /\ (DockerFails \/ Terminate) => IInv'
  BY ReleaseIInv DEF DockerFails, Terminate
<1>2. IInv /\ UNCHANGED vars => IInv'
  BY DEF IInv, TypeOK, StoppedIsHeld, RowInv, SnapInv, Held, Filed, Caught, vars, world, loop
<1> QED
  BY <1>1, <1>2, WorldIInv, LoopIInv, KillIInv, ReleaseFileIInv DEF Next

LEMMA Inductive == Spec => []IInv
  BY InitIInv, NextIInv, PTL DEF Spec

\* For any number of coordinators and any timeouts: one that stands still is
\* in held, and in held.json when the watchdog has ended or was killed, but for
\* the one that was stopped a moment ago (live_eval_watchdog.py 47-100).
THEOREM NoneForgotten == Spec => []StoppedIsHeld
<1>1. IInv => StoppedIsHeld
  BY DEF IInv
<1> QED
  BY <1>1, Inductive, PTL

\* A coordinator that is continued by Continue was due, also by what is true
\* of its worker now and not only by what was read.
LEMMA ContinueWhenDue ==
  ASSUME IInv, Continue, NEW c \in Coordinators, Continued(c)
  PROVE  ~ InTime(c)
<1>1. c = cur /\ Due
  BY DEF IInv, TypeOK, Continue, Continued, Goes, NextRow
<1>2. CASE Entry \notin held
  BY <1>1, <1>2 DEF IInv, SnapInv, Continue, Entry, InTime
<1>3. CASE snap.state # "live"
  BY <1>1, <1>3 DEF IInv, SnapInv, Continue, InTime
<1>4. CASE snap.age > New + Grace
  BY <1>1, <1>4, WatchdogAssumption DEF IInv, TypeOK, SnapInv, Continue, InTime
<1> QED
  BY <1>1, <1>2, <1>3, <1>4 DEF Due, Done

\* While the watchdog stays up, a coordinator is continued only when the
\* worker it was stopped for has exited or the new timeout has passed, though
\* the watchdog acts on what it has read before (live_eval_watchdog.py
\* 85-93).
THEOREM ContinuedOnlyWhenDue == Spec => ContinuedWhenDue
<1>1. ASSUME IInv, [Next]_vars
      PROVE  [\A c \in Coordinators : dog' = "up" /\ Continued(c) => ~ InTime(c)]_vars
  <2> SUFFICES ASSUME Next, NEW c \in Coordinators, dog' = "up", Continued(c)
               PROVE  ~ InTime(c)
    BY <1>1
  <2>1. CASE Continue
    BY <1>1, <2>1, ContinueWhenDue
  <2>2. CASE Look \/ ReadChildren \/ Pop \/ Record \/ Save \/ PassEnds
    BY <2>2 DEF Look, ReadChildren, Pop, Record, Save, PassEnds, Continued, world
  <2>3. CASE Hold
    BY <1>1, <2>3 DEF Hold, Goes, Continued, NextRow, IInv, TypeOK
  <2>4. CASE ChildrenGone
    BY <2>4 DEF ChildrenGone, ReleaseAll, Ends
  <2>5. CASE WorldStep \/ Tick
    BY <2>5, <1>1 DEF WorldStep, StartWorker, WorkerExits, Collect, Abandon, Leave, Tick,
      Continued, IInv, TypeOK
  <2>6. CASE DockerFails \/ Terminate \/ Kill \/ Release
    BY <2>6 DEF DockerFails, Terminate, Kill, Release, ReleaseAll, Ends
  <2> QED
    BY <2>1, <2>2, <2>3, <2>4, <2>5, <2>6 DEF Next, LoopStep
<1> QED
  BY <1>1, Inductive, PTL DEF Spec, ContinuedWhenDue

-----------------------------------------------------------------------------
(* How old a worker can be whose coordinator is not protected.              *)

\* The old timeout is longer than the window by at least a pass: a worker that
\* took the place of one that was read has to be seen in its turn.
LongEnough == PassTicks <= Old - Early

\* The pass has not come to c yet, or has not read its worker.
Unseen(c) == c \in todo \/ (c = cur /\ at \in {"children", "held"})

\* The time since the worker of c was read, or since before it started.
Since(c) == IF Unseen(c) THEN PassTicks + ticks ELSE ticks

\* A pass that has just begun reaches every worker of that age in time.
Reached(c) == age[c] < Old - PassTicks + ticks

\* The entry of c, made or about to be made, is for the worker it has.
Matched(c) ==
  \/ [coord |-> c, no |-> evals[c]] \in held
  \/ at = "stopped" /\ c = cur /\ snap.no = evals[c]

\* The worker of a coordinator that goes on is not reached yet, or was too young
\* when it was read, or started since; or it has been read in its window and is
\* dealt with next; or it was found too late.
RunningAge(c) ==
  \/ age[c] >= New
  \/ c \in late
  \/ Unseen(c) /\ Reached(c)
  \/ age[c] <= Old - Early + ticks
  \/ at = "free" /\ c = cur /\ snap.state = "live" /\ InWindow /\ Reached(c)

AgeInv ==
  dog = "up" =>
    /\ ticks <= PassTicks
    /\ \A c \in Coordinators : worker[c] = "live" =>
         /\ coord[c] = "running" => RunningAge(c)
         /\ coord[c] = "stopped" => Matched(c) \/ age[c] <= Since(c)
    /\ at = "free" /\ snap.no # evals[cur] /\ worker[cur] = "live"
         => age[cur] <= ticks

LEMMA Times ==
  /\ Old \in Nat /\ New \in Nat /\ Early \in Nat /\ PassTicks \in Nat
  /\ Grace \in Nat /\ Old - Early \in Nat /\ 2 * PassTicks < Early
BY WatchdogAssumption

LEMMA InitAgeInv == Init => AgeInv
BY Times DEF Init, AgeInv, RunningAge, Reached, Unseen

LEMMA WorldAgeInv ==
  ASSUME IInv, IInv', AgeInv, WorldStep \/ Tick
  PROVE  AgeInv'
<1> USE Times DEF IInv, TypeOK
<1>1. ASSUME NEW c \in Coordinators, StartWorker(c) PROVE AgeInv'
  <2>1. /\ coord[c] = "running" /\ age' = [age EXCEPT ![c] = 0]
        /\ evals' = [evals EXCEPT ![c] = @ + 1]
        /\ worker' = [worker EXCEPT ![c] = "live"]
        /\ late' = late \ {c}
        /\ UNCHANGED <<coord, dog, held, todo, cur, at, snap, ticks>>
    BY <1>1 DEF StartWorker, loop
  <2>2. \A d \in Coordinators : Since(d)' = Since(d) /\ Since(d) \in Nat
    BY <2>1 DEF Since, Unseen
  <2>3. \A d \in Coordinators \ {c} :
          (RunningAge(d)' <=> RunningAge(d)) /\ (Matched(d)' <=> Matched(d))
    BY <2>1, <2>2 DEF RunningAge, Reached, Unseen, Matched, InWindow
  <2>4. RunningAge(c)'
    BY <2>1, <2>2 DEF RunningAge, Reached
  <2> QED
    BY <2>1, <2>2, <2>3, <2>4 DEF AgeInv
<1>2. ASSUME NEW c \in Coordinators,
             WorkerExits(c) \/ Collect(c) \/ Abandon(c) \/ Leave(c)
      PROVE  AgeInv'
  <2>1. /\ UNCHANGED <<age, evals, late, dog, held, todo, cur, at, snap, ticks>>
        /\ \A d \in Coordinators :
             /\ worker'[d] = "live" => worker[d] = "live"
             /\ coord'[d] # "gone" => coord'[d] = coord[d]
    BY <1>2 DEF WorkerExits, Collect, Abandon, Leave, loop
  <2>2. \A d \in Coordinators : /\ Since(d)' = Since(d)
                                /\ RunningAge(d)' <=> RunningAge(d)
                                /\ Matched(d)' <=> Matched(d)
    BY <2>1 DEF Since, Unseen, RunningAge, Reached, Matched, InWindow
  <2>3. at = "free" => cur \in Coordinators
    BY DEF RowInv
  <2> QED
    BY <2>1, <2>2, <2>3 DEF AgeInv
<1>3. CASE Tick
  <2>1. /\ \A d \in Coordinators : age'[d] <= age[d] + 1 /\ age'[d] >= age[d]
                                   /\ age[d] \in Nat /\ age'[d] \in Nat
        /\ UNCHANGED <<coord, worker, evals, late, dog, held, todo, cur, at, snap>>
    BY <1>3 DEF Tick, loop
  <2> SUFFICES ASSUME dog = "up" PROVE AgeInv'
    BY <2>1 DEF AgeInv
  <2>2. ticks' = ticks + 1 /\ ticks' <= PassTicks
    BY <1>3 DEF Tick
  <2>3. \A d \in Coordinators : Since(d)' = Since(d) + 1 /\ Since(d) \in Nat
    BY <2>1, <2>2 DEF Since, Unseen
  <2>4. \A d \in Coordinators : RunningAge(d) => RunningAge(d)'
    BY <2>1, <2>2, <2>3 DEF RunningAge, Reached, Unseen, InWindow
  <2>5. \A d \in Coordinators : Matched(d)' <=> Matched(d)
    BY <2>1 DEF Matched
  <2>6. at = "free" => cur \in Coordinators
    BY DEF RowInv
  <2>7. \A d \in Coordinators : age[d] <= ticks => age'[d] <= ticks'
    BY <2>1, <2>2
  <2>8. \A d \in Coordinators : age[d] <= Since(d) => age'[d] <= Since(d)'
    BY <2>1, <2>3
  <2> QED
    BY <2>1, <2>2, <2>4, <2>5, <2>6, <2>7, <2>8 DEF AgeInv
<1> QED
  BY <1>1, <1>2, <1>3 DEF WorldStep

LEMMA LoopAgeInv ==
  ASSUME IInv, IInv', AgeInv, LoopStep, LongEnough
  PROVE  AgeInv'
<1> USE Times DEF IInv, TypeOK
<1>1. CASE ChildrenGone
  BY <1>1 DEF ChildrenGone, ReleaseAll, Ends, AgeInv
<1> SUFFICES ASSUME LoopStep, ~ ChildrenGone PROVE AgeInv'
  BY <1>1
<1>2. dog = "up" /\ dog' = "up" /\ UNCHANGED <<worker, age, evals, late>>
  BY DEF LoopStep, Look, ReadChildren, Continue, Pop, Hold, Record, Save,
         PassEnds, world
<1>3. /\ \A c \in Coordinators : worker[c] = "live" =>
           /\ coord[c] = "running" => RunningAge(c)
           /\ coord[c] = "stopped" => Matched(c) \/ age[c] <= Since(c)
      /\ ticks <= PassTicks /\ ticks \in Nat
      /\ at = "free" /\ snap.no # evals[cur] /\ worker[cur] = "live"
           => age[cur] <= ticks
  BY <1>2 DEF AgeInv
<1> DEFINE Kept(c) ==
      worker[c] = "live" =>
        /\ coord'[c] = "running" => RunningAge(c)'
        /\ coord'[c] = "stopped" => Matched(c)' \/ age[c] <= Since(c)'
<1>4. CASE Look
  <2>1. /\ UNCHANGED <<coord, held, snap, ticks>> /\ at = "rows"
        /\ \E c \in todo : /\ todo' = todo \ {c}
                           /\ \/ coord[c] = "gone" /\ cur' = cur /\ at' = at
                              \/ cur' = c /\ at' = "children"
    BY <1>4 DEF Look, world
  <2>2. \A c \in Coordinators : coord[c] # "gone" => Since(c)' = Since(c)
    BY <2>1 DEF Since, Unseen
  <2>3. \A c \in Coordinators : Kept(c)
    BY <1>2, <1>3, <2>1, <2>2 DEF RunningAge, Reached, Unseen, Matched
  <2> QED
    BY <1>2, <1>3, <2>1, <2>3 DEF AgeInv
<1>5. CASE ReadChildren
  <2>1. /\ UNCHANGED <<coord, held, todo, cur, ticks>> /\ at = "children"
        /\ cur \in Coordinators
        /\ snap' = [state |-> worker[cur], age |-> age[cur], no |-> evals[cur]]
        /\ at' = IF cur \in Held THEN "held" ELSE "free"
    BY <1>5 DEF ReadChildren, world, RowInv
  <2>2. ASSUME NEW c \in Coordinators, c # cur PROVE Kept(c)
    <3>1. Since(c)' = Since(c)
      BY <2>1, <2>2 DEF Since, Unseen
    <3> QED
      BY <1>2, <1>3, <2>1, <2>2, <3>1 DEF RunningAge, Reached, Unseen, Matched
  <2>3. CASE cur \in Held
    <3>1. Since(cur)' = Since(cur) /\ at' = "held"
      BY <2>1, <2>3 DEF Since, Unseen
    <3>2. Kept(cur)
      BY <1>2, <1>3, <2>1, <3>1 DEF RunningAge, Reached, Unseen, Matched
    <3> QED
      BY <1>2, <1>3, <2>1, <2>2, <3>1, <3>2 DEF AgeInv
  <2>4. CASE cur \notin Held
    <3>1. at' = "free" /\ snap'.no = evals[cur] /\ coord[cur] # "stopped"
      BY <1>2, <2>1, <2>4 DEF StoppedIsHeld, Caught
    <3>2. ASSUME worker[cur] = "live", coord[cur] = "running"
          PROVE  RunningAge(cur)'
      <4>1. \/ age[cur] >= New \/ cur \in late
            \/ age[cur] <= Old - Early + ticks \/ Reached(cur)
        BY <1>3, <2>1, <3>2 DEF RunningAge
      <4>2. snap'.state = "live" /\ snap'.age = age[cur]
        BY <2>1, <3>2
      <4>3. CASE InWindow'
        BY <1>2, <2>1, <3>1, <4>1, <4>2, <4>3 DEF RunningAge, Reached
      <4>4. CASE ~ InWindow'
        <5>1. age[cur] \in Nat /\ (age[cur] < Old - Early \/ age[cur] >= New)
          BY <2>1, <4>2, <4>4 DEF InWindow
        <5> QED
          BY <1>2, <1>3, <2>1, <5>1 DEF RunningAge
      <4> QED
        BY <4>3, <4>4
    <3> QED
      BY <1>2, <1>3, <2>1, <2>2, <3>1, <3>2 DEF AgeInv
  <2> QED
    BY <2>3, <2>4
<1>6. CASE Continue
  <2>1. /\ UNCHANGED <<held, todo, snap, ticks>> /\ at = "held"
        /\ cur \in Coordinators /\ cur \in Held /\ coord[cur] = "stopped"
        /\ snap.no = evals[cur]
    BY <1>2, <1>6 DEF Continue, RowInv, SnapInv
  <2>2. CASE Due
    <3>1. /\ coord' = [coord EXCEPT ![cur] = "running"]
          /\ at' = "pop" /\ cur' = cur
      BY <1>6, <2>1, <2>2 DEF Continue, Goes
    <3>2. ASSUME NEW c \in Coordinators, c # cur PROVE Kept(c)
      <4>1. Since(c)' = Since(c)
        BY <2>1, <3>1, <3>2 DEF Since, Unseen
      <4> QED
        BY <1>2, <1>3, <2>1, <3>1, <3>2, <4>1 DEF RunningAge, Reached, Unseen, Matched
    <3>3. ASSUME worker[cur] = "live" PROVE RunningAge(cur)'
      <4>1. snap.state = "live"
        BY <1>2, <2>1, <3>3 DEF SnapInv
      <4>2. CASE Entry \notin held
        <5>1. ~ Matched(cur)
          BY <2>1, <4>2 DEF Matched, Entry
        <5>2. age[cur] <= PassTicks + ticks
          BY <1>3, <2>1, <3>3, <5>1 DEF Since, Unseen
        <5>3. age[cur] <= Old - Early + ticks
          BY <1>3, <2>1, <5>2 DEF LongEnough
        <5> QED
          BY <1>2, <2>1, <3>1, <5>3 DEF RunningAge
      <4>3. CASE snap.age > New + Grace
        <5>1. age[cur] >= New
          BY <1>2, <2>1, <4>3 DEF SnapInv
        <5> QED
          BY <1>2, <3>1, <5>1 DEF RunningAge, Reached
      <4> QED
        BY <2>2, <4>1, <4>2, <4>3 DEF Due, Done
    <3> QED
      BY <1>2, <1>3, <2>1, <3>1, <3>2, <3>3 DEF AgeInv
  <2>3. CASE ~ Due
    <3>1. coord' = coord /\ at' = "rows" /\ cur' = None
      BY <1>6, <2>3 DEF Continue, NextRow
    <3>2. Entry \in held
      BY <2>3 DEF Due, Done
    <3>3. ASSUME NEW c \in Coordinators, c = cur PROVE Kept(c)
      <4>1. [coord |-> c, no |-> evals[c]] \in held
        BY <2>1, <3>2, <3>3 DEF Entry
      <4> QED
        BY <1>2, <2>1, <3>1, <3>3, <4>1 DEF Matched
    <3>4. ASSUME NEW c \in Coordinators, c # cur PROVE Kept(c)
      <4>1. Since(c)' = Since(c)
        BY <2>1, <3>1, <3>4, NoneIsNoCoordinator DEF Since, Unseen
      <4> QED
        BY <1>2, <1>3, <2>1, <3>1, <3>4, <4>1 DEF RunningAge, Reached, Unseen, Matched
    <3> QED
      BY <1>2, <1>3, <2>1, <3>1, <3>3, <3>4 DEF AgeInv
  <2> QED
    BY <2>2, <2>3
<1>7. CASE Pop
  <2>1. /\ UNCHANGED <<coord, todo, snap, ticks>> /\ at = "pop"
        /\ held' = {e \in held : e.coord # cur}
        /\ at' = "save" /\ cur' = cur /\ coord[cur] # "stopped"
    BY <1>7 DEF Pop, world, RowInv
  <2>2. \A c \in Coordinators : Since(c)' = Since(c)
    BY <2>1 DEF Since, Unseen
  <2>3. \A c \in Coordinators : Kept(c)
    BY <1>2, <1>3, <2>1, <2>2 DEF RunningAge, Reached, Unseen, Matched
  <2> QED
    BY <1>2, <1>3, <2>1, <2>3 DEF AgeInv
<1>8. CASE Hold
  <2>1. /\ UNCHANGED <<held, todo, snap, ticks>> /\ at = "free"
        /\ cur \in Coordinators
    BY <1>8 DEF Hold, RowInv
  <2>2. CASE snap.state = "live" /\ InWindow /\ coord[cur] # "gone"
    <3>1. /\ coord' = [coord EXCEPT ![cur] = "stopped"]
          /\ at' = "stopped" /\ cur' = cur
      BY <1>8, <2>1, <2>2 DEF Hold, Goes
    <3>2. ASSUME NEW c \in Coordinators, c # cur PROVE Kept(c)
      <4>1. Since(c)' = Since(c)
        BY <2>1, <3>1, <3>2 DEF Since, Unseen
      <4> QED
        BY <1>2, <1>3, <2>1, <3>1, <3>2, <4>1 DEF RunningAge, Reached, Unseen, Matched
    <3>3. ASSUME worker[cur] = "live"
          PROVE  Matched(cur)' \/ age[cur] <= Since(cur)'
      <4>1. CASE snap.no = evals[cur]
        BY <1>2, <2>1, <3>1, <4>1 DEF Matched
      <4>2. CASE snap.no # evals[cur]
        BY <1>3, <2>1, <3>3, <4>2 DEF Since
      <4> QED
        BY <4>1, <4>2
    <3> QED
      BY <1>2, <1>3, <2>1, <3>1, <3>2, <3>3 DEF AgeInv
  <2>3. CASE ~ (snap.state = "live" /\ InWindow /\ coord[cur] # "gone")
    <3>1. coord' = coord /\ at' = "rows" /\ cur' = None
      BY <1>8, <2>3 DEF Hold, NextRow
    <3>2. \A c \in Coordinators : Since(c)' = Since(c)
      BY <2>1, <3>1 DEF Since, Unseen
    <3>3. \A c \in Coordinators : Kept(c)
      BY <1>2, <1>3, <2>1, <2>3, <3>1, <3>2 DEF RunningAge, Reached, Unseen, Matched
    <3> QED
      BY <1>2, <1>3, <2>1, <3>1, <3>3 DEF AgeInv
  <2> QED
    BY <2>2, <2>3
<1>9. CASE Record
  <2>1. /\ UNCHANGED <<coord, todo, snap, ticks>> /\ at = "stopped"
        /\ held' = held \cup {Entry} /\ at' = "save" /\ cur' = cur
    BY <1>9 DEF Record, world
  <2>2. \A c \in Coordinators : Since(c)' = Since(c)
    BY <2>1 DEF Since, Unseen
  <2>3. \A c \in Coordinators : Matched(c) => Matched(c)'
    BY <1>2, <2>1 DEF Matched, Entry
  <2>4. \A c \in Coordinators : Kept(c)
    BY <1>2, <1>3, <2>1, <2>2, <2>3 DEF RunningAge, Reached, Unseen
  <2> QED
    BY <1>2, <1>3, <2>1, <2>4 DEF AgeInv
<1>11. CASE Save
  <2>1. /\ UNCHANGED <<coord, held, todo, snap, ticks>> /\ at = "save"
        /\ at' = "rows" /\ cur' = None
    BY <1>11 DEF Save, world, NextRow
  <2>2. \A c \in Coordinators : Unseen(c)' <=> Unseen(c)
    BY <2>1, NoneIsNoCoordinator DEF Unseen
  <2>3. \A c \in Coordinators : Kept(c)
    BY <1>2, <1>3, <2>1, <2>2 DEF RunningAge, Reached, Since, Matched
  <2> QED
    BY <1>2, <1>3, <2>1, <2>3 DEF AgeInv
<1>10. CASE PassEnds
  <2>1. /\ UNCHANGED <<coord, held, cur, at, snap>> /\ at = "rows"
        /\ todo = {} /\ todo' = Coordinators /\ ticks' = 0
    BY <1>10 DEF PassEnds, world
  <2>2. \A c \in Coordinators : Since(c) = ticks /\ Since(c)' = PassTicks
    BY <2>1 DEF Since, Unseen
  <2>3. ASSUME NEW c \in Coordinators, worker[c] = "live", coord'[c] = "running"
        PROVE  RunningAge(c)'
    <3>1. age[c] >= New \/ c \in late \/ age[c] <= Old - Early + ticks
      BY <1>3, <2>1, <2>3 DEF RunningAge, Unseen
    <3>2. age[c] <= Old - Early + ticks => age[c] < Old - PassTicks
      BY <1>3
    <3> QED
      BY <1>2, <2>1, <3>1, <3>2 DEF RunningAge, Reached, Unseen
  <2>4. \A c \in Coordinators : Kept(c)
    BY <1>2, <1>3, <2>1, <2>2, <2>3 DEF Matched
  <2> QED
    BY <1>2, <1>3, <2>1, <2>4 DEF AgeInv
<1> QED
  BY <1>4, <1>5, <1>6, <1>7, <1>8, <1>9, <1>10, <1>11 DEF LoopStep

LEMMA NextAgeInv ==
  ASSUME LongEnough, IInv, IInv', AgeInv, [Next]_vars
  PROVE  AgeInv'
<1>1. CASE UNCHANGED vars
  BY <1>1 DEF AgeInv, RunningAge, Reached, Matched, Since, Unseen, InWindow, vars,
              world, loop
<1>2. CASE DockerFails \/ Terminate \/ Kill \/ Release
  BY <1>2 DEF DockerFails, Terminate, Kill, Release, ReleaseAll, Ends, AgeInv
<1> QED
  BY <1>1, <1>2, WorldAgeInv, LoopAgeInv DEF Next

\* For any coordinators and timeouts, a coordinator abandons no worker before
\* the new timeout while the watchdog is up (live_eval_watchdog.py 85-104),
\* if the old one leaves a pass before the window: two looks are less than the
\* window apart, and a worker that is started behind the back of the loop is
\* not that old yet when its turn comes.
THEOREM NoneAbandonedEarly == LongEnough => (Spec => NoEarlyAbandon)
<1> SUFFICES ASSUME LongEnough PROVE Spec => NoEarlyAbandon
  OBVIOUS
<1>1. AgeInv /\ IInv /\ IInv' /\ [Next]_vars => AgeInv'
  BY NextAgeInv
<1>2. ASSUME IInv, AgeInv, [Next]_vars
      PROVE  [\A c \in Coordinators :
                dog = "up" /\ Abandon(c) /\ c \notin late => age[c] >= New]_vars
  <2> SUFFICES ASSUME NEW c \in Coordinators, dog = "up", Abandon(c), c \notin late
               PROVE  age[c] >= New
    OBVIOUS
  <2>1. /\ coord[c] = "running" /\ worker[c] = "live" /\ age[c] >= Old
        /\ age[c] \in Nat /\ ticks \in Nat
    BY <1>2 DEF Abandon, IInv, TypeOK
  <2>2. RunningAge(c) /\ ticks <= PassTicks
    BY <1>2, <2>1 DEF AgeInv
  <2>3. ~ Reached(c) /\ ~ (age[c] <= Old - Early + ticks)
    BY <2>1, <2>2, Times DEF Reached
  <2> QED
    BY <2>2, <2>3 DEF RunningAge
<1> QED
  BY <1>1, <1>2, InitAgeInv, Inductive, PTL DEF Spec, NoEarlyAbandon

=============================================================================
