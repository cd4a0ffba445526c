--------------------------- MODULE EohBudgetProofs --------------------------
(***************************************************************************)
(* Proofs about EohBudget, for any budget, population size, number of      *)
(* operators, workers and lives.  The inductive invariant counts threads:  *)
(* those that are admitted and have not started their candidate, and those *)
(* that may still come to ask for an admission.  The seed makes the first  *)
(* batch one slot larger than the budget; the slot is taken back when the  *)
(* first i1 claims the seed, before any thread of that batch can ask.  A   *)
(* second invariant, RunInv, weighs what is unspent against the threads of *)
(* the batch at hand and the slots of the batches to come.                 *)
(***************************************************************************)
EXTENDS EohBudget, FiniteSetTheorems, SequenceTheorems, TLAPS

Places == {"off", "wait", "asked", "seed", "new", "locked", "admitted",
           "running", "over"}

Admitted == {s \in Slots : at[s] = "admitted"}
Hopeful == {s \in Slots : at[s] \in {"wait", "asked", "new", "locked"}}

\* The seed has not been taken by a slot of the first batch.
SeedFree == gen = 0 /\ ~ claimed

Generations == [best : Objectives, wasted : 0 .. Limit]

\* The part of the types that the argument needs.
Typed ==
  /\ submitted \in 0 .. Limit /\ row \in 0 .. Limit /\ ran \in Nat
  /\ claimed \in BOOLEAN /\ gen \in Nat
  /\ best \in Objectives /\ offspring \in Objectives /\ wasted \in 0 .. Limit
  /\ saved \in Seq(Generations)
  /\ at \in [Slots -> Places]

\* The lock has one holder, whose reading of the ledger is current.
LockInv ==
  /\ \A s, t \in Slots : at[s] = "locked" /\ at[t] = "locked" => s = t
  /\ \A s \in Slots : at[s] = "locked" => row = submitted

\* Every thread that may ask for an admission will get one.
RoomInv ==
  /\ pc # "batch" => at = Idle
  /\ pc = "seeding" => ~ claimed
  /\ pc = "loop" /\ gen = 0 => ~ claimed
  /\ SeedFree => \A s \in Slots : at[s] \in {"off", "wait"}
  /\ submitted + Cardinality(Hopeful) <= Limit + (IF SeedFree THEN 1 ELSE 0)

IInv == Typed /\ LockInv /\ ReservedBeforeRun /\ RoomInv /\ NeverRefused

-----------------------------------------------------------------------------
(* Counting. *)

LEMMA SlotsFinite ==
  /\ IsFiniteSet(Slots)
  /\ \A T \in SUBSET Slots : IsFiniteSet(T) /\ Cardinality(T) \in Nat
<1>1. IsFiniteSet(Slots)
  BY FS_Interval, EohAssumption DEF Slots
<1>2. ASSUME NEW T \in SUBSET Slots
      PROVE  IsFiniteSet(T) /\ Cardinality(T) \in Nat
  BY <1>1, FS_Subset, FS_CardinalityType
<1> QED
  BY <1>1, <1>2

\* Nobody is counted while all threads are off.
LEMMA IdleCounts ==
  at = Idle => Cardinality(Admitted) = 0 /\ Cardinality(Hopeful) = 0
<1> SUFFICES ASSUME at = Idle
             PROVE  Cardinality(Admitted) = 0 /\ Cardinality(Hopeful) = 0
  OBVIOUS
<1>1. Admitted = {} /\ Hopeful = {}
  BY DEF Idle, Admitted, Hopeful
<1> QED
  BY <1>1, FS_EmptySet

\* A thread that moves changes each count by what it was and what it becomes.
LEMMA MoveCounts ==
  ASSUME Typed, NEW s \in Slots, NEW w \in Places, Goto(s, w)
  PROVE  /\ Admitted' = IF w = "admitted" THEN Admitted \cup {s}
                        ELSE Admitted \ {s}
         /\ Hopeful' = IF w \in {"wait", "asked", "new", "locked"}
                       THEN Hopeful \cup {s} ELSE Hopeful \ {s}
         /\ at' \in [Slots -> Places]
         /\ at'[s] = w
         /\ \A t \in Slots \ {s} : at'[t] = at[t]
BY DEF Typed, Goto, Admitted, Hopeful

LEMMA CountBounds ==
  ASSUME NEW T \in SUBSET Slots, NEW s \in Slots
  PROVE  /\ Cardinality(T) \in Nat
         /\ Cardinality(T \cup {s}) =
              IF s \in T THEN Cardinality(T) ELSE Cardinality(T) + 1
         /\ Cardinality(T \ {s}) =
              IF s \in T THEN Cardinality(T) - 1 ELSE Cardinality(T)
BY SlotsFinite, FS_AddElement, FS_RemoveElement

-----------------------------------------------------------------------------
(* Types. *)

LEMMA Parameters ==
  /\ Limit \in Nat /\ Limit > 0 /\ PopSize \in Nat /\ PopSize > 0
  /\ Operators \in Nat
BY EohAssumption

LEMMA LeastType ==
  /\ \A m, n \in Objectives : Least(m, n) \in Objectives
  /\ \A m, n \in Nat : Least(m, n) \in Nat /\ Least(m, n) <= m
                        /\ Least(m, n) <= n
BY DEF Least, Objectives, Better, SeedObjective, Sentinel, NoObjective

LEMMA WasteType ==
  ASSUME Typed, Waste
  PROVE  wasted' \in 0 .. Limit
BY Parameters DEF Typed, Waste, Least

LEMMA InitTyped == Init => Typed
<1> SUFFICES ASSUME Init PROVE Typed
  OBVIOUS
<1>1. at \in [Slots -> Places] /\ saved \in Seq(Generations)
  BY DEF Init, Idle, Places
<1>2. best \in Objectives /\ offspring \in Objectives
  BY DEF Init, Objectives
<1>3. /\ submitted \in 0 .. Limit /\ row \in 0 .. Limit
      /\ wasted \in 0 .. Limit /\ ran \in Nat /\ gen \in Nat
  BY Parameters DEF Init
<1>4. claimed \in BOOLEAN
  BY DEF Init
<1> QED
  BY <1>1, <1>2, <1>3, <1>4 DEF Typed

LEMMA SlotTyped ==
  ASSUME Typed, NEW s \in Slots, SlotStep(s)
  PROVE  Typed'
<1> USE Parameters, LeastType, WasteType
    DEF Typed, Goto, Places, files, history
<1>1. CASE Ask(s) BY <1>1 DEF Ask
<1>2. CASE AnswerNew(s) BY <1>2 DEF AnswerNew
<1>3. CASE AnswerSeed(s) BY <1>3 DEF AnswerSeed
<1>4. CASE AnswerFails(s) BY <1>4 DEF AnswerFails
<1>5. CASE EvaluateSeed(s)
  BY <1>5 DEF EvaluateSeed, Objectives, SeedObjective, Sentinel
<1>6. CASE Lock(s) BY <1>6 DEF Lock
<1>7. CASE Admit(s)
  <2>1. CASE row >= Limit BY <1>7, <2>1 DEF Admit
  <2>2. CASE ~ (row >= Limit)
    <3>1. row + 1 \in 0 .. Limit
      BY <2>2
    <3> QED
      BY <1>7, <2>2, <3>1 DEF Admit
  <2> QED
    BY <2>1, <2>2
<1>8. CASE Execute(s) BY <1>8 DEF Execute
<1>9. CASE ExecutionEnds(s)
  BY <1>9 DEF ExecutionEnds, Objectives, Better, Sentinel
<1> QED
  BY <1>1, <1>2, <1>3, <1>4, <1>5, <1>6, <1>7, <1>8, <1>9 DEF SlotStep

LEMMA LoopTyped ==
  ASSUME Typed, Start \/ EvaluateSeedFirst \/ OpenBatch \/ CloseBatch \/ Crash
  PROVE  Typed'
<1> USE Parameters, LeastType DEF Typed, files, history, Idle, Places
<1>1. CASE Start BY <1>1 DEF Start
<1>2. CASE EvaluateSeedFirst
  <2>1. ASSUME saved # <<>>
        PROVE  /\ Len(saved) \in Nat
               /\ saved[Len(saved)].best \in Objectives
               /\ saved[Len(saved)].wasted \in 0 .. Limit
    <3>1. Len(saved) \in Nat /\ saved[Len(saved)] \in Generations
      BY <2>1, EmptySeq, ElementOfSeq, LenProperties
    <3> QED
      BY <3>1 DEF Generations
  <2>2. NoObjective \in Objectives /\ 0 \in 0 .. Limit
    BY DEF Objectives
  <2>3. \/ UNCHANGED <<gen, best, wasted>>
        \/ /\ saved # <<>>
           /\ gen' = Len(saved)
           /\ best' = saved[Len(saved)].best
           /\ wasted' = saved[Len(saved)].wasted
        \/ gen' = 0 /\ best' = NoObjective /\ wasted' = 0
    BY <1>2 DEF EvaluateSeedFirst
  <2>4. gen' \in Nat /\ best' \in Objectives /\ wasted' \in 0 .. Limit
    <3>1. CASE UNCHANGED <<gen, best, wasted>>
      BY <3>1
    <3>2. CASE /\ saved # <<>>
               /\ gen' = Len(saved)
               /\ best' = saved[Len(saved)].best
               /\ wasted' = saved[Len(saved)].wasted
      BY <3>2, <2>1
    <3>3. CASE gen' = 0 /\ best' = NoObjective /\ wasted' = 0
      BY <3>3, <2>2
    <3> QED
      BY <2>3, <3>1, <3>2, <3>3
  <2> QED
    BY <1>2, <2>4 DEF EvaluateSeedFirst
<1>3. CASE OpenBatch BY <1>3 DEF OpenBatch, Objectives, NoObjective
<1>4. CASE CloseBatch
  <2>1. best' \in Objectives
    BY <1>4 DEF CloseBatch
  <2>2. [best |-> best', wasted |-> wasted] \in Generations
    BY <2>1 DEF Generations
  <2>3. Append(saved, [best |-> best', wasted |-> wasted]) \in Seq(Generations)
    BY <2>2
  <2>4. saved' \in Seq(Generations) /\ gen' \in Nat
    <3>1. \/ saved' = saved /\ gen' = gen
          \/ /\ saved' = Append(saved, [best |-> best', wasted |-> wasted])
             /\ gen' = gen + 1
      BY <1>4 DEF CloseBatch
    <3>2. gen \in Nat /\ gen + 1 \in Nat
      OBVIOUS
    <3>3. gen' \in Nat
      BY ONLY <3>1, <3>2
    <3>4. saved' \in Seq(Generations)
      BY <2>3, <3>1
    <3> QED
      BY <3>3, <3>4
  <2> QED
    BY <1>4, <2>1, <2>4 DEF CloseBatch
<1>5. CASE Crash BY <1>5 DEF Crash
<1> QED
  BY <1>1, <1>2, <1>3, <1>4, <1>5

-----------------------------------------------------------------------------
(* The invariant is inductive. *)

LEMMA InitIInv == Init => IInv
<1> SUFFICES ASSUME Init PROVE IInv
  OBVIOUS
<1>1. Typed
  BY InitTyped
<1>2. Cardinality(Admitted) = 0 /\ Cardinality(Hopeful) = 0
  BY IdleCounts DEF Init
<1>3. LockInv
  BY DEF Init, LockInv, Idle
<1>4. ReservedBeforeRun
  BY <1>2 DEF Init, ReservedBeforeRun, Admitted
<1>5. RoomInv
  BY <1>2, Parameters DEF Init, RoomInv, Idle, SeedFree
<1> QED
  BY <1>1, <1>3, <1>4, <1>5 DEF IInv, NeverRefused, Init

\* Steps that leave all threads off, or turn them off.
LEMMA QuietSteps ==
  ASSUME IInv, Start \/ EvaluateSeedFirst \/ CloseBatch \/ Crash
  PROVE  IInv'
<1> USE Parameters DEF IInv
<1>1. at' = Idle
  BY DEF Start, EvaluateSeedFirst, CloseBatch, Crash, RoomInv
<1>2. Cardinality(Admitted') = 0 /\ Cardinality(Hopeful') = 0
  <2>1. Admitted' = {} /\ Hopeful' = {}
    BY <1>1 DEF Idle, Admitted, Hopeful
  <2> QED
    BY <2>1, FS_EmptySet
<1>3. submitted' = submitted /\ ran' = ran /\ row' = row /\ refused' = refused
  BY DEF Start, EvaluateSeedFirst, CloseBatch, Crash, files, process, history
<1>4. Typed'
  BY LoopTyped
<1>5. LockInv'
  BY <1>1 DEF LockInv, Idle
<1>6. ReservedBeforeRun'
  <2>1. ReservedBeforeRun <=> ran + Cardinality(Admitted) <= submitted
    BY DEF ReservedBeforeRun, Admitted
  <2>2. ReservedBeforeRun' <=> ran' + Cardinality(Admitted') <= submitted'
    BY DEF ReservedBeforeRun, Admitted
  <2>3. Cardinality(Admitted) \in Nat
    BY SlotsFinite DEF Admitted
  <2> QED
    BY <1>2, <1>3, <2>1, <2>2, <2>3 DEF Typed
<1>7. RoomInv'
  <2>1. /\ pc' = "seeding" => ~ claimed'
        /\ pc' = "loop" /\ gen' = 0 => ~ claimed'
    <3>1. CASE CloseBatch
      BY <3>1 DEF CloseBatch, Typed, Following
    <3> QED
      BY <3>1 DEF Start, EvaluateSeedFirst, Crash, RoomInv, files, Following
  <2>2. \A s \in Slots : at'[s] \in {"off", "wait"}
    BY <1>1 DEF Idle
  <2> QED
    BY <1>1, <1>2, <1>3, <1>4, <2>1, <2>2 DEF RoomInv, SeedFree, Typed, Idle
<1> QED
  BY <1>3, <1>4, <1>5, <1>6, <1>7 DEF NeverRefused

\* The batch is opened no larger than what is left, plus the seed's slot.
LEMMA OpenStep ==
  ASSUME IInv, OpenBatch
  PROVE  IInv'
<1> USE Parameters DEF IInv
<1>1. Typed' /\ submitted' = submitted /\ ran' = ran /\ row' = row
      /\ refused' = refused /\ gen' = gen /\ claimed' = claimed
      /\ pc' = "batch"
  BY LoopTyped DEF OpenBatch, files, history
<1> DEFINE n == BatchSize(Limit - submitted)
<1>2. n \in Nat /\ n <= PopSize
      /\ submitted + n <= Limit + (IF SeedFree THEN 1 ELSE 0)
  BY DEF OpenBatch, BatchSize, Least, Typed, RoomInv, SeedFree
<1>3. at' = [s \in Slots |-> IF s <= n THEN "wait" ELSE "off"]
  BY DEF OpenBatch
<1>4. Admitted' = {} /\ Hopeful' = 1 .. n
  <2>1. Hopeful' = {s \in Slots : s <= n}
    BY <1>3 DEF Hopeful
  <2>2. {s \in Slots : s <= n} = 1 .. n
    BY <1>2 DEF Slots
  <2>3. Admitted' = {}
    BY <1>3 DEF Admitted
  <2> QED
    BY <2>1, <2>2, <2>3
<1>5. Cardinality(Admitted') = 0 /\ Cardinality(Hopeful') = n
  BY <1>2, <1>4, FS_EmptySet, FS_Interval
<1>6. LockInv'
  BY <1>3 DEF LockInv
<1>7. ReservedBeforeRun'
  <2>1. ReservedBeforeRun <=> ran + Cardinality(Admitted) <= submitted
    BY DEF ReservedBeforeRun, Admitted
  <2>2. ReservedBeforeRun' <=> ran' + Cardinality(Admitted') <= submitted'
    BY DEF ReservedBeforeRun, Admitted
  <2>3. Cardinality(Admitted) \in Nat
    BY SlotsFinite DEF Admitted
  <2> QED
    BY <1>1, <1>5, <2>1, <2>2, <2>3 DEF Typed
<1>8. RoomInv'
  BY <1>1, <1>2, <1>3, <1>5 DEF RoomInv, SeedFree
<1> QED
  BY <1>1, <1>6, <1>7, <1>8 DEF NeverRefused

\* What the invariant says of a thread that is at work.
LEMMA AtWork ==
  ASSUME IInv, NEW s \in Slots, at[s] # "off"
  PROVE  /\ pc = "batch"
         /\ at[s] # "wait" => ~ SeedFree
         /\ Cardinality(Hopeful) \in Nat /\ Cardinality(Admitted) \in Nat
         /\ ran + Cardinality(Admitted) <= submitted
BY SlotsFinite
   DEF IInv, RoomInv, Idle, Hopeful, Admitted, ReservedBeforeRun

\* A thread that moves on without touching the ledger, and does not come to
\* hold the lock or an admission, nor gives up an admission.
LEMMA PlainMove ==
  ASSUME IInv, Typed', NEW s \in Slots, NEW w \in Places, Goto(s, w),
         at[s] \notin {"off", "admitted"},
         w \notin {"off", "wait", "locked", "admitted"},
         w \in {"asked", "new"} => at[s] \in {"wait", "asked"},
         gen = 0 /\ claimed = FALSE /\ at[s] = "wait"
           => claimed' = TRUE /\ w = "seed",
         ~ SeedFree => ~ SeedFree',
         UNCHANGED <<submitted, row, ran, refused, pc, gen>>
  PROVE  IInv'
<1> USE DEF IInv
<1>1. /\ pc = "batch" /\ (at[s] # "wait" => ~ SeedFree)
      /\ Cardinality(Hopeful) \in Nat /\ Cardinality(Admitted) \in Nat
      /\ ran + Cardinality(Admitted) <= submitted
  BY AtWork
<1>2. /\ Admitted' = Admitted \ {s}
      /\ Hopeful' = IF w \in {"asked", "new"} THEN Hopeful \cup {s}
                    ELSE Hopeful \ {s}
      /\ at'[s] = w
      /\ \A t \in Slots \ {s} : at'[t] = at[t]
  BY MoveCounts
<1>3. ~ SeedFree'
  BY DEF SeedFree, Typed, Goto, RoomInv
<1>4. Cardinality(Admitted') = Cardinality(Admitted)
  <2>1. Admitted \ {s} = Admitted
    BY DEF Admitted
  <2> QED
    BY <1>2, <2>1
<1>5. /\ Cardinality(Hopeful') <= Cardinality(Hopeful)
      /\ SeedFree => Cardinality(Hopeful') = Cardinality(Hopeful) - 1
  <2>1. Hopeful \in SUBSET Slots
    BY DEF Hopeful
  <2>2. CASE w \in {"asked", "new"}
    <3>1. s \in Hopeful /\ Hopeful' = Hopeful
      BY <1>2, <2>2 DEF Hopeful
    <3>2. ~ SeedFree
      BY <1>1, <2>2 DEF SeedFree, Typed
    <3> QED
      BY <1>1, <3>1, <3>2
  <2>3. CASE w \notin {"asked", "new"}
    <3>1. SeedFree => s \in Hopeful
      BY <1>1 DEF Hopeful
    <3>2. Hopeful' = Hopeful \ {s}
      BY <1>2, <2>3
    <3>3. Cardinality(Hopeful \ {s}) =
            IF s \in Hopeful THEN Cardinality(Hopeful) - 1
            ELSE Cardinality(Hopeful)
      BY <2>1, CountBounds
    <3> QED
      BY <1>1, <3>1, <3>2, <3>3
  <2> QED
    BY <2>2, <2>3
<1>6. LockInv'
  BY <1>2 DEF LockInv
<1>7. ReservedBeforeRun'
  BY <1>1, <1>4 DEF ReservedBeforeRun, Admitted
<1>8. RoomInv'
  <2>1. Cardinality(Hopeful') \in Nat
    BY SlotsFinite DEF Hopeful
  <2>2. submitted' + Cardinality(Hopeful') <= Limit
    BY <1>1, <1>5, <2>1, Parameters DEF RoomInv, Typed
  <2> QED
    BY <1>1, <1>3, <2>2, Parameters DEF RoomInv
<1> QED
  BY <1>6, <1>7, <1>8 DEF NeverRefused

LEMMA LockStep ==
  ASSUME IInv, NEW s \in Slots, Lock(s)
  PROVE  IInv'
<1> USE DEF IInv
<1>1. at[s] = "new" /\ ~ Locked /\ Goto(s, "locked") /\ row' = submitted
      /\ UNCHANGED <<submitted, claimed, ran, refused, pc, gen>>
  BY DEF Lock, files, history
<1>2. Typed'
  BY SlotTyped DEF SlotStep
<1>3. /\ pc = "batch" /\ ~ SeedFree
      /\ ran + Cardinality(Admitted) <= submitted
  BY <1>1, AtWork
<1>4. /\ Admitted' = Admitted \ {s} /\ Hopeful' = Hopeful \cup {s}
      /\ at'[s] = "locked"
      /\ \A t \in Slots \ {s} : at'[t] = at[t]
  BY <1>1, MoveCounts DEF Places
<1>5. Admitted' = Admitted /\ Hopeful' = Hopeful
  BY <1>1, <1>4 DEF Admitted, Hopeful
<1>6. LockInv'
  BY <1>1, <1>4 DEF LockInv, Locked
<1>7. ReservedBeforeRun'
  BY <1>1, <1>3, <1>5 DEF ReservedBeforeRun, Admitted
<1>8. RoomInv'
  BY <1>1, <1>3, <1>5 DEF RoomInv, SeedFree
<1> QED
  BY <1>1, <1>2, <1>6, <1>7, <1>8 DEF NeverRefused

LEMMA AdmitStep ==
  ASSUME IInv, NEW s \in Slots, Admit(s)
  PROVE  IInv'
<1> USE DEF IInv
<1>1. at[s] = "locked" /\ row = submitted
      /\ UNCHANGED <<claimed, row, ran, pc, gen>>
  BY DEF Admit, LockInv
<1>2. /\ pc = "batch" /\ ~ SeedFree
      /\ Cardinality(Hopeful) \in Nat /\ Cardinality(Admitted) \in Nat
      /\ ran + Cardinality(Admitted) <= submitted
  BY <1>1, AtWork
<1>3. s \in Hopeful /\ Hopeful \in SUBSET Slots
      /\ s \notin Admitted /\ Admitted \in SUBSET Slots
  BY <1>1 DEF Hopeful, Admitted
<1>4. Cardinality(Hopeful) >= 1
  <2>1. Hopeful # {} /\ IsFiniteSet(Hopeful)
    BY <1>3, SlotsFinite
  <2>2. Cardinality(Hopeful) # 0
    BY <2>1, FS_EmptySet
  <2> QED
    BY <1>2, <2>2
<1>5. submitted < Limit
  BY <1>2, <1>4, Parameters DEF RoomInv, Typed
<1>6. submitted' = submitted + 1 /\ Goto(s, "admitted") /\ refused' = refused
  BY <1>1, <1>5, Parameters DEF Admit, Typed
<1>7. Typed'
  BY SlotTyped DEF SlotStep
<1>8. /\ Admitted' = Admitted \cup {s} /\ Hopeful' = Hopeful \ {s}
      /\ at'[s] = "admitted"
      /\ \A t \in Slots \ {s} : at'[t] = at[t]
  BY <1>6, MoveCounts DEF Places
<1>9. /\ Cardinality(Admitted') = Cardinality(Admitted) + 1
      /\ Cardinality(Hopeful') = Cardinality(Hopeful) - 1
  BY <1>3, <1>8, CountBounds
<1>10. LockInv'
  BY <1>1, <1>8 DEF LockInv
<1>11. ReservedBeforeRun'
  BY <1>1, <1>2, <1>6, <1>9 DEF ReservedBeforeRun, Admitted, Typed
<1>12. RoomInv'
  BY <1>1, <1>2, <1>6, <1>8, <1>9, Parameters DEF RoomInv, SeedFree, Typed
<1> QED
  BY <1>6, <1>7, <1>10, <1>11, <1>12 DEF NeverRefused

LEMMA ExecuteStep ==
  ASSUME IInv, NEW s \in Slots, Execute(s)
  PROVE  IInv'
<1> USE DEF IInv
<1>1. at[s] = "admitted" /\ Goto(s, "running") /\ ran' = ran + 1
      /\ UNCHANGED <<submitted, row, claimed, refused, pc, gen>>
  BY DEF Execute, files
<1>2. Typed'
  BY SlotTyped DEF SlotStep
<1>3. /\ pc = "batch" /\ ~ SeedFree
      /\ Cardinality(Hopeful) \in Nat /\ Cardinality(Admitted) \in Nat
      /\ ran + Cardinality(Admitted) <= submitted
  BY <1>1, AtWork
<1>4. /\ Admitted' = Admitted \ {s} /\ Hopeful' = Hopeful \ {s}
      /\ at'[s] = "running"
      /\ \A t \in Slots \ {s} : at'[t] = at[t]
  BY <1>1, MoveCounts DEF Places
<1>5. Hopeful' = Hopeful
  BY <1>1, <1>4 DEF Hopeful
<1>6. Cardinality(Admitted') = Cardinality(Admitted) - 1
  BY <1>1, <1>4, CountBounds DEF Admitted
<1>7. LockInv'
  BY <1>1, <1>4 DEF LockInv
<1>8. ReservedBeforeRun'
  BY <1>1, <1>3, <1>6 DEF ReservedBeforeRun, Admitted, Typed
<1>9. RoomInv'
  BY <1>1, <1>3, <1>4, <1>5 DEF RoomInv, SeedFree
<1> QED
  BY <1>1, <1>2, <1>7, <1>8, <1>9 DEF NeverRefused

LEMMA SlotIInv ==
  ASSUME IInv, NEW s \in Slots, SlotStep(s)
  PROVE  IInv'
<1>1. Typed'
  BY SlotTyped DEF IInv
<1>2. CASE Ask(s)
  <2>1. CASE TakesSeed
    BY <1>1, <1>2, <2>1, PlainMove
    DEF Ask, TakesSeed, SeedFree, Places, history, IInv
  <2>2. CASE ~ TakesSeed
    BY <1>1, <1>2, <2>2, PlainMove
    DEF Ask, TakesSeed, SeedFree, Places, history, IInv, Typed
  <2> QED
    BY <2>1, <2>2
<1>3. CASE AnswerNew(s)
  BY <1>1, <1>3, PlainMove DEF AnswerNew, SeedFree, Places, files, history
<1>4. CASE AnswerSeed(s)
  BY <1>1, <1>4, PlainMove DEF AnswerSeed, SeedFree, Places, files
<1>5. CASE AnswerFails(s)
  BY <1>1, <1>5, PlainMove DEF AnswerFails, SeedFree, Places
<1>6. CASE EvaluateSeed(s)
  BY <1>1, <1>6, PlainMove DEF EvaluateSeed, SeedFree, Places, files
<1>7. CASE ExecutionEnds(s)
  BY <1>1, <1>7, PlainMove DEF ExecutionEnds, SeedFree, Places, files, history
<1> QED
  BY <1>2, <1>3, <1>4, <1>5, <1>6, <1>7, LockStep, AdmitStep, ExecuteStep
  DEF SlotStep

LEMMA NextIInv == IInv /\ [Next]_vars => IInv'
<1> SUFFICES ASSUME IInv, [Next]_vars PROVE IInv'
  OBVIOUS
<1>1. CASE Start \/ EvaluateSeedFirst \/ CloseBatch \/ Crash
  BY <1>1, QuietSteps
<1>2. CASE OpenBatch
  BY <1>2, OpenStep
<1>3. ASSUME NEW s \in Slots, SlotStep(s) PROVE IInv'
  BY <1>3, SlotIInv
<1>4. CASE UNCHANGED vars
  <2>1. UNCHANGED <<submitted, row, ran, claimed, gen, best, offspring,
                    wasted, saved, at, pc, refused>>
    BY <1>4 DEF vars, files, process, history
  <2>2. Hopeful' = Hopeful /\ (SeedFree' <=> SeedFree)
    BY <2>1 DEF Hopeful, SeedFree
  <2> QED
    BY <2>1, <2>2
    DEF IInv, Typed, LockInv, ReservedBeforeRun, RoomInv, NeverRefused
<1> QED
  BY <1>1, <1>2, <1>3, <1>4 DEF Next

-----------------------------------------------------------------------------
(* The second invariant: what a generation leaves for those after it, and   *)
(* the seed's place in the first one.                                       *)

Unspent == Limit - submitted - wasted

GenerationSlots == PopSize * Operators

\* The slots of the batches after the one at hand, if they are all opened.
Later ==
  GenerationSlots * (NPop - gen)
    + (IF gen = 0 THEN 0 ELSE PopSize * (Operators - op))

\* A population is saved for every generation that has been finished.
SavedInv ==
  /\ lives = 0 => pc = "down"
  /\ lives \in 0 .. MaxLives
  /\ lives = 0 \/ (lives = 1 /\ pc = "seeding") => saved = <<>>
  /\ Len(saved) <= NPop + 1
  /\ pc \in {"loop", "batch"} =>
       gen = Len(saved) /\ gen <= NPop /\ (gen # 0 => op \in 1 .. Operators)

\* The threads of the batch and the slots of the batches to come are enough
\* for what is unspent, also for a life that goes on from the last save.
SpentInv ==
  /\ pc = "loop" => Unspent + (IF gen = 0 THEN 1 ELSE 0) <= Later + PopSize
  /\ pc = "batch" =>
       Unspent + (IF SeedFree THEN 1 ELSE 0) <= Later + Cardinality(Hopeful)
  /\ saved # <<>> =>
       Limit - submitted - saved[Len(saved)].wasted
         <= GenerationSlots * (NPop + 1 - Len(saved))

\* The seed's metrics are cached before the first batch is opened, some
\* thread of it takes the seed, and the population keeps what it returns.
SeedInv ==
  /\ pc \in {"loop", "batch"} => ready /\ seedCached
  /\ pc \in {"loop", "batch"} /\ gen # 0 => best <= SeedObjective
  /\ pc = "batch" /\ SeedFree => \E s \in Slots : at[s] = "wait"
  /\ pc = "batch" /\ gen = 0 /\ claimed /\ (\A s \in Slots : at[s] # "seed")
       => offspring <= SeedObjective

RunInv == SavedInv /\ SpentInv /\ BudgetIsSpent /\ SeedInv /\ NeverWorseThanSeed

\* The generations that run_eoh asks for have a slot for every admission
\* that the first batch cannot use.
LEMMA GenerationsSuffice ==
  /\ GenerationSlots \in Nat /\ GenerationSlots > 0 /\ NPop \in Nat
  /\ Limit <= GenerationSlots * NPop + PopSize - 1
<1> DEFINE b == GenerationSlots
           r == IF Limit > PopSize - 1 THEN Limit - (PopSize - 1) ELSE 0
<1>1. PopSize \in Nat /\ PopSize > 0 /\ Operators \in Nat /\ Operators > 0
      /\ Limit \in Nat /\ AskedNPop \in Nat
  BY EohAssumption
<1>2. b \in Nat /\ b > 0
  BY <1>1 DEF GenerationSlots
<1>3. r \in Nat /\ Limit <= r + PopSize - 1
  BY <1>1
<1> HIDE DEF b, r
<1>4. (r + b - 1) \div b \in Nat /\ r <= b * ((r + b - 1) \div b)
  BY <1>2, <1>3
<1>5. Capacity = (r + b - 1) \div b
  BY DEF Capacity, b, r, GenerationSlots
<1>6. NPop \in Nat /\ NPop >= Capacity /\ Capacity \in Nat
  BY <1>1, <1>4, <1>5 DEF NPop
<1>7. b * Capacity <= b * NPop
  BY <1>2, <1>6
<1>8. b * NPop \in Nat /\ b * Capacity \in Nat
  BY <1>2, <1>6
<1> QED
  BY <1>1, <1>2, <1>3, <1>4, <1>5, <1>6, <1>7, <1>8 DEF b

\* The slots that are left, when a batch or a generation is finished.
LEMMA LaterSteps ==
  ASSUME gen \in Nat, gen <= NPop, gen # 0 => op \in 1 .. Operators
  PROVE  /\ Later \in Nat
         /\ gen # 0 /\ op < Operators /\ gen' = gen /\ op' = op + 1
              => Later = Later' + PopSize
         /\ ~ (gen # 0 /\ op < Operators) /\ gen' = gen + 1 /\ op' = 1
              => /\ Later = GenerationSlots * (NPop + 1 - gen')
                 /\ Later = Later' + PopSize
<1>1. PopSize \in Nat /\ PopSize > 0 /\ Operators \in Nat /\ Operators > 0
  BY EohAssumption
<1>2. GenerationSlots \in Nat /\ NPop \in Nat
  BY GenerationsSuffice
<1>3. GenerationSlots = PopSize * Operators
  BY DEF GenerationSlots
<1>4. Later \in Nat
  <2>1. GenerationSlots * (NPop - gen) \in Nat
    BY <1>2
  <2>2. gen # 0 => PopSize * (Operators - op) \in Nat
    BY <1>1
  <2> QED
    BY <2>1, <2>2 DEF Later
<1>5. ASSUME gen # 0, op < Operators, gen' = gen, op' = op + 1
      PROVE  Later = Later' + PopSize
  <2>1. PopSize * (Operators - op) = PopSize * (Operators - (op + 1)) + PopSize
    BY <1>1, <1>5
  <2>2. GenerationSlots * (NPop - gen) \in Nat
    BY <1>2
  <2>3. PopSize * (Operators - (op + 1)) \in Nat
    BY <1>1, <1>5
  <2> QED
    BY <1>1, <1>5, <2>1, <2>2, <2>3 DEF Later
<1>6. ASSUME ~ (gen # 0 /\ op < Operators), gen' = gen + 1, op' = 1
      PROVE  /\ Later = GenerationSlots * (NPop + 1 - gen')
             /\ Later = Later' + PopSize
  <2>1. NPop + 1 - gen' = NPop - gen
    BY <1>2, <1>6
  <2>2. gen # 0 => op = Operators /\ PopSize * (Operators - op) = 0
    BY <1>1, <1>6
  <2>3. GenerationSlots * (NPop - gen) \in Nat
    BY <1>2
  <2>4. Later = GenerationSlots * (NPop - gen)
    BY <2>2, <2>3 DEF Later
  <2>5. GenerationSlots * (NPop - gen)
          = GenerationSlots * (NPop - gen') + GenerationSlots
    BY <1>2, <1>6
  <2>6. PopSize * (Operators - op') = GenerationSlots - PopSize
    BY <1>1, <1>3, <1>6
  <2>7. GenerationSlots * (NPop - gen') \in Int /\ gen' # 0
    BY <1>2, <1>6
  <2>8. Later' = GenerationSlots * (NPop - gen') + (GenerationSlots - PopSize)
    BY <2>6, <2>7 DEF Later
  <2> QED
    BY <1>1, <1>2, <2>1, <2>4, <2>5, <2>7, <2>8
<1> QED
  BY <1>4, <1>5, <1>6

\* A thread that is done with its slot has spent or wasted it.
LEMMA SlotUse ==
  ASSUME IInv, NEW s \in Slots, SlotStep(s)
  PROVE  /\ pc = "batch"
         /\ UNCHANGED <<pc, ready, seedCached, gen, op, best, saved, lives>>
         /\ submitted <= submitted'
         /\ \/ wasted' = Limit /\ ~ SeedFree'
            \/ Unspent' + (IF SeedFree' THEN 1 ELSE 0) - Cardinality(Hopeful')
                 <= Unspent + (IF SeedFree THEN 1 ELSE 0) - Cardinality(Hopeful)
<1> DEFINE Spared ==
      \/ wasted' = Limit /\ ~ SeedFree'
      \/ Unspent' + (IF SeedFree' THEN 1 ELSE 0) - Cardinality(Hopeful')
           <= Unspent + (IF SeedFree THEN 1 ELSE 0) - Cardinality(Hopeful)
<1> USE Parameters
<1>1. at[s] # "off"
  BY DEF SlotStep, Ask, AnswerNew, AnswerSeed, AnswerFails, EvaluateSeed,
         Lock, Admit, Execute, ExecutionEnds
<1>2. /\ pc = "batch" /\ (at[s] # "wait" => ~ SeedFree)
      /\ Cardinality(Hopeful) \in Nat
  BY <1>1, AtWork
<1>3. Typed /\ (\A t \in Slots : at[t] = "locked" => row = submitted)
  BY DEF IInv, LockInv
<1>4. Hopeful \in SUBSET Slots
  BY DEF Hopeful
<1>5. ASSUME NEW w \in {"asked", "new", "locked"}, Goto(s, w),
             at[s] \in {"wait", "asked", "new"}
      PROVE  Cardinality(Hopeful') = Cardinality(Hopeful)
  <2>1. Hopeful' = Hopeful \cup {s} /\ s \in Hopeful
    BY <1>3, <1>5, MoveCounts DEF Places, Hopeful
  <2> QED
    BY <1>4, <2>1, CountBounds
<1>6. ASSUME NEW w \in {"seed", "over", "admitted", "running"}, Goto(s, w)
      PROVE  Cardinality(Hopeful') =
               IF at[s] \in {"wait", "asked", "new", "locked"}
               THEN Cardinality(Hopeful) - 1 ELSE Cardinality(Hopeful)
  <2>1. Hopeful' = Hopeful \ {s}
    BY <1>3, <1>6, MoveCounts DEF Places
  <2>2. s \in Hopeful <=> at[s] \in {"wait", "asked", "new", "locked"}
    BY DEF Hopeful
  <2> QED
    BY <1>4, <2>1, <2>2, CountBounds
<1>7. ASSUME Waste, submitted' = submitted
      PROVE  wasted' = Limit \/ Unspent' = Unspent - 1
  BY <1>3, <1>7 DEF Waste, Least, Typed, Unspent
<1>8. ASSUME UNCHANGED <<submitted, wasted>>
      PROVE  Unspent' = Unspent
  BY <1>8 DEF Unspent
<1>9. Unspent \in Int
  BY <1>3 DEF Unspent, Typed
<1>10. CASE Ask(s)
  <2>1. at[s] = "wait" /\ submitted' = submitted /\ gen' = gen
    BY <1>10 DEF Ask
  <2>2. ASSUME TakesSeed PROVE Spared
    <3>1. SeedFree /\ ~ SeedFree' /\ Goto(s, "seed") /\ wasted' = wasted
      BY <1>10, <2>2 DEF Ask, TakesSeed, SeedFree
    <3>2. Cardinality(Hopeful') = Cardinality(Hopeful) - 1
      BY <1>6, <2>1, <3>1
    <3>3. Unspent' = Unspent
      BY <1>8, <2>1, <3>1
    <3> QED
      BY <1>2, <1>9, <3>1, <3>2, <3>3
  <2>3. ASSUME ~ TakesSeed PROVE Spared
    <3>1. ~ SeedFree /\ ~ SeedFree'
      BY <1>10, <2>1, <2>3 DEF Ask, TakesSeed, SeedFree
    <3>2. \/ Goto(s, "over") /\ Waste
          \/ Goto(s, "asked") /\ wasted' = wasted
      BY <1>10, <2>3 DEF Ask
    <3>3. CASE Goto(s, "over") /\ Waste
      <4>1. Cardinality(Hopeful') = Cardinality(Hopeful) - 1
        BY <1>6, <2>1, <3>3
      <4> QED
        BY <1>2, <1>7, <1>9, <2>1, <3>1, <3>3, <4>1
    <3>4. CASE Goto(s, "asked") /\ wasted' = wasted
      <4>1. Cardinality(Hopeful') = Cardinality(Hopeful)
        BY <1>5, <2>1, <3>4
      <4> QED
        BY <1>2, <1>8, <1>9, <2>1, <3>1, <3>4, <4>1
    <3> QED
      BY <3>2, <3>3, <3>4
  <2>4. Spared
    BY <2>2, <2>3
  <2> QED
    BY <1>2, <1>3, <1>10, <2>1, <2>4 DEF Ask, Typed
<1>11. CASE AnswerNew(s) \/ Lock(s)
  <2>1. /\ \E w \in {"asked", "new", "locked"} : Goto(s, w)
        /\ at[s] \in {"asked", "new"}
        /\ UNCHANGED <<submitted, wasted, claimed, gen>>
    BY <1>11 DEF AnswerNew, Lock, files, history
  <2>2. Cardinality(Hopeful') = Cardinality(Hopeful)
    BY <1>5, <2>1
  <2>3. Spared
    BY <1>2, <1>8, <1>9, <2>1, <2>2 DEF SeedFree
  <2> QED
    BY <1>2, <1>3, <1>11, <2>1, <2>3 DEF AnswerNew, Lock, files, history, Typed
<1>12. CASE AnswerSeed(s) \/ AnswerFails(s)
  <2>1. /\ \E w \in {"seed", "over"} : Goto(s, w)
        /\ at[s] = "asked" /\ Waste
        /\ UNCHANGED <<submitted, claimed, gen>>
    BY <1>12 DEF AnswerSeed, AnswerFails, files
  <2>2. ~ SeedFree /\ ~ SeedFree'
    BY <1>2, <2>1 DEF SeedFree
  <2>3. Cardinality(Hopeful') = Cardinality(Hopeful) - 1
    BY <1>6, <2>1
  <2>4. Spared
    BY <1>2, <1>7, <1>9, <2>1, <2>2, <2>3
  <2>5. UNCHANGED <<pc, ready, seedCached, gen, op, best, saved, lives>>
    <3>1. CASE AnswerSeed(s) BY <3>1 DEF AnswerSeed, files
    <3>2. CASE AnswerFails(s) BY <3>2 DEF AnswerFails
    <3> QED
      BY <1>12, <3>1, <3>2
  <2> QED
    BY <1>2, <1>3, <2>1, <2>4, <2>5 DEF Typed
<1>13. CASE EvaluateSeed(s) \/ Execute(s) \/ ExecutionEnds(s)
  <2>1. /\ \E w \in {"over", "running"} : Goto(s, w)
        /\ at[s] \in {"seed", "admitted", "running"}
        /\ UNCHANGED <<submitted, wasted, claimed, gen>>
    BY <1>13 DEF EvaluateSeed, Execute, ExecutionEnds, files, history
  <2>2. Cardinality(Hopeful') = Cardinality(Hopeful)
    BY <1>6, <2>1
  <2>3. Spared
    BY <1>2, <1>8, <1>9, <2>1, <2>2 DEF SeedFree
  <2> QED
    BY <1>2, <1>3, <1>13, <2>1, <2>3
    DEF EvaluateSeed, Execute, ExecutionEnds, files, history, Typed
<1>14. CASE Admit(s)
  <2>1. /\ at[s] = "locked" /\ row = submitted
        /\ UNCHANGED <<claimed, gen>>
    BY <1>3, <1>14 DEF Admit
  <2>2. \/ Goto(s, "over") /\ Waste /\ submitted' = submitted
        \/ Goto(s, "admitted") /\ submitted' = submitted + 1
           /\ wasted' = wasted
    BY <1>14, <2>1 DEF Admit
  <2>3. ~ SeedFree /\ ~ SeedFree'
    BY <1>2, <2>1 DEF SeedFree
  <2>4. Cardinality(Hopeful') = Cardinality(Hopeful) - 1
    BY <1>6, <2>1, <2>2
  <2>5. submitted' = submitted + 1 /\ wasted' = wasted
          => Unspent' = Unspent - 1
    BY <1>3 DEF Unspent, Typed
  <2>6. Spared
    BY <1>2, <1>7, <1>9, <2>2, <2>3, <2>4, <2>5
  <2>7. submitted <= submitted'
    BY <1>3, <2>2 DEF Typed
  <2> QED
    BY <1>2, <1>14, <2>6, <2>7 DEF Admit
<1> QED
  BY <1>10, <1>11, <1>12, <1>13, <1>14 DEF SlotStep

LEMMA InitRunInv == Init => RunInv
<1> SUFFICES ASSUME Init PROVE RunInv
  OBVIOUS
<1>1. saved = <<>> /\ Len(saved) = 0 /\ pc = "down" /\ lives = 0
  BY DEF Init
<1>2. NPop \in Nat /\ MaxLives \in Nat
  BY GenerationsSuffice, EohAssumption
<1> QED
  BY <1>1, <1>2 DEF RunInv, SavedInv, SpentInv, BudgetIsSpent, SeedInv,
                    NeverWorseThanSeed

LEMMA Differences ==
  /\ \A l, n \in Nat : l - n - l <= 0
  /\ \A l, m, n, w \in Nat, c \in Int :
       m <= n /\ l - m - w <= c => l - n - w <= c
OBVIOUS

LEMMA Sums ==
  /\ \A l, m, w \in Nat : l - m - w <= 0 => l - m <= w
  /\ \A u \in Int, l, m, n \in Nat :
       u <= l /\ l <= m + n - 1 => u + 1 <= m + n
OBVIOUS

LEMMA NoLooser ==
  ASSUME NEW u \in Int, NEW v \in Int, NEW d \in {0, 1}, NEW e \in {0, 1},
         NEW h \in Nat, NEW k \in Nat, NEW l \in Nat,
         v + e - k <= u + d - h, u + d <= l + h
  PROVE  v + e <= l + k
OBVIOUS

\* A step of a thread.
LEMMA SlotRunInv ==
  ASSUME IInv, IInv', RunInv, NEW s \in Slots, SlotStep(s)
  PROVE  RunInv'
<1> USE DEF RunInv
<1>1. /\ pc = "batch"
      /\ UNCHANGED <<pc, ready, seedCached, gen, op, best, saved, lives>>
      /\ submitted <= submitted'
      /\ \/ wasted' = Limit /\ ~ SeedFree'
         \/ Unspent' + (IF SeedFree' THEN 1 ELSE 0) - Cardinality(Hopeful')
              <= Unspent + (IF SeedFree THEN 1 ELSE 0) - Cardinality(Hopeful)
  BY SlotUse
<1>2. Typed /\ Typed'
  BY DEF IInv
<1>3. /\ Cardinality(Hopeful) \in Nat /\ Cardinality(Hopeful') \in Nat
      /\ Unspent \in Int /\ Unspent' \in Int /\ Later' = Later
      /\ Limit \in Nat /\ submitted \in Nat /\ submitted' \in Nat
  <2>1. Hopeful \in SUBSET Slots /\ Hopeful' \in SUBSET Slots
    BY DEF Hopeful
  <2> QED
    BY <1>1, <1>2, <2>1, SlotsFinite, Parameters DEF Typed, Unspent, Later
<1>4. SavedInv'
  BY <1>1 DEF SavedInv
<1>5. SpentInv'
  <2>1. Later \in Nat
    BY <1>1, <1>2, LaterSteps DEF SavedInv, Typed
  <2>2. Unspent' + (IF SeedFree' THEN 1 ELSE 0) <= Later' + Cardinality(Hopeful')
    <3>1. CASE wasted' = Limit /\ ~ SeedFree'
      <4>1. Unspent' <= 0
        BY <1>3, <3>1, Differences DEF Unspent
      <4> QED
        BY <1>3, <2>1, <3>1, <4>1
    <3>2. CASE Unspent' + (IF SeedFree' THEN 1 ELSE 0) - Cardinality(Hopeful')
                 <= Unspent + (IF SeedFree THEN 1 ELSE 0) - Cardinality(Hopeful)
      <4> DEFINE d == IF SeedFree THEN 1 ELSE 0
                 e == IF SeedFree' THEN 1 ELSE 0
      <4>1. d \in {0, 1} /\ e \in {0, 1}
        OBVIOUS
      <4>2. Unspent + d <= Later + Cardinality(Hopeful)
        BY <1>1 DEF SpentInv
      <4>3. Unspent' + e - Cardinality(Hopeful') <= Unspent + d - Cardinality(Hopeful)
        BY <3>2
      <4> HIDE DEF d, e
      <4>4. Unspent' + e <= Later + Cardinality(Hopeful')
        BY <1>3, <2>1, <4>1, <4>2, <4>3, NoLooser
      <4> QED
        BY <1>3, <4>4 DEF e
    <3> QED
      BY <1>1, <3>1, <3>2
  <2>3. saved' # <<>> =>
          Limit - submitted' - saved'[Len(saved')].wasted
            <= GenerationSlots * (NPop + 1 - Len(saved'))
    <3>1. SUFFICES ASSUME saved # <<>>
                   PROVE  Limit - submitted' - saved[Len(saved)].wasted
                            <= GenerationSlots * (NPop + 1 - Len(saved))
      BY <1>1
    <3>2. Len(saved) \in Nat /\ saved[Len(saved)] \in Generations
      BY <1>2, <3>1, EmptySeq, ElementOfSeq, LenProperties DEF Typed
    <3>3. saved[Len(saved)].wasted \in Nat
      BY <3>2, Parameters DEF Generations
    <3>4. GenerationSlots * (NPop + 1 - Len(saved)) \in Int
      BY <3>2, GenerationsSuffice
    <3>5. Limit - submitted - saved[Len(saved)].wasted
            <= GenerationSlots * (NPop + 1 - Len(saved))
      BY <3>1 DEF SpentInv
    <3> QED
      BY <1>1, <1>3, <3>3, <3>4, <3>5, Differences
  <2> QED
    BY <1>1, <2>2, <2>3 DEF SpentInv
<1>6. BudgetIsSpent'
  BY <1>1 DEF BudgetIsSpent
<1>7. NeverWorseThanSeed'
  BY <1>1 DEF NeverWorseThanSeed
<1>8. SeedInv'
  <2>1. SeedFree' => \E t \in Slots : at'[t] = "wait"
    <3>1. SUFFICES ASSUME SeedFree' PROVE \E t \in Slots : at'[t] = "wait"
      OBVIOUS
    <3>2. SeedFree
      <4>1. Ask(s) \/ claimed' = claimed
        BY DEF SlotStep, AnswerNew, AnswerSeed, AnswerFails, EvaluateSeed,
           Lock, Admit, Execute, ExecutionEnds, files
      <4>2. claimed' \/ claimed' = claimed
        BY <4>1 DEF Ask
      <4> QED
        BY <1>1, <3>1, <4>2 DEF SeedFree
    <3>3. at[s] \in {"off", "wait"}
      BY <3>2 DEF IInv, RoomInv
    <3>4. Ask(s)
      BY <3>3 DEF SlotStep, AnswerNew, AnswerSeed, AnswerFails,
         EvaluateSeed, Lock, Admit, Execute, ExecutionEnds
    <3> QED
      BY <3>1, <3>2, <3>4 DEF Ask, TakesSeed, SeedFree
  <2>2. ASSUME gen = 0, claimed', \A t \in Slots : at'[t] # "seed"
        PROVE  offspring' <= SeedObjective
    <3>1. offspring \in Objectives /\ offspring' \in Objectives
      BY <1>2 DEF Typed
    <3>2. at \in [Slots -> Places]
      BY <1>2 DEF Typed
    <3>3. CASE EvaluateSeed(s)
      <4>1. offspring' = Least(offspring, SeedObjective)
        BY <1>1, <3>3 DEF EvaluateSeed, SeedFromCache, SeedInv
      <4> QED
        BY <3>1, <4>1 DEF Least, Objectives, Better, SeedObjective, Sentinel,
                          NoObjective
    <3>4. CASE ~ EvaluateSeed(s)
      <4>1. at[s] # "seed" /\ \A t \in Slots \ {s} : at'[t] = at[t]
        BY <3>2, <3>4 DEF SlotStep, Ask, AnswerNew, AnswerSeed, AnswerFails,
           Lock, Admit, Execute, ExecutionEnds, Goto
      <4>2. \A t \in Slots : at[t] # "seed"
        BY <2>2, <4>1
      <4>3. claimed
        <5>1. CASE Ask(s)
          BY <2>2, <3>2, <5>1 DEF Ask, Goto
        <5> QED
          BY <2>2, <3>4, <5>1 DEF SlotStep, AnswerNew, AnswerSeed,
             AnswerFails, Lock, Admit, Execute, ExecutionEnds, files
      <4>4. offspring <= SeedObjective
        BY <1>1, <2>2, <4>2, <4>3 DEF SeedInv
      <4>5. CASE ExecutionEnds(s)
        BY <3>1, <4>4, <4>5
        DEF ExecutionEnds, Least, Objectives, Better, SeedObjective,
            Sentinel, NoObjective
      <4>6. CASE ~ ExecutionEnds(s)
        BY <3>4, <4>4, <4>6 DEF SlotStep, Ask, AnswerNew, AnswerSeed,
           AnswerFails, Lock, Admit, Execute
      <4> QED
        BY <4>5, <4>6
    <3> QED
      BY <3>3, <3>4
  <2> QED
    BY <1>1, <2>1, <2>2 DEF SeedInv
<1> QED
  BY <1>4, <1>5, <1>6, <1>7, <1>8

\* What a resumed run starts from.
LEMMA LatestSave ==
  ASSUME Typed, saved # <<>>
  PROVE  /\ Len(saved) \in Nat /\ Len(saved) > 0
         /\ saved[Len(saved)] \in Generations
BY EmptySeq, ElementOfSeq, LenProperties DEF Typed

\* The process starts or dies: no batch is open, the files stay.
LEMMA StopRunInv ==
  ASSUME IInv, RunInv, Start \/ Crash
  PROVE  RunInv'
<1> USE DEF RunInv
<1>1. /\ pc' \in {"down", "seeding"} /\ submitted' = submitted
      /\ saved' = saved
  BY DEF Start, Crash, files
<1>2. SavedInv'
  BY <1>1, EohAssumption DEF SavedInv, Start, Crash, history
<1>3. SpentInv'
  BY <1>1 DEF SpentInv
<1>4. BudgetIsSpent' /\ SeedInv' /\ NeverWorseThanSeed'
  BY <1>1 DEF BudgetIsSpent, SeedInv, NeverWorseThanSeed
<1> QED
  BY <1>2, <1>3, <1>4

\* The seed is evaluated: the run begins, goes on from its last save, or ends.
LEMMA SeedRunInv ==
  ASSUME IInv, IInv', RunInv, EvaluateSeedFirst
  PROVE  RunInv'
<1> USE DEF RunInv
<1>1. /\ pc = "seeding" /\ ready' = seedCached'
      /\ UNCHANGED <<submitted, saved, lives>>
  BY DEF EvaluateSeedFirst
<1>2. Typed /\ Typed'
  BY DEF IInv
<1>3. /\ NPop \in Nat /\ GenerationSlots \in Nat
      /\ Limit <= GenerationSlots * NPop + PopSize - 1
      /\ PopSize \in Nat /\ Limit \in Nat /\ Operators \in Nat /\ Operators > 0
      /\ GenerationSlots * NPop \in Nat
  BY GenerationsSuffice, EohAssumption
<1>4. NeverWorseThanSeed'
  BY <1>1 DEF NeverWorseThanSeed
<1>5. saved' # <<>> =>
        Limit - submitted' - saved'[Len(saved')].wasted
          <= GenerationSlots * (NPop + 1 - Len(saved'))
  BY <1>1 DEF SpentInv
<1>6. CASE pc' = "down"
  BY <1>1, <1>4, <1>5, <1>6
  DEF SavedInv, SpentInv, BudgetIsSpent, SeedInv
<1>7. CASE pc' # "down" /\ Resuming
  <2>1. /\ saved # <<>> /\ seedCached' /\ gen' = Len(saved) /\ op' = 1
        /\ best' = saved[Len(saved)].best
        /\ wasted' = saved[Len(saved)].wasted
        /\ pc' = Following(gen')
    BY <1>7 DEF EvaluateSeedFirst
  <2>2. /\ Len(saved) \in Nat /\ Len(saved) > 0
        /\ saved[Len(saved)] \in Generations
    BY <1>2, <2>1, LatestSave
  <2>3. /\ gen' <= NPop => pc' = "loop"
        /\ gen' > NPop => pc' = "done"
    BY <1>3, <1>7, <2>1, <2>2 DEF Following
  <2>4. Unspent' <= GenerationSlots * (NPop + 1 - gen')
    BY <1>1, <2>1 DEF SpentInv, Unspent
  <2>5. SavedInv'
    BY <1>1, <1>3, <2>1, <2>2, <2>3 DEF SavedInv
  <2>6. SpentInv'
    <3>1. CASE gen' <= NPop
      <4>1. GenerationSlots * (NPop + 1 - gen') = Later' + PopSize
        <5>1. /\ GenerationSlots * (NPop + 1 - gen')
                   = GenerationSlots * (NPop - gen') + GenerationSlots
              /\ GenerationSlots * (NPop - gen') \in Nat
          BY <1>3, <2>1, <2>2, <3>1
        <5>2. PopSize * (Operators - op') = GenerationSlots - PopSize
          BY <1>3, <2>1 DEF GenerationSlots
        <5>3. gen' # 0
          BY <2>1, <2>2
        <5>4. Later' = GenerationSlots * (NPop - gen')
                         + (GenerationSlots - PopSize)
          BY <5>2, <5>3 DEF Later
        <5> QED
          BY <1>3, <5>1, <5>4
      <4>2. Unspent' + 0 <= Later' + PopSize
        <5>1. Unspent' \in Int
          BY <1>2, <1>3 DEF Unspent, Typed
        <5> QED
          BY <2>4, <4>1, <5>1
      <4> QED
        BY <1>5, <2>1, <2>2, <2>3, <3>1, <4>2 DEF SpentInv
    <3>2. CASE gen' > NPop
      BY <1>5, <2>3, <3>2 DEF SpentInv
    <3> QED
      BY <1>3, <2>1, <2>2, <3>1, <3>2
  <2>7. BudgetIsSpent'
    <3>1. SUFFICES ASSUME pc' = "done"
                   PROVE  Limit - submitted' <= wasted'
      BY DEF BudgetIsSpent
    <3>2. gen' = NPop + 1
      BY <1>3, <2>1, <2>2, <2>3, <3>1 DEF SavedInv
    <3>3. GenerationSlots * (NPop + 1 - gen') = 0
      BY <1>3, <3>2
    <3>4. Limit - submitted' - wasted' <= 0
      BY <2>4, <3>3 DEF Unspent
    <3>5. submitted' \in Nat /\ wasted' \in Nat
      BY <1>2, <1>3 DEF Typed
    <3> QED
      BY <1>3, <3>4, <3>5, Sums
  <2>8. SeedInv'
    BY <1>1, <2>1, <2>2, <2>3, <1>3 DEF SeedInv, NeverWorseThanSeed
  <2> QED
    BY <1>4, <2>5, <2>6, <2>7, <2>8
<1>8. CASE pc' # "down" /\ ~ Resuming
  <2>1. /\ gen' = 0 /\ pc' = "loop" /\ wasted' = 0 /\ seedCached'
    BY <1>8 DEF EvaluateSeedFirst
  <2>2. lives = 1 /\ saved = <<>>
    BY <1>1, <1>8, EohAssumption DEF SavedInv, Resuming
  <2>3. SavedInv'
    BY <1>1, <1>3, <2>1, <2>2 DEF SavedInv
  <2>4. Later' = GenerationSlots * NPop
    BY <1>3, <2>1 DEF Later
  <2>5. Unspent' <= Limit
    BY <1>1, <1>2, <1>3, <2>1 DEF Unspent, Typed
  <2>6. Unspent' \in Int
    BY <1>1, <1>2, <1>3, <2>1 DEF Unspent, Typed
  <2>7. Unspent' + 1 <= Later' + PopSize
    BY <1>3, <2>4, <2>5, <2>6, Sums
  <2>8. SpentInv'
    BY <1>5, <2>1, <2>7 DEF SpentInv
  <2>9. BudgetIsSpent' /\ SeedInv'
    BY <1>1, <2>1 DEF BudgetIsSpent, SeedInv
  <2> QED
    BY <1>4, <2>3, <2>8, <2>9
<1> QED
  BY <1>6, <1>7, <1>8

\* A batch is opened, for what is left or as large as a population.
LEMMA OpenRunInv ==
  ASSUME IInv, IInv', RunInv, OpenBatch
  PROVE  RunInv'
<1> USE DEF RunInv
<1>1. /\ pc = "loop" /\ pc' = "batch"
      /\ UNCHANGED <<submitted, claimed, seedCached, saved, ready, gen, op,
                     best, lives, wasted>>
  BY DEF OpenBatch, files, history
<1>2. Typed /\ Typed'
  BY DEF IInv
<1>3. /\ Later \in Nat /\ Later' = Later /\ Unspent' = Unspent
      /\ Unspent \in Int /\ PopSize \in Nat /\ PopSize > 0 /\ Limit \in Nat
      /\ submitted \in Nat /\ wasted \in Nat /\ submitted <= Limit
  <2>1. Later \in Nat
    BY <1>1, <1>2, LaterSteps DEF SavedInv, Typed
  <2> QED
    BY <1>1, <1>2, <2>1, Parameters DEF Later, Unspent, Typed
<1> DEFINE n == BatchSize(Limit - submitted)
<1>4. /\ n \in Nat /\ n <= PopSize
      /\ n = PopSize \/ n = Limit - submitted + (IF gen = 0 THEN 1 ELSE 0)
      /\ gen = 0 => n > 0
  BY <1>2, <1>3 DEF BatchSize, Least, Typed
<1>5. at' = [s \in Slots |-> IF s <= n THEN "wait" ELSE "off"]
  BY DEF OpenBatch
<1> HIDE DEF n
<1>6. Cardinality(Hopeful') = n
  <2>1. Hopeful' = {s \in Slots : s <= n}
    BY <1>5 DEF Hopeful
  <2>2. {s \in Slots : s <= n} = 1 .. n
    BY <1>3, <1>4 DEF Slots
  <2>3. Cardinality(1 .. n) = n
    BY <1>4, FS_Interval
  <2> QED
    BY <2>1, <2>2, <2>3
<1>7. SeedFree' <=> gen = 0
  BY <1>1 DEF SeedFree, IInv, RoomInv
<1>8. SavedInv' /\ BudgetIsSpent' /\ NeverWorseThanSeed'
  BY <1>1 DEF SavedInv, BudgetIsSpent, NeverWorseThanSeed
<1>9. Unspent' + (IF SeedFree' THEN 1 ELSE 0) <= Later' + Cardinality(Hopeful')
  <2>1. Unspent + (IF gen = 0 THEN 1 ELSE 0) <= Later + PopSize
    BY <1>1 DEF SpentInv
  <2>2. Unspent <= Limit - submitted
    BY <1>3 DEF Unspent
  <2>3. Unspent + (IF gen = 0 THEN 1 ELSE 0) <= Later + n
    BY <1>3, <1>4, <2>1, <2>2
  <2> QED
    BY <1>3, <1>6, <1>7, <2>3
<1>10. SpentInv'
  BY <1>1, <1>9 DEF SpentInv
<1>11. SeedInv'
  <2>1. gen = 0 => 1 \in Slots /\ at'[1] = "wait"
    BY <1>3, <1>4, <1>5 DEF Slots
  <2> QED
    BY <1>1, <1>7, <2>1 DEF SeedInv, IInv, RoomInv
<1> QED
  BY <1>8, <1>10, <1>11

\* A batch is closed; after its last one a generation is saved.
LEMMA CloseRunInv ==
  ASSUME IInv, IInv', RunInv, CloseBatch
  PROVE  RunInv'
<1> USE DEF RunInv
<1>1. /\ pc = "batch" /\ (\A s \in Slots : at[s] \in {"off", "over"})
      /\ best' = Least(best, offspring)
      /\ UNCHANGED <<submitted, claimed, seedCached, ready, lives, wasted>>
  BY DEF CloseBatch, history
<1>2. Typed /\ Typed'
  BY DEF IInv
<1>3. /\ NPop \in Nat /\ GenerationSlots \in Nat /\ Operators \in Nat
      /\ Operators > 0 /\ PopSize \in Nat /\ Limit \in Nat
      /\ submitted \in Nat /\ wasted \in Nat
  BY <1>2, GenerationsSuffice, EohAssumption DEF Typed
<1>4. /\ gen = Len(saved) /\ gen \in Nat /\ gen <= NPop
      /\ gen # 0 => op \in 1 .. Operators
  BY <1>1, <1>2 DEF SavedInv, Typed
<1>5. Unspent' = Unspent /\ Unspent \in Int
  BY <1>1, <1>3 DEF Unspent
<1>6. Unspent <= Later
  <2>1. Hopeful = {}
    BY <1>1 DEF Hopeful
  <2>2. Cardinality(Hopeful) = 0
    BY <2>1, FS_EmptySet
  <2>3. ~ SeedFree
    BY <1>1 DEF SeedInv
  <2>4. Later \in Nat
    BY <1>4, LaterSteps
  <2> QED
    BY <1>1, <1>5, <2>2, <2>3, <2>4 DEF SpentInv
<1>7. best' <= SeedObjective
  <2>1. /\ gen = 0 => offspring <= SeedObjective
        /\ gen # 0 => best <= SeedObjective
    <3>1. gen = 0 => claimed
      BY <1>1 DEF SeedInv, SeedFree
    <3> QED
      BY <1>1, <3>1 DEF SeedInv
  <2>2. best \in Nat /\ offspring \in Nat /\ SeedObjective \in Nat
    BY <1>2 DEF Typed, Objectives, Better, SeedObjective, Sentinel, NoObjective
  <2> QED
    BY <1>1, <2>1, <2>2 DEF Least
<1>8. best' # NoObjective
  BY <1>7 DEF NoObjective, SeedObjective
<1>9. saved \in Seq(Generations) /\ Len(saved) \in Nat
  BY <1>2, LenProperties DEF Typed
<1>10. CASE gen # 0 /\ op < Operators
  <2>1. pc' = "loop" /\ op' = op + 1 /\ saved' = saved /\ gen' = gen
    BY <1>8, <1>10 DEF CloseBatch
  <2>2. Later = Later' + PopSize
    BY <1>4, <1>10, <2>1, LaterSteps
  <2>3. SavedInv'
    BY <1>1, <1>3, <1>4, <1>10, <2>1 DEF SavedInv
  <2>4. SpentInv'
    <3>1. Unspent' + 0 <= Later' + PopSize
      BY <1>5, <1>6, <2>2
    <3> QED
      BY <1>1, <1>10, <2>1, <3>1 DEF SpentInv
  <2>5. BudgetIsSpent' /\ SeedInv' /\ NeverWorseThanSeed'
    BY <1>1, <1>7, <2>1 DEF BudgetIsSpent, SeedInv, NeverWorseThanSeed
  <2> QED
    BY <2>3, <2>4, <2>5
<1>11. CASE ~ (gen # 0 /\ op < Operators)
  <2> DEFINE e == [best |-> best', wasted |-> wasted]
  <2>1. /\ saved' = Append(saved, e) /\ gen' = gen + 1 /\ op' = 1
        /\ pc' = Following(gen')
    BY <1>8, <1>11 DEF CloseBatch
  <2>2. e \in Generations
    BY <1>2 DEF Typed, Generations
  <2>3. /\ Len(saved') = Len(saved) + 1
        /\ saved'[Len(saved')] = e
        /\ \A i \in 1 .. Len(saved) : saved'[i] = saved[i]
        /\ saved' # <<>>
    BY <1>9, <2>1, <2>2, AppendProperties
  <2>4. /\ Later = GenerationSlots * (NPop + 1 - gen')
        /\ Later = Later' + PopSize
    BY <1>4, <1>11, <2>1, LaterSteps
  <2>5. /\ gen' <= NPop => pc' = "loop"
        /\ pc' = "loop" => gen' <= NPop
        /\ pc' \in {"loop", "down", "done"}
    BY <2>1 DEF Following
  <2>6. gen' = Len(saved') /\ gen' \in Nat /\ gen' # 0 /\ gen' <= NPop + 1
    BY <1>3, <1>4, <2>1, <2>3
  <2>7. SavedInv'
    BY <1>1, <1>3, <2>1, <2>5, <2>6 DEF SavedInv
  <2>8. SpentInv'
    <3>1. saved'[Len(saved')].wasted = wasted
      BY <2>3
    <3>2. Limit - submitted' - saved'[Len(saved')].wasted = Unspent
      BY <1>1, <3>1 DEF Unspent
    <3>3. Unspent' + 0 <= Later' + PopSize
      BY <1>5, <1>6, <2>4
    <3> QED
      BY <1>6, <2>4, <2>5, <2>6, <3>2, <3>3 DEF SpentInv
  <2>9. BudgetIsSpent'
    <3>1. SUFFICES ASSUME pc' = "done"
                   PROVE  Limit - submitted' <= wasted'
      BY DEF BudgetIsSpent
    <3>2. gen' = NPop + 1
      BY <1>3, <2>5, <2>6, <3>1
    <3>3. GenerationSlots * (NPop + 1 - gen') = 0
      BY <1>3, <3>2
    <3>4. Limit - submitted - wasted <= 0
      BY <1>6, <2>4, <3>3 DEF Unspent
    <3> QED
      BY <1>1, <1>3, <3>4, Sums
  <2>10. NeverWorseThanSeed'
    <3>1. saved'[Len(saved')].best <= SeedObjective
      BY <1>7, <2>3
    <3>2. \A i \in 1 .. Len(saved) : saved'[i].best <= SeedObjective
      BY <2>3 DEF NeverWorseThanSeed
    <3>3. \A i \in 1 .. Len(saved') : i \in 1 .. Len(saved) \/ i = Len(saved')
      BY <1>9, <2>3
    <3> QED
      BY <3>1, <3>2, <3>3 DEF NeverWorseThanSeed
  <2>11. SeedInv'
    BY <1>1, <1>7, <2>5 DEF SeedInv
  <2> QED
    BY <2>7, <2>8, <2>9, <2>10, <2>11
<1> QED
  BY <1>10, <1>11

LEMMA NextRunInv == IInv /\ IInv' /\ RunInv /\ [Next]_vars => RunInv'
<1> SUFFICES ASSUME IInv, IInv', RunInv, [Next]_vars PROVE RunInv'
  OBVIOUS
<1>1. CASE UNCHANGED vars
  <2>1. UNCHANGED <<submitted, claimed, seedCached, saved, pc, ready, gen, op,
                    best, at, offspring, lives, wasted>>
    BY <1>1 DEF vars, files, process, history
  <2>2. /\ Hopeful' = Hopeful /\ (SeedFree' <=> SeedFree)
        /\ Later' = Later /\ Unspent' = Unspent
    BY <2>1 DEF Hopeful, SeedFree, Later, Unspent
  <2>3. SavedInv' /\ SpentInv'
    BY <2>1, <2>2 DEF RunInv, SavedInv, SpentInv
  <2>4. BudgetIsSpent' /\ SeedInv' /\ NeverWorseThanSeed'
    BY <2>1, <2>2 DEF RunInv, BudgetIsSpent, SeedInv, NeverWorseThanSeed
  <2> QED
    BY <2>3, <2>4 DEF RunInv
<1>2. CASE Start \/ Crash
  BY <1>2, StopRunInv
<1>3. CASE EvaluateSeedFirst
  BY <1>3, SeedRunInv
<1>4. CASE OpenBatch
  BY <1>4, OpenRunInv
<1>5. CASE CloseBatch
  BY <1>5, CloseRunInv
<1>6. ASSUME NEW s \in Slots, SlotStep(s) PROVE RunInv'
  BY <1>6, SlotRunInv
<1> QED
  BY <1>1, <1>2, <1>3, <1>4, <1>5, <1>6 DEF Next

-----------------------------------------------------------------------------
(* The rest of the types, which rest on the generations being counted.      *)

Counted ==
  /\ {seedCached, aborted, ready, refused} \subseteq BOOLEAN
  /\ pc \in {"down", "seeding", "loop", "batch", "done"}
  /\ gen <= NPop + 1 /\ op \in 0 .. Operators

LEMMA TypesTogether == IInv /\ RunInv /\ Counted => TypeOK
<1> SUFFICES ASSUME IInv, RunInv, Counted PROVE TypeOK
  OBVIOUS
<1>1. Typed /\ SavedInv
  BY DEF IInv, RunInv
<1>2. \A i \in 1 .. Len(saved) : saved[i] \in Generations
  BY <1>1, ElementOfSeq DEF Typed
<1>3. gen \in 0 .. NPop + 1
  BY <1>1, GenerationsSuffice DEF Typed, Counted
<1> QED
  BY <1>1, <1>2, <1>3
  DEF TypeOK, Typed, Counted, Places, SavedInv, Generations

LEMMA NextCounted ==
  IInv /\ IInv' /\ RunInv /\ RunInv' /\ Counted /\ [Next]_vars => Counted'
<1> SUFFICES ASSUME IInv, IInv', RunInv, RunInv', Counted, [Next]_vars
             PROVE  Counted'
  OBVIOUS
<1> USE DEF Counted
<1>1. Typed /\ Typed' /\ SavedInv /\ SavedInv' /\ NPop \in Nat
      /\ Operators \in Nat /\ Operators > 0
  BY GenerationsSuffice, EohAssumption DEF IInv, RunInv
<1>2. CASE UNCHANGED vars
  BY <1>2 DEF vars, files, process, history
<1>3. CASE Start \/ Crash \/ OpenBatch
  BY <1>3 DEF Start, Crash, OpenBatch, files, history
<1>4. CASE EvaluateSeedFirst
  <2>1. seedCached' \in BOOLEAN /\ ready' \in BOOLEAN
        /\ UNCHANGED <<aborted, refused>>
    BY <1>4 DEF EvaluateSeedFirst
  <2>2. /\ pc' \in {"down", "loop", "done"}
        /\ op' \in {op, 0, 1} /\ gen' \in {gen, 0, Len(saved)}
    BY <1>4 DEF EvaluateSeedFirst, Following
  <2>3. gen' <= NPop + 1
    BY <1>1, <2>2 DEF SavedInv
  <2> QED
    BY <1>1, <2>1, <2>2, <2>3
<1>5. CASE CloseBatch
  <2>1. gen <= NPop /\ (gen # 0 => op \in 1 .. Operators) /\ gen \in Nat
    BY <1>1, <1>5 DEF CloseBatch, SavedInv, Typed
  <2>2. /\ pc' \in {"down", "loop", "done"}
        /\ UNCHANGED <<seedCached, aborted, ready, refused>>
        /\ \/ UNCHANGED <<gen, op>>
           \/ gen # 0 /\ op < Operators /\ op' = op + 1 /\ gen' = gen
           \/ gen' = gen + 1 /\ op' = 1
    BY <1>5 DEF CloseBatch, Following, history
  <2> QED
    BY <1>1, <2>1, <2>2
<1>6. ASSUME NEW s \in Slots, SlotStep(s) PROVE Counted'
  <2>1. UNCHANGED <<pc, seedCached, ready, gen, op>>
    BY <1>6, SlotUse
  <2>2. aborted' \in BOOLEAN /\ refused' \in BOOLEAN
    BY <1>6 DEF SlotStep, Ask, AnswerNew, AnswerSeed, AnswerFails,
       EvaluateSeed, Lock, Admit, Execute, ExecutionEnds, files, history
  <2> QED
    BY <2>1, <2>2
<1> QED
  BY <1>2, <1>3, <1>4, <1>5, <1>6 DEF Next

-----------------------------------------------------------------------------
(* Theorems. *)

\* Every variable keeps its type; no generation is numbered above the last
\* one that run_eoh asks for by more than one.
THEOREM TypeCorrect == Spec => []TypeOK
<1>1. Init => Counted
  <2>1. NPop \in Nat /\ Operators \in Nat
    BY GenerationsSuffice, EohAssumption
  <2>2. ASSUME Init
        PROVE  /\ gen = 0 /\ op = 0 /\ pc = "down" /\ ready = FALSE
               /\ seedCached = FALSE /\ aborted = FALSE /\ refused = FALSE
    BY <2>2 DEF Init
  <2> QED
    BY <2>1, <2>2 DEF Counted
<1> QED
  BY InitIInv, NextIInv, InitRunInv, NextRunInv, <1>1, NextCounted,
     TypesTogether, PTL DEF Spec

\* Over all lives of a run, a candidate is executed only after the ledger
\* has an entry for it, however the threads' admissions interleave and
\* wherever the process is killed.
THEOREM EntriesCoverRuns == Spec => []ReservedBeforeRun
<1>1. IInv => ReservedBeforeRun
  BY DEF IInv
<1> QED
  BY InitIInv, NextIInv, <1>1, PTL DEF Spec

\* admit never refuses a program that an EoH batch has produced: the trimmed
\* batch leaves room for every thread in it.
THEOREM TrimmingIsEnough == Spec => []NeverRefused
<1>1. IInv => NeverRefused
  BY DEF IInv
<1> QED
  BY InitIInv, NextIInv, <1>1, PTL DEF Spec

\* A run that ends has spent its budget, but for slots that produced no new
\* program: the generations that run_eoh computes are enough for any budget
\* and population, also for a resume that repeats part of a generation.
THEOREM BudgetEnds == Spec => []BudgetIsSpent
<1>1. RunInv => BudgetIsSpent
  BY DEF RunInv
<1> QED
  BY InitIInv, NextIInv, InitRunInv, NextRunInv, <1>1, PTL DEF Spec

\* No saved population is worse than the seed: the metrics cached before the
\* first batch are what the seed's own slot returns, and the population keeps
\* its best member over crashes and resumes.
THEOREM SeedIsKept == Spec => []NeverWorseThanSeed
<1>1. RunInv => NeverWorseThanSeed
  BY DEF RunInv
<1> QED
  BY InitIInv, NextIInv, InitRunInv, NextRunInv, <1>1, PTL DEF Spec

=============================================================================
