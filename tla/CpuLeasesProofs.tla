-------------------------- MODULE CpuLeasesProofs ---------------------------
(***************************************************************************)
(* Proofs about CpuLeases, for any callers, CPUs, affinity masks and       *)
(* requests.  The inductive invariant says that a caller and the kernel    *)
(* agree on which lock files the caller has locked, and that the candidate *)
(* of an execution that goes on is pinned to exactly those.                *)
(*                                                                         *)
(* The second half is about the other thing that an execution waits for,   *)
(* the license slots (module WlsSlots).  They hand over by time stamps as  *)
(* well as by locks, so what is proved there depends on the delays, and    *)
(* the theorems say how.                                                   *)
(***************************************************************************)
EXTENDS CpuLeases, WlsSlots, FiniteSetTheorems, TLAPS

\* What a caller has open is what the kernel says it has locked.
HeldIsLocked == \A p \in Callers, c \in Cpus : c \in held[p] <=> lock[c] = p

HeldByPhase ==
  \A p \in Callers :
    /\ left[p] \subseteq Allowed[p]
    /\ pc[p] \in {"idle", "wait", "timeout", "dead"} => held[p] = {}
    /\ pc[p] \in {"leased", "running"} => Cardinality(held[p]) = Need[p]
    /\ pc[p] = "running" => candidate[p] = held[p]
    /\ pc[p] # "running" => candidate[p] = {}

IInv == TypeOK /\ HeldIsLocked /\ HeldByPhase

LEMMA InitIInv == Init => IInv
  BY LeaseAssumption
  DEF Init, IInv, TypeOK, HeldIsLocked, HeldByPhase, PC

\* Reserving keeps the invariant.
LEMMA ReserveIInv ==
  ASSUME IInv, NEW p \in Callers, Call(p) \/ Reserve(p)
  PROVE  IInv'
<1> USE LeaseAssumption DEF IInv, TypeOK, HeldIsLocked, HeldByPhase, PC
<1>1. CASE Call(p)
  BY <1>1 DEF Call, BeginPass
<1>2. CASE TryCpu(p)
  <2>1. PICK c \in left[p] :
          /\ \/ /\ lock[c] = Nobody
                /\ lock' = [lock EXCEPT ![c] = p]
                /\ held' = [held EXCEPT ![p] = @ \cup {c}]
             \/ /\ lock[c] # Nobody
                /\ UNCHANGED <<lock, held>>
          /\ left' = [left EXCEPT ![p] = @ \ {c}]
    BY <1>2 DEF TryCpu
  <2>2. c \in Cpus /\ c \in Allowed[p]
    OBVIOUS
  <2>3. /\ pc[p] = "scan"
        /\ pc' = [pc EXCEPT ![p] = IF Cardinality(held'[p]) = Need[p]
                                   THEN "leased" ELSE "scan"]
        /\ UNCHANGED <<passes, candidate, stray, faults>>
    BY <1>2 DEF TryCpu
  <2>4. TypeOK'
    BY <2>1, <2>2, <2>3
  <2>5. HeldIsLocked'
    BY <2>1, <2>2, <2>3
  <2>6. HeldByPhase'
    BY <2>1, <2>2, <2>3
  <2> QED
    BY <2>4, <2>5, <2>6
<1>3. CASE PassFailed(p)
  BY <1>3 DEF PassFailed
<1>4. CASE Drop(p)
  BY <1>4 DEF Drop, CloseOne
<1>5. CASE Retry(p)
  BY <1>5 DEF Retry, BeginPass
<1>6. CASE TimeOut(p)
  BY <1>6 DEF TimeOut
<1> QED
  BY <1>1, <1>2, <1>3, <1>4, <1>5, <1>6 DEF Reserve

LEMMA NextIInv == IInv /\ [Next]_vars => IInv'
<1> SUFFICES ASSUME IInv, [Next]_vars PROVE IInv'
  OBVIOUS
<1> USE LeaseAssumption DEF IInv, TypeOK, HeldIsLocked, HeldByPhase, PC
<1>1. ASSUME NEW p \in Callers, Call(p) \/ Reserve(p) PROVE IInv'
  BY <1>1, ReserveIInv
<1>2. ASSUME NEW p \in Callers, Start(p) PROVE IInv'
  BY <1>2 DEF Start
<1>3. ASSUME NEW p \in Callers, Finish(p) PROVE IInv'
  BY <1>3 DEF Finish
<1>9. ASSUME NEW p \in Callers, FinishAlive(p) PROVE IInv'
  BY <1>9 DEF FinishAlive, Abandon
<1>4. ASSUME NEW p \in Callers, Release(p) PROVE IInv'
  BY <1>4 DEF Release, CloseOne
<1>5. ASSUME NEW p \in Callers, Kill(p) PROVE IInv'
  BY <1>5 DEF Kill, Abandon
<1>6. ASSUME NEW p \in Callers, StrayEnds(p) PROVE IInv'
  BY <1>6 DEF StrayEnds
<1>7. ASSUME NEW p \in Callers, Fail(p) PROVE IInv'
  BY <1>7 DEF Fail
<1>8. CASE UNCHANGED vars
  BY <1>8 DEF vars
<1> QED
  BY <1>1, <1>2, <1>3, <1>4, <1>5, <1>6, <1>7, <1>8, <1>9 DEF Next, Ended

-----------------------------------------------------------------------------
\* Types, and what a caller that is not in possession of a lease keeps.
THEOREM LeasesIdle == Spec => [](TypeOK /\ IdleHoldsNothing)
<1>1. IInv => TypeOK /\ IdleHoldsNothing
  BY DEF IInv, HeldIsLocked, HeldByPhase, IdleHoldsNothing
<1> QED
  BY <1>1, InitIInv, NextIInv, PTL DEF Spec

\* No two candidates of executions that go on ever share a CPU.
THEOREM CandidatesNeverShare == Spec => []CandidatesApart
<1>1. IInv => CandidatesApart
  <2> SUFFICES ASSUME IInv, NEW p \in Callers, NEW q \in Callers, p # q,
                      NEW c \in candidate[p] \cap candidate[q]
               PROVE  FALSE
    BY DEF CandidatesApart
  <2>1. c \in Cpus /\ c \in held[p] /\ c \in held[q]
    BY DEF IInv, TypeOK, HeldByPhase
  <2> QED
    BY <2>1 DEF IInv, HeldIsLocked
<1> QED
  BY <1>1, InitIInv, NextIInv, PTL DEF Spec

-----------------------------------------------------------------------------
(* The leases implement the allocator.                                     *)

\* Only a caller that grants itself its last CPU or ends its execution changes
\* what is granted.
LEMMA AllocatorStep ==
  ASSUME IInv, [Next]_vars
  PROVE  [Allocator!AllocatorNext]_Granted
<1> USE LeaseAssumption DEF IInv, TypeOK
<1>0. IInv'
  BY NextIInv
<1>a. ASSUME NEW p \in Callers, NEW q \in Callers, p # q
      PROVE  held'[p] \cap held'[q] = {}
  <2> SUFFICES ASSUME NEW c \in held'[p], c \in held'[q] PROVE FALSE
    OBVIOUS
  <2>1. c \in Cpus
    BY <1>0
  <2> QED
    BY <1>0, <1>a, <2>1 DEF HeldIsLocked
<1>1. ASSUME NEW p \in Callers, pc[p] \notin {"leased", "running"},
             pc'[p] = "leased", pc' = [pc EXCEPT ![p] = "leased"],
             held' = [held EXCEPT ![p] = held'[p]]
      PROVE  Allocator!Grant(p, held'[p]) /\ held'[p] \in SUBSET Allowed[p]
  <2>1. held'[p] \subseteq Allowed[p] /\ Cardinality(held'[p]) = Need[p]
    BY <1>0, <1>1 DEF HeldByPhase
  <2>2. \A q \in Callers : held'[p] \cap Granted[q] = {}
    <3> SUFFICES ASSUME NEW q \in Callers PROVE held'[p] \cap Granted[q] = {}
      OBVIOUS
    <3>1. CASE q = p
      BY <1>1, <3>1 DEF Granted
    <3>2. CASE q # p
      <4>1. held'[p] \cap held'[q] = {}
        BY <1>a, <3>2
      <4>2. held'[q] = held[q]
        BY <1>1, <3>2
      <4> QED
        BY <4>1, <4>2 DEF Granted
    <3> QED
      BY <3>1, <3>2
  <2>3. Granted' = [Granted EXCEPT ![p] = held'[p]]
    BY <1>1 DEF Granted
  <2>4. Granted[p] = {}
    BY <1>1 DEF Granted
  <2>5. Allocator!Cardinality(held'[p]) = Cardinality(held'[p])
    BY DEF Allocator!Cardinality, Cardinality
  <2> QED
    BY <2>1, <2>2, <2>3, <2>4, <2>5 DEF Allocator!Grant
<1>2. ASSUME NEW p \in Callers, pc[p] \in {"leased", "running"},
             NEW s, s \notin {"leased", "running"},
             pc' = [pc EXCEPT ![p] = s],
             \A q \in Callers \ {p} : held'[q] = held[q]
      PROVE  Allocator!Return(p)
  <2>1. Granted[p] # {}
    <3>1. Cardinality(held[p]) = Need[p] /\ Need[p] # 0
      BY <1>2 DEF HeldByPhase
    <3>2. held[p] # {}
      BY <3>1, FS_EmptySet
    <3> QED
      BY <1>2, <3>2 DEF Granted
  <2>2. Granted' = [Granted EXCEPT ![p] = {}]
    BY <1>2 DEF Granted
  <2> QED
    BY <2>1, <2>2 DEF Allocator!Return
<1>3. ASSUME NEW p \in Callers, TryCpu(p) PROVE [Allocator!AllocatorNext]_Granted
  <2>1. /\ pc[p] = "scan" /\ held' = [held EXCEPT ![p] = held'[p]]
        /\ pc' = [pc EXCEPT ![p] = IF Cardinality(held'[p]) = Need[p]
                                   THEN "leased" ELSE "scan"]
    BY <1>3 DEF TryCpu
  <2>2. CASE Cardinality(held'[p]) = Need[p]
    BY <1>1, <2>1, <2>2 DEF Allocator!AllocatorNext
  <2>3. CASE Cardinality(held'[p]) # Need[p]
    <3>1. Granted' = Granted
      BY <2>1, <2>3 DEF Granted
    <3> QED
      BY <3>1
  <2> QED
    BY <2>2, <2>3
<1>4. ASSUME NEW p \in Callers, Finish(p) \/ FinishAlive(p)
      PROVE  Allocator!AllocatorNext
  BY <1>2, <1>4 DEF Finish, FinishAlive, Allocator!AllocatorNext
<1>5. ASSUME NEW p \in Callers, Kill(p) PROVE [Allocator!AllocatorNext]_Granted
  <2>1. CASE pc[p] \in {"leased", "running"}
    BY <1>2, <1>5, <2>1 DEF Kill, Allocator!AllocatorNext
  <2>2. CASE pc[p] \notin {"leased", "running"}
    BY <1>5, <2>2 DEF Kill, Granted
  <2> QED
    BY <2>1, <2>2
<1>6. ASSUME NEW p \in Callers,
             \/ Call(p) \/ PassFailed(p) \/ Drop(p) \/ Retry(p) \/ TimeOut(p)
             \/ Start(p) \/ Release(p) \/ StrayEnds(p)
      PROVE  Granted' = Granted
  BY <1>6 DEF Call, PassFailed, Drop, Retry, TimeOut, Start, Release,
              StrayEnds, BeginPass, CloseOne, Granted
<1>7. ASSUME NEW p \in Callers, Fail(p) PROVE [Allocator!AllocatorNext]_Granted
  <2>1. CASE pc[p] = "leased"
    BY <1>2, <1>7, <2>1 DEF Fail, Allocator!AllocatorNext
  <2>2. CASE pc[p] # "leased"
    BY <1>7, <2>2 DEF Fail, Granted
  <2> QED
    BY <2>1, <2>2
<1>8. CASE UNCHANGED vars
  BY <1>8 DEF vars, Granted
<1> QED
  BY <1>3, <1>4, <1>5, <1>6, <1>7, <1>8 DEF Next, Ended, Reserve

\* Leases collected lock by lock are granted at once, disjoint and complete.
THEOREM LeasesImplementAllocator == Spec => AllocatorSpec
<1>1. Init => Allocator!AllocatorInit
  BY DEF Init, Granted, Allocator!AllocatorInit
<1> QED
  BY <1>1, InitIInv, NextIInv, AllocatorStep, PTL
  DEF Spec, AllocatorSpec, Allocator!AllocatorSpec

-----------------------------------------------------------------------------
(* The license slots under which candidates wait for these leases (module   *)
(* WlsSlots), for any calls, slots, delays and license.  Types, and who has *)
(* which lock at which place.                                               *)

\* Places at which a call has found its slot free, and at which it has its
\* lock.
Past == {"mutex", "probe", "flock", "reread", "query", "refused", "truncate",
         "write", "identity", "cpu", "run", "exitTruncate", "exitWrite", "exit"}
Holding == Past \cup {"check", "unlock"}

\* Places at which a call looks at the other slots.
Probing == {"probe", "flock", "reread", "query"}

\* Who has which lock, and where a call with a candidate can be.
SlotLockInv ==
  \A p \in Procs :
    /\ place[p] \in Holding => idx[p] \in Slots /\ slotLock[idx[p]] = p
    /\ cand[p] # "none" =>
         /\ idx[p] \in Slots
         /\ place[p] \in {"run", "exitTruncate", "exitWrite", "exit", "done", "dead"}
    /\ cand[p] = "running" => place[p] = "run" \/ p \in lost
    /\ place[p] = "dead" => p \in lost
    /\ place[p] \in {"mutex", "identity"} => p \in gated
    /\ place[p] \in Probing \cup {"refused"} => p \in gated /\ admission = p
    /\ place[p] \in Probing => idx[p] \notin other[p]
    /\ place[p] = "reread" =>
         \A o \in Slots : Least(o, other[p]) => slotLock[o] = p
    /\ place[p] \in {"truncate", "write", "identity"} /\ p \in gated => admission = p
    /\ place[p] = "identity" => stamp[idx[p]] = Reservation(p)

SlotsInv == WlsTypeOK /\ SlotLockInv

LEMMA StampTypes ==
  /\ Empty \in Stamp /\ Cooldown \in Stamp
  /\ \A p \in Procs : Reservation(p) \in Stamp
  /\ \A s \in Stamp : [s EXCEPT !.left = Dec(@)] \in Stamp
  BY SlotAssumption DEF Empty, Cooldown, Reservation, Stamp, MaxExecution, Dec

LEMMA StampTimes ==
  Cooldown.left \in Nat /\ \A p \in Procs : Reservation(p).left \in Nat
  BY SlotAssumption DEF Cooldown, Reservation, MaxExecution

\* A call that goes on to another slot has passed none and has no candidate.
LEMMA OtherSlot ==
  ASSUME SlotsInv, NEW p \in Procs, TrySlot(p) \/ Unlock(p)
  PROVE  /\ place[p] \notin Past /\ cand[p] = "none"
         /\ \E l \in {"head", "try", "check"} : place' = [place EXCEPT ![p] = l]
         /\ \E i \in 0 .. Concurrency : idx' = [idx EXCEPT ![p] = i]
         /\ UNCHANGED <<stamp, identity, admission, other, host, rsv, timer, owed,
                        cand, visible, lost, gated>>
<1> USE DEF SlotsInv, WlsTypeOK, SlotLockInv, Holding, Past, Goto, candVars,
            otherVars
<1>1. CASE TrySlot(p)
  <2>1. \E i \in 0 .. Concurrency : idx' = [idx EXCEPT ![p] = i]
    <3>1. CASE UNCHANGED idx
      BY <3>1
    <3>2. CASE idx[p] < Concurrency /\ idx' = [idx EXCEPT ![p] = @ + 1]
      <4>1. idx[p] + 1 \in 0 .. Concurrency
        BY <3>2, SlotAssumption
      <4> QED
        BY <3>2, <4>1
    <3> QED
      BY <1>1, <3>1, <3>2 DEF TrySlot
  <2>2. \E l \in {"head", "try", "check"} : place' = [place EXCEPT ![p] = l]
    BY <1>1 DEF TrySlot
  <2> QED
    BY <1>1, <2>1, <2>2 DEF TrySlot
<1>2. CASE Unlock(p)
  <2>1. idx[p] + 1 \in 0 .. Concurrency
    BY <1>2, SlotAssumption DEF Unlock, Slots
  <2> QED
    BY <1>2, <2>1 DEF Unlock
<1> QED
  BY <1>1, <1>2

LEMMA InitSlots == WlsInit => SlotsInv
  BY SlotAssumption, StampTypes
  DEF WlsInit, SlotsInv, WlsTypeOK, SlotLockInv, Slots, Place, Holding, Past, Probing

LEMMA QueueSlots ==
  ASSUME SlotsInv, NEW p \in Procs, Enter(p) \/ Queue(p)
  PROVE  SlotsInv'
<1> USE SlotAssumption, StampTypes
    DEF SlotsInv, WlsTypeOK, SlotLockInv, Goto, Place, Holding, Past, Probing,
        Least, slotVars, candVars, otherVars
<1>1. CASE Enter(p)
  BY <1>1 DEF Enter
<1>2. CASE Head(p)
  BY <1>2 DEF Head
<1>3. CASE TrySlot(p)
  <2>1. CASE place' = [place EXCEPT ![p] = "head"] /\ UNCHANGED <<idx, slotLock>>
    BY <1>3, <2>1 DEF TrySlot
  <2>2. CASE idx[p] < Concurrency /\ idx' = [idx EXCEPT ![p] = @ + 1]
             /\ UNCHANGED <<place, timer, slotLock>> /\ place[p] = "try"
    <3>1. idx[p] + 1 \in 0 .. Concurrency
      BY <2>2
    <3> QED
      BY <1>3, <2>2, <3>1 DEF TrySlot
  <2>3. CASE /\ idx[p] < Concurrency /\ slotLock[idx[p]] = NoProc
             /\ slotLock' = [slotLock EXCEPT ![idx[p]] = p]
             /\ Goto(p, "check") /\ UNCHANGED idx
    <3>1. idx[p] \in Slots
      BY <2>3 DEF Slots
    <3> QED
      BY <1>3, <2>3, <3>1 DEF TrySlot
  <2> QED
    BY <1>3, <2>1, <2>2, <2>3 DEF TrySlot
<1>4. CASE CheckStamp(p)
  BY <1>4 DEF CheckStamp
<1>5. CASE Unlock(p)
  <2>1. idx[p] \in Slots /\ idx[p] + 1 \in 0 .. Concurrency
    BY <1>5 DEF Unlock, Slots
  <2> QED
    BY <1>5, <2>1 DEF Unlock
<1>6. CASE LockAdmission(p)
  BY <1>6 DEF LockAdmission
<1>7. CASE ReadIdentity(p)
  BY <1>7 DEF ReadIdentity, HostAt
<1>13. CASE TryOther(p)
  <2>1. PICK o \in other[p] : Least(o, other[p])
          /\ \/ /\ slotLock[o] # NoProc
                /\ other' = [other EXCEPT ![p] = @ \ {o}]
                /\ rsv' = [rsv EXCEPT ![p] = @ \cup {<<o, host[p]>>}]
                /\ Goto(p, "probe")
                /\ UNCHANGED slotLock
             \/ /\ slotLock[o] = NoProc
                /\ slotLock' = [slotLock EXCEPT ![o] = p]
                /\ Goto(p, "reread")
                /\ UNCHANGED <<other, rsv>>
    BY <1>13 DEF TryOther
  <2>2. /\ o \in Slots /\ place[p] = "flock"
        /\ UNCHANGED <<stamp, identity, admission, idx, host, owed, cand, visible,
                       lost, gated>>
    BY <1>13 DEF TryOther
  <2>3. CASE slotLock[o] # NoProc
    BY <2>1, <2>2, <2>3
  <2>4. CASE slotLock[o] = NoProc
    <3>1. /\ slotLock' = [slotLock EXCEPT ![o] = p] /\ UNCHANGED <<other, rsv, timer>>
          /\ place' = [place EXCEPT ![p] = "reread"]
      BY <2>1, <2>4
    <3>2. \A u \in Slots : Least(u, other[p]) => u = o
      BY <2>1, <2>2 DEF Slots
    <3>3. \A q \in Procs : place[q] \in Holding => idx[q] # o
      BY <2>4
    <3>4. SlotLockInv'
      BY <2>2, <3>1, <3>2, <3>3
    <3> QED
      BY <2>2, <3>1, <3>4
  <2> QED
    BY <2>3, <2>4
<1>14. CASE Reread(p)
  <2>1. PICK o \in other[p] :
          /\ Least(o, other[p])
          /\ slotLock' = [slotLock EXCEPT ![o] = NoProc]
          /\ other' = [other EXCEPT ![p] = @ \ {o}]
          /\ rsv' = IF stamp[o].left > 0
                    THEN [rsv EXCEPT ![p] = @ \cup {<<o, host[p]>>}]
                    ELSE rsv
    BY <1>14 DEF Reread
  <2>2. /\ o \in Slots /\ place[p] = "reread" /\ slotLock[o] = p /\ o # idx[p]
        /\ place' = [place EXCEPT ![p] = "probe"]
        /\ UNCHANGED <<stamp, identity, admission, idx, host, timer, owed, cand,
                       visible, lost, gated>>
    BY <1>14, <2>1 DEF Reread
  <2>3. \A q \in Procs : place[q] \in Holding => idx[q] # o
    BY <2>2
  <2>4. \A q \in Procs \ {p} : place[q] # "reread"
    BY <2>2
  <2>5. SlotLockInv'
    BY <2>1, <2>2, <2>3, <2>4
  <2>6. WlsTypeOK'
    BY <2>1, <2>2
  <2> QED
    BY <2>5, <2>6
<1>8. CASE Query(p)
  BY <1>8 DEF Query
<1>9. CASE Refused(p)
  BY <1>9 DEF Refused
<1>10. CASE Truncate(p)
  BY <1>10 DEF Truncate
<1>11. CASE WriteStamp(p)
  BY <1>11, StampTimes DEF WriteStamp
<1>12. CASE WriteIdentity(p)
  BY <1>12 DEF WriteIdentity
<1> QED
  BY <1>1, <1>2, <1>3, <1>4, <1>5, <1>6, <1>7, <1>8, <1>9, <1>10, <1>11, <1>12,
     <1>13, <1>14
  DEF Queue

LEMMA RunSlots ==
  ASSUME SlotsInv, NEW p \in Procs,
         Run(p) \/ CandidateEnds(p) \/ Appear(p) \/ KillCall(p)
  PROVE  SlotsInv'
<1> USE SlotAssumption, StampTypes
    DEF SlotsInv, WlsTypeOK, SlotLockInv, Goto, Place, Holding, Past, Probing,
        Least, slotVars, candVars, otherVars
<1>1. CASE StartCandidate(p)
  BY <1>1 DEF StartCandidate
<1>2. CASE StartFails(p)
  BY <1>2 DEF StartFails
<1>3. CASE ExecutionReturns(p)
  BY <1>3 DEF ExecutionReturns
<1>10. CASE ReturnsAnyway(p)
  BY <1>10 DEF ReturnsAnyway, Lose
<1>4. CASE ExitTruncate(p)
  BY <1>4 DEF ExitTruncate
<1>5. CASE ExitWrite(p)
  BY <1>5, StampTimes DEF ExitWrite
<1>6. CASE Exit(p)
  BY <1>6 DEF Exit
<1>7. CASE CandidateEnds(p)
  BY <1>7 DEF CandidateEnds
<1>8. CASE Appear(p)
  BY <1>8 DEF Appear, Live, procVars
<1>9. CASE KillCall(p)
  BY <1>9 DEF KillCall, Lose
<1> QED
  BY <1>1, <1>2, <1>3, <1>4, <1>5, <1>6, <1>7, <1>8, <1>9, <1>10 DEF Run

LEMMA NextSlots == SlotsInv /\ [WlsNext]_wlsVars => SlotsInv'
<1> SUFFICES ASSUME SlotsInv, [WlsNext]_wlsVars PROVE SlotsInv'
  OBVIOUS
<1>1. CASE Tick
  BY <1>1, SlotAssumption, StampTypes
  DEF Tick, Dec, SlotsInv, WlsTypeOK, SlotLockInv, Holding, Past, Probing, otherVars
<1>2. CASE UNCHANGED wlsVars
  BY <1>2 DEF wlsVars, slotVars, procVars, candVars, otherVars, SlotsInv,
              WlsTypeOK,
              SlotLockInv
<1> QED
  BY <1>1, <1>2, QueueSlots, RunSlots DEF WlsNext

-----------------------------------------------------------------------------
(* Lost candidates.  They live on after their call is killed or returns,    *)
(* and what keeps the slot is the time in its file.                         *)

\* Places at which an admitted call has written its stamp.
Written == {"identity", "cpu", "run", "exitTruncate", "exitWrite", "exit"}

\* What the stamp has left is at least what the call reserved, and nobody else
\* has found the slot free meanwhile.
OwedInv ==
  \A p \in Procs :
    owed[p] > 0 =>
      /\ idx[p] \in Slots
      /\ place[p] \in Written \cup {"done", "dead"}
      /\ stamp[idx[p]].left >= owed[p]
      /\ \A q \in Procs \ {p} : place[q] \in Past \/ owed[q] > 0 => idx[q] # idx[p]

LEMMA InitOwed == WlsInit => OwedInv
  BY DEF WlsInit, OwedInv

LEMMA QueueOwed ==
  ASSUME SlotsInv, OwedInv, NEW p \in Procs, Enter(p) \/ Queue(p)
  PROVE  OwedInv'
<1> USE SlotAssumption
    DEF SlotsInv, WlsTypeOK, SlotLockInv, OwedInv, Goto, Holding, Past, Written,
        slotVars, candVars, otherVars, Stamp
<1>1. CASE Enter(p)
  BY <1>1 DEF Enter
<1>2. CASE Head(p)
  BY <1>2 DEF Head
<1>3. CASE TrySlot(p) \/ Unlock(p)
  <2>1. PICK l \in {"head", "try", "check"}, i \in 0 .. Concurrency :
          place' = [place EXCEPT ![p] = l] /\ idx' = [idx EXCEPT ![p] = i]
    BY <1>3, OtherSlot
  <2>2. /\ place[p] \notin Past /\ UNCHANGED <<stamp, owed>>
        /\ owed[p] = 0
    BY <1>3, OtherSlot DEF TrySlot, Unlock
  <2> QED
    BY <2>1, <2>2
<1>4. CASE CheckStamp(p)
  BY <1>4 DEF CheckStamp
<1>6. CASE LockAdmission(p)
  BY <1>6 DEF LockAdmission
<1>7. CASE ReadIdentity(p) \/ TryOther(p) \/ Reread(p)
  <2>1. /\ UNCHANGED <<stamp, idx, owed>> /\ place[p] \in Past
        /\ \E l \in {"probe", "flock", "reread", "query"} :
             place' = [place EXCEPT ![p] = l]
        /\ owed[p] = 0
    BY <1>7 DEF ReadIdentity, TryOther, Reread
  <2> QED
    BY <2>1
<1>8. CASE Query(p)
  BY <1>8 DEF Query
<1>9. CASE Refused(p)
  BY <1>9 DEF Refused
<1>10. CASE Truncate(p)
  BY <1>10 DEF Truncate
<1>11. CASE WriteStamp(p)
  <2>1. Reservation(p).left \in Nat
    BY DEF Reservation, MaxExecution
  <2>2. stamp'[idx[p]] = Reservation(p) /\ \A i \in Slots \ {idx[p]} : stamp'[i] = stamp[i]
    BY <1>11 DEF WriteStamp
  <2>3. owed' = [owed EXCEPT ![p] = Reservation(p).left]
    BY <1>11 DEF WriteStamp
  <2>4. place[p] = "write" /\ \E l \in {"identity", "cpu"} : place' = [place EXCEPT ![p] = l]
    BY <1>11 DEF WriteStamp
  <2>5. UNCHANGED idx
    BY <1>11 DEF WriteStamp
  <2> HIDE DEF Reservation
  <2> QED
    BY <2>1, <2>2, <2>3, <2>4, <2>5
<1>12. CASE WriteIdentity(p)
  BY <1>12 DEF WriteIdentity
<1> QED
  BY <1>1, <1>2, <1>3, <1>4, <1>6, <1>7, <1>8, <1>9, <1>10, <1>11, <1>12
  DEF Queue

LEMMA RunOwed ==
  ASSUME SlotsInv, OwedInv, NEW p \in Procs,
         Run(p) \/ CandidateEnds(p) \/ Appear(p) \/ KillCall(p)
  PROVE  OwedInv'
<1> USE SlotAssumption
    DEF SlotsInv, WlsTypeOK, SlotLockInv, OwedInv, Goto, Holding, Past, Written,
        slotVars, candVars, otherVars, Stamp
<1>1. CASE StartCandidate(p)
  BY <1>1 DEF StartCandidate
<1>2. CASE StartFails(p)
  BY <1>2 DEF StartFails
<1>3. CASE ExecutionReturns(p)
  BY <1>3 DEF ExecutionReturns
<1>10. CASE ReturnsAnyway(p)
  BY <1>10 DEF ReturnsAnyway
<1>4. CASE ExitTruncate(p)
  BY <1>4 DEF ExitTruncate
<1>5. CASE ExitWrite(p)
  BY <1>5 DEF ExitWrite, Cooldown
<1>6. CASE Exit(p)
  BY <1>6 DEF Exit
<1>7. CASE CandidateEnds(p)
  BY <1>7 DEF CandidateEnds
<1>8. CASE Appear(p)
  BY <1>8 DEF Appear, procVars
<1>9. CASE KillCall(p)
  BY <1>9 DEF KillCall
<1> QED
  BY <1>1, <1>2, <1>3, <1>4, <1>5, <1>6, <1>7, <1>8, <1>9, <1>10 DEF Run

LEMMA NextOwed == SlotsInv /\ OwedInv /\ [WlsNext]_wlsVars => OwedInv'
<1> SUFFICES ASSUME SlotsInv, OwedInv, [WlsNext]_wlsVars PROVE OwedInv'
  OBVIOUS
<1>1. CASE Tick
  BY <1>1, SlotAssumption
  DEF Tick, Dec, SlotsInv, WlsTypeOK, OwedInv, otherVars, Stamp
<1>2. CASE UNCHANGED wlsVars
  BY <1>2 DEF wlsVars, slotVars, procVars, candVars, otherVars, OwedInv
<1> QED
  BY <1>1, <1>2, QueueOwed, RunOwed DEF WlsNext

-----------------------------------------------------------------------------
(* Completed calls.  Their tokens live on, and what keeps the slot is the   *)
(* time that the call has left in its file.                                 *)

\* The cooldown, at least 310 s with the gate (execution.py 178), is as long as
\* a token outlives its candidate.  "Actual longer-lived tokens still block"
\* (trusted_eval_infra/README.md 450-452) once the server shows them; one that
\* it shows later than the cooldown would not.
TokensCovered == TokenLife <= ReleaseDelay

Cooling(p) ==
  place[p] = "done" /\ p \notin lost /\ cand[p] = "ended" /\ timer[p] > 0

\* What the stamp has left covers the life left to the token.
CoolingInv ==
  \A p \in Procs :
    /\ cand[p] = "ended" => timer[p] <= TokenLife
    /\ place[p] = "exit" /\ cand[p] = "ended" /\ p \notin lost =>
         stamp[idx[p]].left >= timer[p]
    /\ Cooling(p) =>
         /\ stamp[idx[p]].left >= timer[p]
         /\ \A q \in Procs \ {p} :
              place[q] \in Past \/ Cooling(q) => idx[q] # idx[p]

LEMMA InitCooling == WlsInit => CoolingInv
  BY DEF WlsInit, CoolingInv, Cooling

LEMMA QueueCooling ==
  ASSUME SlotsInv, CoolingInv, NEW p \in Procs, Enter(p) \/ Queue(p)
  PROVE  CoolingInv'
<1> USE SlotAssumption
    DEF SlotsInv, WlsTypeOK, SlotLockInv, CoolingInv, Cooling, Goto, Holding,
        Past,
        slotVars, candVars, otherVars, Stamp
<1>1. CASE Enter(p)
  BY <1>1 DEF Enter
<1>2. CASE Head(p)
  BY <1>2 DEF Head
<1>3. CASE TrySlot(p)
  <2>1. PICK l \in {"head", "try", "check"}, i \in 0 .. Concurrency :
          place' = [place EXCEPT ![p] = l] /\ idx' = [idx EXCEPT ![p] = i]
    BY <1>3, OtherSlot
  <2>2. /\ place[p] \notin Past /\ cand[p] = "none"
        /\ UNCHANGED <<stamp, timer, cand, lost>>
    BY <1>3, OtherSlot
  <2> QED
    BY <2>1, <2>2
<1>4. CASE CheckStamp(p)
  BY <1>4 DEF CheckStamp
<1>5. CASE Unlock(p)
  <2>1. PICK l \in {"head", "try", "check"}, i \in 0 .. Concurrency :
          place' = [place EXCEPT ![p] = l] /\ idx' = [idx EXCEPT ![p] = i]
    BY <1>5, OtherSlot
  <2>2. /\ place[p] \notin Past /\ cand[p] = "none"
        /\ UNCHANGED <<stamp, timer, cand, lost>>
    BY <1>5, OtherSlot
  <2> QED
    BY <2>1, <2>2
<1>6. CASE LockAdmission(p)
  BY <1>6 DEF LockAdmission
<1>7. CASE ReadIdentity(p) \/ TryOther(p) \/ Reread(p)
  <2>1. /\ UNCHANGED <<stamp, idx, timer, cand, lost>> /\ place[p] \in Past
        /\ \E l \in {"probe", "flock", "reread", "query"} :
             place' = [place EXCEPT ![p] = l]
    BY <1>7 DEF ReadIdentity, TryOther, Reread
  <2> QED
    BY <2>1
<1>8. CASE Query(p)
  BY <1>8 DEF Query
<1>9. CASE Refused(p)
  BY <1>9 DEF Refused
<1>10. CASE Truncate(p)
  BY <1>10 DEF Truncate
<1>11. CASE WriteStamp(p)
  BY <1>11 DEF WriteStamp
<1>12. CASE WriteIdentity(p)
  BY <1>12 DEF WriteIdentity
<1> QED
  BY <1>1, <1>2, <1>3, <1>4, <1>5, <1>6, <1>7, <1>8, <1>9, <1>10, <1>11, <1>12
  DEF Queue

LEMMA RunCooling ==
  ASSUME SlotsInv, CoolingInv, TokensCovered, NEW p \in Procs,
         Run(p) \/ CandidateEnds(p) \/ Appear(p) \/ KillCall(p)
  PROVE  CoolingInv'
<1> USE SlotAssumption
    DEF SlotsInv, WlsTypeOK, SlotLockInv, CoolingInv, Cooling, Goto, Holding,
        Past,
        slotVars, candVars, otherVars, Stamp
<1>1. CASE StartCandidate(p)
  BY <1>1 DEF StartCandidate
<1>2. CASE StartFails(p)
  BY <1>2 DEF StartFails
<1>3. CASE ExecutionReturns(p)
  BY <1>3 DEF ExecutionReturns, TokensCovered
<1>10. CASE ReturnsAnyway(p)
  BY <1>10 DEF ReturnsAnyway, Lose
<1>4. CASE ExitTruncate(p)
  BY <1>4 DEF ExitTruncate
<1>5. CASE ExitWrite(p)
  BY <1>5 DEF ExitWrite, Cooldown, TokensCovered
<1>6. CASE Exit(p)
  BY <1>6 DEF Exit
<1>7. CASE CandidateEnds(p)
  BY <1>7 DEF CandidateEnds
<1>8. CASE Appear(p)
  BY <1>8 DEF Appear, procVars
<1>9. CASE KillCall(p)
  BY <1>9 DEF KillCall, Lose
<1> QED
  BY <1>1, <1>2, <1>3, <1>4, <1>5, <1>6, <1>7, <1>8, <1>9, <1>10 DEF Run

LEMMA NextCooling ==
  SlotsInv /\ CoolingInv /\ TokensCovered /\ [WlsNext]_wlsVars => CoolingInv'
<1> SUFFICES ASSUME SlotsInv, CoolingInv, TokensCovered, [WlsNext]_wlsVars
             PROVE  CoolingInv'
  OBVIOUS
<1>1. CASE Tick
  BY <1>1, SlotAssumption
  DEF Tick, Dec, SlotsInv, WlsTypeOK, SlotLockInv, CoolingInv, Cooling,
      Holding,
      Past, otherVars, Stamp
<1>2. CASE UNCHANGED wlsVars
  BY <1>2 DEF wlsVars, slotVars, procVars, candVars, otherVars, CoolingInv,
              Cooling
<1> QED
  BY <1>1, <1>2, QueueCooling, RunCooling DEF WlsNext

-----------------------------------------------------------------------------
(* The license.  A call is admitted on what the server shows, which may be  *)
(* late, and on the reservations that it finds in the other slots.  Both    *)
(* together account for everyone admitted before, since the admission lock  *)
(* keeps others from being admitted meanwhile.                              *)

\* Who counts for the license: those admitted, until their token expires.
Admitted ==
  {p \in Procs :
     place[p] \in {"truncate", "write", "identity", "cpu", "run"} \/ p \in Live}

\* A stamp names the call that has the slot, or nobody.
StampOwn ==
  \A p \in Procs :
    place[p] \in Written \/ Cooling(p) => stamp[idx[p]].by \in {p, NoProc}

\* p's slot is still to be probed by q, or on q's list, under p's name or none.
Found(p, q) ==
  idx[p] \in other[q] \/ \E h \in {p, NoProc} : <<idx[p], h>> \in rsv[q]

\* A call that probes misses nobody who was admitted before.
Probed ==
  \A q \in Procs :
    /\ place[q] \in Probing => \A p \in Admitted : Found(p, q)
    /\ place[q] \in {"flock", "reread"} =>
         \A p \in Admitted : Least(idx[p], other[q]) => host[q] \in {p, NoProc}
    /\ place[q] = "query" => other[q] = {}

\* More than TokensFitLicense: calls count from their admission on.
Fits == Admitted # {} => Cardinality(Admitted) + Foreign <= Limit

\* What TokensFitLicense supposes.
AllGated == gated = Procs /\ lost = {}

LicenseInv == AllGated => StampOwn /\ Probed /\ Fits

LEMMA AdmittedPlace ==
  ASSUME SlotsInv, lost = {}, NEW p \in Admitted
  PROVE  p \in Procs /\ (place[p] \in Past \/ Cooling(p)) /\ idx[p] \in Slots
  BY DEF Admitted, SlotsInv, WlsTypeOK, SlotLockInv, Past, Holding, Cooling,
         Live

\* No two calls have a slot in common, from admission until the tokens expire.
LEMMA OneSlotEach ==
  ASSUME SlotsInv, CoolingInv, lost = {}, NEW p \in Admitted, NEW q \in Procs, p # q,
         q \in Admitted \/ place[q] \in Past
  PROVE  idx[p] # idx[q]
<1>1. place[p] \in Past \/ Cooling(p)
  BY AdmittedPlace
<1>2. place[q] \in Past \/ Cooling(q)
  BY AdmittedPlace
<1>3. p \in Procs
  BY DEF Admitted
<1> QED
  BY <1>1, <1>2, <1>3 DEF SlotsInv, SlotLockInv, Holding, CoolingInv

LEMMA AdmittedFinite ==
  IsFiniteSet(Admitted) /\ Cardinality(Admitted) \in Nat
  BY SlotAssumption, FS_Subset, FS_CardinalityType DEF Admitted

\* S are the environments shown, A the calls admitted, R the reservations
\* found, M the names among them that the server shows: if each of M and each
\* call that is not shown has a reservation of its own, S and R account for A.
LEMMA Counting ==
  ASSUME NEW A, NEW S, NEW M, NEW R,
         IsFiniteSet(A), IsFiniteSet(S), IsFiniteSet(R), M \subseteq S,
         NEW f \in Injection(M \cup (A \ S), R)
  PROVE  /\ Cardinality(M) \in Nat /\ Cardinality(R) \in Nat
         /\ Cardinality(S) \in Nat /\ Cardinality(A) \in Nat
         /\ Cardinality(A) + Cardinality(M) <= Cardinality(S) + Cardinality(R)
<1>1. IsFiniteSet(M) /\ IsFiniteSet(A \ S) /\ IsFiniteSet(A \cap S)
  BY FS_Subset, FS_Difference, FS_Intersection
<1>2. /\ Cardinality(M) \in Nat /\ Cardinality(R) \in Nat
      /\ Cardinality(S) \in Nat /\ Cardinality(A) \in Nat
      /\ Cardinality(A \ S) \in Nat /\ Cardinality(A \cap S) \in Nat
  BY <1>1, FS_CardinalityType
<1>3. Cardinality(A \ S) = Cardinality(A) - Cardinality(A \cap S)
  BY FS_Difference
<1>4. Cardinality(A \cap S) <= Cardinality(S)
  BY FS_Intersection
<1>5. Cardinality(M \cup (A \ S)) = Cardinality(M) + Cardinality(A \ S)
  <2>1. M \cap (A \ S) = {}
    OBVIOUS
  <2>2. Cardinality(M \cup (A \ S))
          = Cardinality(M) + Cardinality(A \ S) - Cardinality(M \cap (A \ S))
    BY <1>1, FS_Union
  <2>3. Cardinality(M \cap (A \ S)) = 0
    BY <2>1, FS_EmptySet
  <2> QED
    BY <2>2, <2>3, <1>2
<1>6. Cardinality(M \cup (A \ S)) <= Cardinality(R)
  BY FS_Injection
<1> QED
  BY <1>2, <1>3, <1>4, <1>5, <1>6

LEMMA ReservationsFinite ==
  ASSUME WlsTypeOK, NEW q \in Procs
  PROVE  IsFiniteSet(rsv[q])
<1>1. IsFiniteSet(Slots)
  BY SlotAssumption, FS_Interval DEF Slots
<1>2. IsFiniteSet(Named \cup {NoProc})
  BY SlotAssumption, FS_Subset, FS_AddElement
<1>3. IsFiniteSet(Slots \X (Named \cup {NoProc}))
  BY <1>1, <1>2, FS_Product
<1>4. rsv[q] \in SUBSET (Slots \X (Named \cup {NoProc}))
  BY DEF WlsTypeOK
<1> QED
  BY <1>3, <1>4, FS_Subset

\* What a call reads before it is admitted bounds those admitted before it.
LEMMA AdmissionCounts ==
  ASSUME SlotsInv, CoolingInv, AllGated, Probed, NEW q \in Procs, place[q] = "query"
  PROVE  /\ Cardinality(Shown) \in Nat /\ Unobserved(rsv[q]) \in Int
         /\ Cardinality(Admitted) <= Cardinality(Shown) + Unobserved(rsv[q])
<1> DEFINE R == rsv[q]
           S == Shown
           M == {h \in Shown \cap Named : \E o \in Slots : <<o, h>> \in R}
           D == M \cup (Admitted \ S)
           Of(x, r) == IF x \in M THEN r[2] = x
                       ELSE r[1] = idx[x] /\ r[2] \in {x, NoProc}
           f == [x \in D |-> CHOOSE r \in R : Of(x, r)]
<1>1. S \subseteq Admitted /\ S \subseteq Procs /\ M \subseteq S /\ NoProc \notin S
  BY SlotAssumption DEF Shown, Live, Admitted
<1>2. ASSUME NEW x \in D PROVE \E r \in R : Of(x, r)
  <2>1. CASE x \in M
    <3>1. PICK o \in Slots : <<o, x>> \in R
      BY <2>1
    <3> QED
      BY <2>1, <3>1
  <2>2. CASE x \notin M
    <3>1. x \in Admitted
      BY <2>2
    <3>2. Found(x, q) /\ other[q] = {}
      BY <3>1 DEF Probed, Probing
    <3>3. PICK h \in {x, NoProc} : <<idx[x], h>> \in R
      BY <3>2 DEF Found
    <3> QED
      BY <2>2, <3>3
  <2> QED
    BY <2>1, <2>2
<1>3. ASSUME NEW x \in D PROVE f[x] \in R /\ Of(x, f[x])
  <2>1. f[x] = CHOOSE r \in R : Of(x, r)
    OBVIOUS
  <2> HIDE DEF Of
  <2> QED
    BY <1>2, <2>1
<1>4. ASSUME NEW x \in D, NEW y \in D, f[x] = f[y] PROVE x = y
  <2> DEFINE r == f[x]
  <2>1. Of(x, r) /\ Of(y, r)
    BY <1>3, <1>4
  <2> HIDE DEF r, f
  <2>2. CASE x \in M /\ y \in M
    BY <2>1, <2>2
  <2>3. CASE x \in M /\ y \notin M
    BY <2>1, <2>3, <1>1
  <2>4. CASE x \notin M /\ y \in M
    BY <2>1, <2>4, <1>1
  <2>5. CASE x \notin M /\ y \notin M
    <3>1. x \in Admitted /\ y \in Admitted /\ idx[x] = idx[y]
      BY <2>1, <2>5
    <3> QED
      BY <3>1, OneSlotEach, AdmittedPlace DEF AllGated
  <2> QED
    BY <2>2, <2>3, <2>4, <2>5
<1>5. f \in Injection(D, R)
  <2>1. f \in [D -> R]
    BY <1>3
  <2> HIDE DEF f, D, R
  <2> QED
    BY <2>1, <1>4 DEF Injection, IsInjective
<1>6. IsFiniteSet(Admitted) /\ IsFiniteSet(S) /\ IsFiniteSet(R)
  BY <1>1, AdmittedFinite, ReservationsFinite, FS_Subset DEF SlotsInv
<1>7. Unobserved(R) = Cardinality(R) - Cardinality(M)
  BY DEF Unobserved
<1>8. /\ Cardinality(M) \in Nat /\ Cardinality(R) \in Nat
      /\ Cardinality(S) \in Nat /\ Cardinality(Admitted) \in Nat
      /\ Cardinality(Admitted) + Cardinality(M) <= Cardinality(S) + Cardinality(R)
  <2> HIDE DEF f, M, S, R
  <2> QED
    BY <1>1, <1>5, <1>6, Counting
<1> HIDE DEF M, S, R, D, f
<1>9. /\ Cardinality(S) \in Nat /\ Unobserved(R) \in Int
      /\ Cardinality(Admitted) <= Cardinality(S) + Unobserved(R)
  BY <1>7, <1>8
<1> QED
  BY <1>9 DEF S, R

\* Steps that admit nobody and look at no reservation.
LEMMA OtherSteps ==
  ASSUME Probed, Fits,
         \A p \in Admitted' : p \in Admitted /\ idx'[p] = idx[p],
         UNCHANGED gated,
         \A q \in Procs :
           place'[q] \in Probing =>
             /\ place'[q] = place[q] /\ other'[q] = other[q]
             /\ host'[q] = host[q] /\ rsv'[q] = rsv[q]
  PROVE  Probed' /\ Fits'
<1>1. Probed'
  BY DEF Probed, Found, Probing
<1>2. Fits'
  <2>1. Admitted' \subseteq Admitted
    OBVIOUS
  <2>2. Cardinality(Admitted') <= Cardinality(Admitted)
        /\ Cardinality(Admitted') \in Nat /\ Cardinality(Admitted) \in Nat
    BY <2>1, AdmittedFinite, FS_Subset, FS_CardinalityType
  <2>3. Foreign \in Nat /\ Limit \in Nat
    BY SlotAssumption
  <2> HIDE DEF Admitted
  <2> QED
    BY <2>1, <2>2, <2>3 DEF Fits
<1> QED
  BY <1>1, <1>2

\* The steps of a call but for those of the gate.
LEMMA CallSteps ==
  ASSUME SlotsInv, CoolingInv, NEW p \in Procs,
         \/ Enter(p) \/ Head(p) \/ TrySlot(p) \/ CheckStamp(p) \/ Unlock(p)
         \/ Refused(p) \/ Truncate(p) \/ WriteStamp(p) \/ WriteIdentity(p)
         \/ Run(p) \/ CandidateEnds(p) \/ Appear(p),
         AllGated, AllGated', StampOwn, Probed, Fits
  PROVE  StampOwn' /\ Probed' /\ Fits'
<1> USE SlotAssumption
    DEF SlotsInv, WlsTypeOK, SlotLockInv, CoolingInv, Cooling, Goto, Holding,
        Past, Probing,
        Written, slotVars, candVars, otherVars, Admitted, Live, StampOwn,
        AllGated
<1>1. CASE Enter(p)
  BY <1>1, OtherSteps DEF Enter
<1>2. CASE Head(p)
  BY <1>2, OtherSteps DEF Head
<1>3. CASE TrySlot(p) \/ Unlock(p)
  <2>1. PICK l \in {"head", "try", "check"}, i \in 0 .. Concurrency :
          place' = [place EXCEPT ![p] = l] /\ idx' = [idx EXCEPT ![p] = i]
    BY <1>3, OtherSlot
  <2>2. /\ place[p] \notin Past /\ cand[p] = "none"
        /\ UNCHANGED <<stamp, other, host, rsv, timer, cand, gated, lost>>
    BY <1>3, OtherSlot
  <2> QED
    BY <2>1, <2>2, OtherSteps
<1>4. CASE CheckStamp(p)
  BY <1>4, OtherSteps DEF CheckStamp
<1>5. CASE Refused(p)
  BY <1>5, OtherSteps DEF Refused
<1>6. CASE Truncate(p)
  BY <1>6, OtherSteps DEF Truncate, Empty
<1>7. CASE WriteStamp(p)
  <2>1. /\ place[p] = "write" /\ place' = [place EXCEPT ![p] = "identity"]
        /\ stamp' = [stamp EXCEPT ![idx[p]] = Reservation(p)]
        /\ UNCHANGED <<idx, other, host, rsv, timer, cand, gated, lost>>
    BY <1>7 DEF WriteStamp
  <2>2. Admitted' = Admitted
    BY <2>1
  <2>3. Probed' /\ Fits'
    BY <2>1, <2>2, OtherSteps
  <2>4. Reservation(p).by = p
    BY DEF Reservation
  <2>5. StampOwn'
    BY <2>1, <2>4
  <2> QED
    BY <2>3, <2>5
<1>8. CASE WriteIdentity(p)
  BY <1>8, OtherSteps DEF WriteIdentity
<1>9. CASE StartCandidate(p)
  BY <1>9, OtherSteps DEF StartCandidate
<1>10. CASE StartFails(p)
  BY <1>10, OtherSteps DEF StartFails
<1>11. CASE ExecutionReturns(p)
  BY <1>11, OtherSteps DEF ExecutionReturns
<1>12. CASE ExitTruncate(p)
  BY <1>12, OtherSteps DEF ExitTruncate, Empty
<1>13. CASE ExitWrite(p)
  BY <1>13, OtherSteps DEF ExitWrite, Cooldown
<1>14. CASE Exit(p)
  BY <1>14, OtherSteps DEF Exit
<1>15. CASE CandidateEnds(p)
  BY <1>15, OtherSteps DEF CandidateEnds
<1>16. CASE Appear(p)
  BY <1>16, OtherSteps DEF Appear, procVars
<1>17. ~ ReturnsAnyway(p)
  BY DEF ReturnsAnyway, Lose
<1> QED
  BY <1>1, <1>2, <1>3, <1>4, <1>5, <1>6, <1>7, <1>8, <1>9, <1>10, <1>11, <1>12,
     <1>13, <1>14, <1>15, <1>16, <1>17 DEF Run

\* The gate: the admission lock keeps others from being admitted meanwhile.
LEMMA GateSteps ==
  ASSUME SlotsInv, CoolingInv, NEW q \in Procs,
         LockAdmission(q) \/ ReadIdentity(q) \/ TryOther(q) \/ Reread(q) \/ Query(q),
         AllGated, StampOwn, Probed, Fits
  PROVE  StampOwn' /\ Probed' /\ Fits'
<1> DEFINE Gate == \/ LockAdmission(q) \/ ReadIdentity(q) \/ TryOther(q)
                   \/ Reread(q) \/ Query(q)
<1>1. q \notin Admitted
      /\ UNCHANGED <<stamp, identity, idx, cand, visible, lost, gated>>
  BY DEF LockAdmission, ReadIdentity, TryOther, Reread, Query, Admitted,
         SlotsInv, WlsTypeOK, SlotLockInv, Live, slotVars, candVars, otherVars
<1>2. ASSUME NEW p \in Procs, p # q
      PROVE  /\ place'[p] = place[p] /\ timer'[p] = timer[p]
             /\ other'[p] = other[p] /\ host'[p] = host[p] /\ rsv'[p] = rsv[p]
  BY <1>2 DEF LockAdmission, ReadIdentity, TryOther, Reread, Query, Goto,
              SlotsInv, WlsTypeOK
<1>3. /\ place[q] \in Probing \cup {"mutex"}
      /\ place'[q] \in Probing \cup {"truncate", "refused"}
      /\ cand[q] = "none"
  BY DEF LockAdmission, ReadIdentity, TryOther, Reread, Query, Goto, Probing,
         SlotsInv, WlsTypeOK, SlotLockInv
<1>4. StampOwn'
  BY <1>1, <1>2, <1>3 DEF StampOwn, Written, Probing, Cooling
<1>5. ASSUME NEW p \in Procs, place[p] \in Probing PROVE p = q
  BY <1>5, SlotAssumption DEF LockAdmission, ReadIdentity, TryOther, Reread,
                              Query, Probing, SlotsInv, SlotLockInv
<1>6. ASSUME place'[q] # "truncate" PROVE Admitted' = Admitted
  BY <1>1, <1>2, <1>3, <1>6 DEF Admitted, Live, Probing
<1>7. CASE LockAdmission(q)
  <2>1. ASSUME NEW p \in Admitted PROVE idx[p] \in Slots \ {idx[q]}
    <3>1. idx[p] # idx[q]
      BY <1>1, <1>7, OneSlotEach DEF LockAdmission, AllGated, Past
    <3> QED
      BY <3>1, AdmittedPlace DEF AllGated
  <2>2. place' = [place EXCEPT ![q] = "probe"] /\ other'[q] = Slots \ {idx[q]}
    BY <1>7 DEF LockAdmission, Goto, SlotsInv, WlsTypeOK
  <2>3. Admitted' = Admitted
    BY <1>6, <2>2 DEF SlotsInv, WlsTypeOK
  <2>4. Probed'
    BY <1>1, <1>2, <1>5, <2>1, <2>2, <2>3 DEF Probed, Found, Probing, SlotsInv,
                                              WlsTypeOK
  <2> QED
    BY <1>4, <2>3, <2>4 DEF Fits
<1>8. CASE ReadIdentity(q)
  <2>1. /\ place[q] = "probe" /\ UNCHANGED <<other, rsv>>
        /\ \/ /\ place'[q] = "flock"
              /\ \E o \in other[q] : Least(o, other[q]) /\ host'[q] = HostAt(o)
           \/ place'[q] = "query" /\ other[q] = {}
    BY <1>8 DEF ReadIdentity, Goto, SlotsInv, WlsTypeOK
  <2>2. Admitted' = Admitted
    BY <1>6, <2>1
  <2>3. ASSUME NEW p \in Admitted PROVE Found(p, q)'
    BY <1>1, <2>1 DEF Probed, Found, Probing
  <2>4. ASSUME NEW p \in Admitted, Least(idx[p], other[q]), place'[q] = "flock"
        PROVE  host'[q] \in {p, NoProc}
    <3>1. PICK o \in other[q] : Least(o, other[q]) /\ host'[q] = HostAt(o)
      BY <2>1, <2>4
    <3>2. o = idx[p]
      <4>1. o <= idx[p] /\ idx[p] <= o
        BY <2>4, <3>1 DEF Least
      <4>2. o \in Nat /\ idx[p] \in Nat
        BY <2>4, <3>1 DEF Least, SlotsInv, WlsTypeOK, Slots
      <4> QED
        BY <4>1, <4>2
    <3>3. p \in Procs /\ p # q /\ (place[p] \in Past \/ Cooling(p))
      BY <1>1, AdmittedPlace DEF AllGated
    <3>4. place[p] \in Written \/ Cooling(p)
      BY <2>1, <3>3 DEF Admitted, Live, SlotsInv, WlsTypeOK, SlotLockInv,
                        AllGated, Written, Past, Probing, Cooling
    <3> QED
      BY <3>1, <3>2, <3>3, <3>4 DEF StampOwn, HostAt
  <2>5. Probed'
    BY <1>1, <1>2, <1>5, <2>1, <2>2, <2>3, <2>4 DEF Probed, Probing
  <2> QED
    BY <1>4, <2>2, <2>5 DEF Fits
\* A slot of somebody admitted is locked by it, or has time left.
<1>10. ASSUME NEW p \in Admitted,
              slotLock[idx[p]] \in {q, NoProc}
       PROVE  stamp[idx[p]].left > 0
  <2>1. p \in Procs /\ p # q /\ (place[p] \in Past \/ Cooling(p)) /\ idx[p] \in Slots
    BY <1>1, AdmittedPlace DEF AllGated
  <2>2. ~ place[p] \in Past
    BY <1>10, <2>1, SlotAssumption DEF SlotsInv, SlotLockInv, Holding
  <2>3. stamp[idx[p]].left >= timer[p] /\ timer[p] > 0
    BY <2>1, <2>2 DEF CoolingInv, Cooling
  <2>4. stamp[idx[p]].left \in Nat /\ timer[p] \in Nat
    BY <2>1, SlotAssumption DEF SlotsInv, WlsTypeOK, Stamp, MaxExecution
  <2> QED
    BY <2>3, <2>4
\* What a call that is done with a slot leaves on its list.
<1>11. ASSUME NEW o \in other[q], Least(o, other[q]),
              place[q] \in {"flock", "reread"}, place'[q] = "probe",
              other' = [other EXCEPT ![q] = @ \ {o}],
              \/ rsv' = [rsv EXCEPT ![q] = @ \cup {<<o, host[q]>>}]
              \/ rsv' = rsv /\ \A p \in Admitted : idx[p] # o
       PROVE  Probed' /\ Fits'
  <2>1. Admitted' = Admitted
    BY <1>6, <1>11
  <2>2. ASSUME NEW p \in Admitted PROVE Found(p, q)'
    <3>1. Found(p, q) /\ UNCHANGED idx
      BY <1>1, <1>11 DEF Probed, Probing
    <3>2. CASE idx[p] = o
      <4>1. host[q] \in {p, NoProc}
        BY <1>11, <3>2 DEF Probed
      <4>2. <<idx[p], host[q]>> \in rsv'[q]
        BY <1>11, <3>2 DEF SlotsInv, WlsTypeOK
      <4> QED
        BY <3>1, <4>1, <4>2 DEF Found
    <3>3. CASE idx[p] # o
      BY <1>11, <3>1, <3>3 DEF Found, SlotsInv, WlsTypeOK
    <3> QED
      BY <3>2, <3>3
  <2>3. Probed'
    BY <1>2, <1>5, <1>11, <2>1, <2>2 DEF Probed, Probing
  <2> QED
    BY <2>1, <2>3 DEF Fits
<1>12. CASE TryOther(q)
  <2>1. PICK o \in other[q] : Least(o, other[q])
          /\ \/ /\ slotLock[o] # NoProc
                /\ other' = [other EXCEPT ![q] = @ \ {o}]
                /\ rsv' = [rsv EXCEPT ![q] = @ \cup {<<o, host[q]>>}]
                /\ Goto(q, "probe")
             \/ Goto(q, "reread") /\ UNCHANGED <<other, rsv>>
    BY <1>12 DEF TryOther
  <2>2. place[q] = "flock" /\ UNCHANGED host
    BY <1>12 DEF TryOther
  <2>3. CASE slotLock[o] # NoProc /\ other' = [other EXCEPT ![q] = @ \ {o}]
             /\ rsv' = [rsv EXCEPT ![q] = @ \cup {<<o, host[q]>>}]
             /\ Goto(q, "probe")
    <3>1. place'[q] = "probe"
      BY <2>3 DEF Goto, SlotsInv, WlsTypeOK
    <3> QED
      BY <1>4, <1>11, <2>1, <2>2, <2>3, <3>1
  <2>4. CASE Goto(q, "reread") /\ UNCHANGED <<other, rsv>>
    <3>1. place'[q] = "reread"
      BY <2>4 DEF Goto, SlotsInv, WlsTypeOK
    <3>2. Admitted' = Admitted
      BY <1>6, <3>1
    <3>3. Probed'
      BY <1>1, <1>2, <1>5, <2>2, <2>4, <3>1, <3>2 DEF Probed, Found, Probing
    <3> QED
      BY <1>4, <3>2, <3>3 DEF Fits
  <2> QED
    BY <2>1, <2>3, <2>4
<1>13. CASE Reread(q)
  <2>1. PICK o \in other[q] :
          /\ Least(o, other[q])
          /\ other' = [other EXCEPT ![q] = @ \ {o}]
          /\ rsv' = IF stamp[o].left > 0
                    THEN [rsv EXCEPT ![q] = @ \cup {<<o, host[q]>>}]
                    ELSE rsv
    BY <1>13 DEF Reread
  <2>2. place[q] = "reread" /\ place'[q] = "probe"
    BY <1>13 DEF Reread, Goto, SlotsInv, WlsTypeOK
  <2>3. slotLock[o] = q
    BY <2>1, <2>2 DEF SlotsInv, WlsTypeOK, SlotLockInv
  <2>4. stamp[o].left > 0 \/ \A p \in Admitted : idx[p] # o
    BY <1>10, <2>3
  <2>5. \/ rsv' = [rsv EXCEPT ![q] = @ \cup {<<o, host[q]>>}]
        \/ rsv' = rsv /\ \A p \in Admitted : idx[p] # o
    BY <2>1, <2>4
  <2> QED
    BY <1>4, <1>11, <2>1, <2>2, <2>5
<1>9. CASE Query(q)
  <2>1. Probed'
    BY <1>2, <1>5, <1>9 DEF Query, Goto, Probed, Probing, SlotsInv, WlsTypeOK
  <2>2. CASE place'[q] # "truncate"
    BY <1>4, <1>6, <2>1, <2>2 DEF Fits
  <2>3. CASE place'[q] = "truncate"
    <3>1. place[q] = "query" /\ Cardinality(Shown) + Foreign + Unobserved(rsv[q]) < Limit
      BY <1>9, <2>3 DEF Query, Goto, SlotsInv, WlsTypeOK
    <3>2. Admitted' = Admitted \cup {q}
      BY <1>1, <1>2, <1>3, <2>3 DEF Admitted, Live, Probing
    <3>3. Cardinality(Admitted') = Cardinality(Admitted) + 1
      BY <1>1, <3>2, AdmittedFinite, FS_AddElement
    <3>4. /\ Cardinality(Shown) \in Nat /\ Unobserved(rsv[q]) \in Int
          /\ Cardinality(Admitted) <= Cardinality(Shown) + Unobserved(rsv[q])
      BY <3>1, AdmissionCounts
    <3>5. Fits'
      <4> DEFINE s == Cardinality(Shown)
                 u == Unobserved(rsv[q])
      <4>1. s \in Nat /\ u \in Int
        BY <3>4
      <4>2. Foreign \in Nat /\ Limit \in Nat /\ Cardinality(Admitted) \in Nat
        BY SlotAssumption, AdmittedFinite
      <4> HIDE DEF s, u
      <4>3. s + Foreign + u < Limit /\ Cardinality(Admitted) <= s + u
        BY <3>1, <3>4 DEF s, u
      <4> QED
        BY <3>3, <4>1, <4>2, <4>3 DEF Fits
    <3> QED
      BY <1>4, <2>1, <3>5
  <2> QED
    BY <2>2, <2>3
<1> QED
  BY <1>7, <1>8, <1>9, <1>12, <1>13

LEMMA NextLicense ==
  SlotsInv /\ CoolingInv /\ LicenseInv /\ [WlsNext]_wlsVars => LicenseInv'
<1> SUFFICES ASSUME SlotsInv, CoolingInv, LicenseInv, [WlsNext]_wlsVars, AllGated'
             PROVE  StampOwn' /\ Probed' /\ Fits'
  BY DEF LicenseInv
<1>1. CASE \E p \in Procs : KillCall(p)
  BY <1>1 DEF KillCall, Lose, AllGated
<1>2. CASE Tick
  <2>1. AllGated /\ StampOwn /\ Probed /\ Fits
    BY <1>2 DEF Tick, otherVars, AllGated, LicenseInv
  <2>2. /\ UNCHANGED <<place, idx, other, host, rsv, cand, gated, lost>>
        /\ \A p \in Procs : timer'[p] > 0 => timer[p] > 0
        /\ \A i \in Slots : stamp'[i].by = stamp[i].by
    BY <1>2 DEF Tick, otherVars, Dec, SlotsInv, WlsTypeOK, Stamp
  <2>3. StampOwn'
    BY <2>1, <2>2 DEF StampOwn, Written, Cooling, SlotsInv, SlotLockInv,
                      Holding, Past
  <2> QED
    BY <2>1, <2>2, <2>3, OtherSteps DEF Admitted, Live
<1>3. CASE UNCHANGED wlsVars
  BY <1>3
  DEF wlsVars, slotVars, procVars, candVars, otherVars, LicenseInv, AllGated,
      StampOwn, Probed, Found, Fits, Admitted, Live, Cooling, Probing
<1>4. ASSUME NEW p \in Procs,
             Enter(p) \/ Queue(p) \/ Run(p) \/ CandidateEnds(p) \/ Appear(p)
      PROVE  StampOwn' /\ Probed' /\ Fits'
  <2>1. lost \subseteq lost' /\ UNCHANGED gated
    BY <1>4 DEF Enter, Queue, Run, Head, TrySlot, CheckStamp, Unlock,
                LockAdmission, ReadIdentity, TryOther, Reread, Query, Refused,
                Truncate, WriteStamp, WriteIdentity, StartCandidate, StartFails,
                ExecutionReturns, ReturnsAnyway, Lose, ExitTruncate, ExitWrite,
                Exit, CandidateEnds, Appear, otherVars
  <2>2. AllGated /\ StampOwn /\ Probed /\ Fits
    BY <2>1 DEF AllGated, LicenseInv
  <2> QED
    BY <1>4, <2>2, CallSteps, GateSteps DEF Queue
<1> QED
  BY <1>1, <1>2, <1>3, <1>4 DEF WlsNext

LEMMA InitLicense == WlsInit => LicenseInv
<1> SUFFICES ASSUME WlsInit PROVE LicenseInv
  OBVIOUS
<1>1. Admitted = {}
  BY DEF WlsInit, Admitted, Live
<1> QED
  BY <1>1 DEF WlsInit, LicenseInv, StampOwn, Probed, Fits, Written, Cooling

\* For any calls, slots and license, whatever the server shows how late: while
\* each call sees its candidate end and all use the gate, the license never carries more
\* environments than it allows (wls_gate.py 43-57, execution.py 214-266), if
\* the cooldown covers the tokens.
THEOREM LicenseIsKept == TokensCovered => (WlsSpec => []TokensFitLicense)
<1> SUFFICES ASSUME TokensCovered PROVE WlsSpec => []TokensFitLicense
  OBVIOUS
<1>1. LicenseInv => TokensFitLicense
  <2> SUFFICES ASSUME LicenseInv, gated = Procs, lost = {}, Live # {}
               PROVE  Cardinality(Live) + Foreign <= Limit
    BY DEF TokensFitLicense
  <2>1. Live \subseteq Admitted
    BY DEF Live, Admitted
  <2>2. /\ Cardinality(Live) <= Cardinality(Admitted)
        /\ Cardinality(Live) \in Nat /\ Cardinality(Admitted) \in Nat
    BY <2>1, AdmittedFinite, FS_Subset, FS_CardinalityType
  <2>3. Cardinality(Admitted) + Foreign <= Limit
    BY <2>1 DEF LicenseInv, AllGated, Fits
  <2> QED
    BY <2>2, <2>3, SlotAssumption
<1> QED
  BY <1>1, InitSlots, NextSlots, InitCooling, NextCooling, InitLicense, NextLicense, PTL
  DEF WlsSpec

\* For any delays, kills and configuration of the gate, a slot stays reserved
\* until the tokens of its completed candidate have expired (execution.py
\* 276-281), if the cooldown is as long.
THEOREM CooldownsAreKept ==
  TokensCovered => (WlsSpec => []CompletedRunsStayReserved)
<1> SUFFICES ASSUME TokensCovered PROVE WlsSpec => []CompletedRunsStayReserved
  OBVIOUS
<1>1. SlotsInv /\ CoolingInv => CompletedRunsStayReserved
  BY SlotAssumption
  DEF SlotsInv, WlsTypeOK, SlotLockInv, CoolingInv, Cooling, Holding, Past,
      Stamp,
      CompletedRunsStayReserved, Reserved
<1> QED
  BY <1>1, InitSlots, NextSlots, InitCooling, NextCooling, PTL DEF WlsSpec

LEMMA OwedAlways == WlsSpec => [](SlotsInv /\ OwedInv)
  BY InitSlots, NextSlots, InitOwed, NextOwed, PTL DEF WlsSpec

\* For any calls, slots, delays and kills, and however long a call waits for
\* CPUs: no two candidates run on one slot (execution.py 201-213) until one of
\* them, whose call was killed or could not remove it, has outlived the time
\* that its call had reserved.
THEOREM SlotsAreExclusive == WlsSpec => []ConcurrencyRespected
<1>1. SlotsInv /\ OwedInv => ConcurrencyRespected
  <2> SUFFICES ASSUME SlotsInv, OwedInv, NEW p \in Procs, NEW q \in Procs, p # q,
                      cand[p] = "running", cand[q] = "running",
                      ~ Outlived(p), ~ Outlived(q)
               PROVE  idx[p] # idx[q]
    BY DEF ConcurrencyRespected
  <2>1. ASSUME NEW x \in {p, q} PROVE place[x] \in Past \/ owed[x] > 0
    BY <2>1 DEF Outlived, SlotsInv, WlsTypeOK, SlotLockInv, Past
  <2>2. owed[p] > 0 \/ owed[q] > 0 => idx[p] # idx[q]
    BY <2>1 DEF OwedInv
  <2>3. place[p] \in Past /\ place[q] \in Past => idx[p] # idx[q]
    BY DEF SlotsInv, SlotLockInv, Holding
  <2> QED
    BY <2>1, <2>2, <2>3
<1> QED
  BY <1>1, OwedAlways, PTL

\* For any kills and waits, "a killed grader cannot immediately reuse" its slot
\* (execution.py 267-274): nobody takes it while its candidate runs, until the
\* reserved time is over.
THEOREM KilledKeepSlots == WlsSpec => []KilledRunsStayReserved
<1>1. SlotsInv /\ OwedInv => KilledRunsStayReserved
  BY SlotAssumption
  DEF SlotsInv, WlsTypeOK, OwedInv, Stamp, MaxExecution, KilledRunsStayReserved,
      Reserved
<1> QED
  BY <1>1, OwedAlways, PTL

=============================================================================
