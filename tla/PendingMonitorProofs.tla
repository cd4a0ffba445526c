------------------------ MODULE PendingMonitorProofs ------------------------
(***************************************************************************)
(* Proofs about PendingMonitor, for any agents, candidates, scores and     *)
(* number of resumed managers.  The inductive invariant IInv says that the *)
(* order of completion is known, so that a scan that finds results finds   *)
(* an oldest one; that what a scan saw stays on record; and that the       *)
(* counters and heartbeats of each agent account for the results that the  *)
(* loop has done with.  HistoryInv adds the order of an agent's attempts,  *)
(* which is the same on record, in completion and in what has been seen,   *)
(* and with it best scores and plateaus.  What the replay of a history     *)
(* makes of them is proved by induction on its length, by way of the       *)
(* library's least elements of well-founded relations.                     *)
(***************************************************************************)
EXTENDS PendingMonitor, FiniteSetTheorems, SequenceTheorems, WellFoundedInduction,
        TLAPS

Labels == {"start", "scan", "filter", "health", "act", "stopped"}

\* Types, without those of best and plateau, which come with the scores.
Typed ==
  /\ attempt \in [Commits -> {"none", "pending", "done"}]
  /\ pc \in Labels /\ seen \subseteq Commits /\ names \subseteq Commits
  /\ alive \in [Agents -> BOOLEAN]
  /\ count \in [Agents -> Nat] /\ told \in [Agents -> Nat]
  /\ deferred \in [Agents -> Nat] /\ missed \in [Agents -> Nat]
  /\ looked \subseteq Commits
  /\ acting \in Agents \cup {NoAgent} /\ (pc = "act" => acting \in Agents)

\* In the given order, c comes before any d; one of cs comes before all.
Precedes(order, c, d) ==
  \E i \in 1 .. Len(order) : order[i] = c /\ \A j \in 1 .. i - 1 : order[j] # d

HasOldest(order, cs) == \E c \in cs : \A d \in cs : Precedes(order, c, d)

\* The order of completion has the completed attempts, and among any of them
\* an oldest.
FinishedInv ==
  /\ finished \in Seq(Commits)
  /\ \A i \in 1 .. Len(finished) : attempt[finished[i]] = "done"
  /\ \A cs \in SUBSET Completed(Commits) :
       cs # {} => HasOldest(finished, cs)

\* What a scan or a look saw is on record, and stays there; the agent that is
\* about to get a session had nothing pending when that was looked at.
LoopInv ==
  /\ \A c \in names \cup looked : attempt[c] # "none"
  /\ pc = "act" => Pending(acting) \cap looked = {}

\* Heartbeats that the completed results of an agent make due.
Due(a) == Cardinality(Completed(Of(a))) \div Every

\* Each result that is done with is counted, once; each heartbeat due is given,
\* or waits, or was missed when the count was taken up; heartbeats wait for
\* agents without a session only, and with the manager's memory they go.
CountInv ==
  /\ \A c \in seen : attempt[c] = "done"
  /\ pc = "start" => deferred = [a \in Agents |-> 0]
  /\ \A a \in Agents :
       /\ count[a] = Cardinality(Of(a) \cap seen)
       /\ told[a] + deferred[a] <= Due(a)
       /\ pc \notin {"start", "stopped"} =>
            told[a] + deferred[a] + missed[a] = count[a] \div Every
       /\ alive[a] => deferred[a] = 0

IInv == Typed /\ FinishedInv /\ LoopInv /\ CountInv

-----------------------------------------------------------------------------
(* Arithmetic of \div. *)

LEMMA DivMod ==
  ASSUME NEW n \in Nat, NEW k \in Nat \ {0}
  PROVE  /\ n \div k \in Nat /\ n % k \in 0 .. k - 1
         /\ n = k * (n \div k) + (n % k)
  OBVIOUS
LEMMA DivUnique ==
  ASSUME NEW n \in Nat, NEW k \in Nat \ {0}, NEW q \in Nat, NEW r \in 0 .. k - 1,
         n = k * q + r
  PROVE  n \div k = q /\ n % k = r
<1> DEFINE p == n \div k  s == n % k
<1>1. p \in Nat /\ s \in 0 .. k - 1 /\ n = k * p + s
  OBVIOUS
<1> HIDE DEF p, s
<1>2. ~ p < q
  <2> SUFFICES ASSUME p < q PROVE FALSE
    OBVIOUS
  <2>1. PICK d \in Nat : q = p + 1 + d
    <3>1. q - p - 1 \in Nat /\ q = p + 1 + (q - p - 1)
      BY <1>1
    <3> QED
      BY <3>1
  <2>2. k * q = k * p + k + k * d
    BY <1>1, <2>1
  <2>3. k * d \in Nat /\ k * p \in Nat
    BY <1>1
  <2> QED
    BY <1>1, <2>2, <2>3
<1>3. ~ q < p
  <2> SUFFICES ASSUME q < p PROVE FALSE
    OBVIOUS
  <2>1. PICK d \in Nat : p = q + 1 + d
    <3>1. p - q - 1 \in Nat /\ p = q + 1 + (p - q - 1)
      BY <1>1
    <3> QED
      BY <3>1
  <2>2. k * p = k * q + k + k * d
    BY <1>1, <2>1
  <2>3. k * d \in Nat /\ k * q \in Nat
    BY <1>1
  <2> QED
    BY <1>1, <2>2, <2>3
<1>4. p = q
  BY <1>1, <1>2, <1>3
<1>5. k * q \in Nat
  OBVIOUS
<1>6. s = r
  BY <1>1, <1>4, <1>5
<1> QED
  BY <1>4, <1>6 DEF p, s
\* The quotient grows by one at the multiples.
LEMMA DivNext ==
  ASSUME NEW n \in Nat, NEW k \in Nat \ {0}
  PROVE  (n + 1) \div k = n \div k + (IF (n + 1) % k = 0 THEN 1 ELSE 0)
<1> DEFINE q == n \div k  r == n % k
<1>1. q \in Nat /\ r \in 0 .. k - 1 /\ n = k * q + r
  BY DivMod
<1> HIDE DEF q, r
<1>2. k * q \in Nat /\ k * (q + 1) = k * q + k
  BY <1>1
<1>3. CASE r = k - 1
  <2>1. n + 1 = k * (q + 1) + 0 /\ q + 1 \in Nat /\ 0 \in 0 .. k - 1 /\ n + 1 \in Nat
    BY <1>1, <1>2, <1>3
  <2>2. (n + 1) \div k = q + 1 /\ (n + 1) % k = 0
    BY <2>1, DivUnique
  <2> QED
    BY <2>2 DEF q
<1>4. CASE r # k - 1
  <2>1. n + 1 = k * q + (r + 1) /\ r + 1 \in 0 .. k - 1 /\ n + 1 \in Nat
    BY <1>1, <1>2, <1>4
  <2>2. (n + 1) \div k = q /\ (n + 1) % k = r + 1 /\ r + 1 # 0
    BY <1>1, <2>1, DivUnique
  <2> QED
    BY <1>1, <2>2 DEF q
<1> QED
  BY <1>3, <1>4


\* The quotient does not fall.
LEMMA DivMono ==
  ASSUME NEW m \in Nat, NEW n \in Nat, NEW k \in Nat \ {0}, m <= n
  PROVE  m \div k <= n \div k
<1> DEFINE p == m \div k  s == m % k  q == n \div k  r == n % k
<1>1. /\ p \in Nat /\ s \in 0 .. k - 1 /\ m = k * p + s
      /\ q \in Nat /\ r \in 0 .. k - 1 /\ n = k * q + r
  BY DivMod
<1> HIDE DEF p, s, q, r
<1>2. ~ q < p
  <2> SUFFICES ASSUME q < p PROVE FALSE
    OBVIOUS
  <2>1. PICK d \in Nat : p = q + 1 + d
    <3>1. p - q - 1 \in Nat /\ p = q + 1 + (p - q - 1)
      BY <1>1
    <3> QED
      BY <3>1
  <2>2. k * p = k * q + k + k * d
    BY <1>1, <2>1
  <2>3. k * d \in Nat /\ k * q \in Nat
    BY <1>1
  <2> QED
    BY <1>1, <2>2, <2>3
<1> QED
  BY <1>1, <1>2 DEF p, q

-----------------------------------------------------------------------------
LEMMA RestoreCounts ==
  ASSUME NEW done, Restore(done)
  PROVE  /\ count' = [a \in Agents |-> Cardinality(Of(a) \cap done)]
         /\ missed' = [a \in Agents |->
                         (Cardinality(Of(a) \cap done) \div Every) - told[a]]
         /\ UNCHANGED <<told, deferred>>
  BY DEF Restore

LEMMA FiniteCommits ==
  ASSUME NEW S \in SUBSET Commits
  PROVE  IsFiniteSet(S) /\ Cardinality(S) \in Nat
  BY MonitorAssumption, FS_Subset, FS_CardinalityType

\* More results make no less due.
LEMMA DueOf ==
  ASSUME NEW cs \in SUBSET Commits, NEW ds \in SUBSET cs
  PROVE  /\ Cardinality(cs) \div Every \in Nat
         /\ Cardinality(ds) \div Every <= Cardinality(cs) \div Every
<1>1. Every \in Nat \ {0}
  BY MonitorAssumption
<1>2. IsFiniteSet(cs) /\ Cardinality(cs) \in Nat
  BY FiniteCommits
<1>3. Cardinality(ds) \in Nat /\ Cardinality(ds) <= Cardinality(cs)
  BY <1>2, FiniteCommits, FS_Subset
<1> QED
  BY <1>1, <1>2, <1>3, DivMono, DivMod

LEMMA DueBounds ==
  ASSUME NEW a \in Agents
  PROVE  /\ Due(a) \in Nat /\ Due(a)' \in Nat
         /\ \A cs \in SUBSET Completed(Of(a)) : Cardinality(cs) \div Every <= Due(a)
         /\ \A cs \in SUBSET Completed(Of(a))' :
               Cardinality(cs) \div Every <= Due(a)'
<1>1. Completed(Of(a)) \in SUBSET Commits /\ Completed(Of(a))' \in SUBSET Commits
  BY DEF Completed, Of
<1>2. /\ Due(a) \in Nat
      /\ \A cs \in SUBSET Completed(Of(a)) : Cardinality(cs) \div Every <= Due(a)
  BY <1>1, DueOf DEF Due
<1>3. /\ Due(a)' \in Nat
      /\ \A cs \in SUBSET Completed(Of(a))' : Cardinality(cs) \div Every <= Due(a)'
  BY <1>1, DueOf DEF Due
<1> QED
  BY <1>2, <1>3

\* The scan that finds something new finds an oldest result.
LEMMA OldestIsOne ==
  ASSUME Typed, FinishedInv, NEW cs \in SUBSET Completed(Commits), cs # {}
  PROVE  /\ Oldest(cs) \in cs
         /\ \A d \in cs : Precedes(finished, Oldest(cs), d)
<1>1. PICK c \in cs : \A d \in cs : Precedes(finished, c, d)
  BY DEF FinishedInv, HasOldest
<1>2. ASSUME NEW d \in cs
      PROVE  \E i \in DOMAIN finished :
               /\ finished[i] = c
               /\ d \notin ToSet(SubSeq(finished, 1, i - 1))
  <2>1. PICK i \in 1 .. Len(finished) :
          finished[i] = c /\ \A j \in 1 .. i - 1 : finished[j] # d
    BY <1>1, <1>2 DEF Precedes
  <2>2. DOMAIN finished = 1 .. Len(finished) /\ Len(finished) \in Nat
    BY LenProperties DEF FinishedInv
  <2> DEFINE s == SubSeq(finished, 1, i - 1)
  <2>3. \A j \in 1 .. i - 1 : finished[j] \in Commits
    BY <2>2, ElementOfSeq DEF FinishedInv
  <2>4. /\ s \in Seq(Commits) /\ Len(s) = i - 1
        /\ \A j \in 1 .. i - 1 : s[j] = finished[j]
    BY <2>2, <2>3, SubSeqProperties
  <2>5. DOMAIN s = 1 .. i - 1
    BY <2>4, LenProperties
  <2>6. d \notin ToSet(s)
    BY <2>1, <2>4, <2>5 DEF ToSet
  <2> QED
    BY <2>1, <2>2, <2>6
<1>3. \E e \in cs :
        \A d \in cs : \E i \in DOMAIN finished :
          finished[i] = e /\ d \notin ToSet(SubSeq(finished, 1, i - 1))
  BY <1>2
<1>4. /\ Oldest(cs) \in cs
      /\ \A d \in cs : \E i \in DOMAIN finished :
            finished[i] = Oldest(cs) /\ d \notin ToSet(SubSeq(finished, 1, i - 1))
  BY <1>3 DEF Oldest
<1>5. ASSUME NEW d \in cs PROVE Precedes(finished, Oldest(cs), d)
  <2>1. PICK i \in DOMAIN finished :
          finished[i] = Oldest(cs) /\ d \notin ToSet(SubSeq(finished, 1, i - 1))
    BY <1>4
  <2>2. DOMAIN finished = 1 .. Len(finished) /\ Len(finished) \in Nat
    BY LenProperties DEF FinishedInv
  <2> DEFINE s == SubSeq(finished, 1, i - 1)
  <2>3. \A j \in 1 .. i - 1 : finished[j] \in Commits
    BY <2>2, ElementOfSeq DEF FinishedInv
  <2>4. /\ s \in Seq(Commits) /\ Len(s) = i - 1
        /\ \A j \in 1 .. i - 1 : s[j] = finished[j]
    BY <2>2, <2>3, SubSeqProperties
  <2>5. DOMAIN s = 1 .. i - 1
    BY <2>4, LenProperties
  <2>6. \A j \in 1 .. i - 1 : finished[j] # d
    BY <2>1, <2>4, <2>5 DEF ToSet
  <2> QED
    BY <2>1, <2>2, <2>6 DEF Precedes
<1> QED
  BY <1>4, <1>5

LEMMA Nothing == Cardinality({}) = 0 /\ 0 \div Every = 0
<1>1. Every \in Nat \ {0} /\ 0 = Every * 0 + 0 /\ 0 \in 0 .. Every - 1
  BY MonitorAssumption
<1> QED
  BY <1>1, DivUnique, FS_EmptySet

LEMMA InitIInv == Init => IInv
<1> SUFFICES ASSUME Init PROVE IInv
  OBVIOUS
<1>1. Typed
  BY MonitorAssumption DEF Init, Typed, Labels
<1>2. FinishedInv
  BY EmptySeq DEF Init, FinishedInv, Completed
<1>3. LoopInv
  BY DEF Init, LoopInv
<1>4. CountInv
  <2>1. ASSUME NEW a \in Agents PROVE Due(a) = 0 /\ Of(a) \cap seen = {}
    <3>1. Completed(Of(a)) = {} /\ Of(a) \cap seen = {}
      BY DEF Init, Completed, Of
    <3> QED
      BY <3>1, Nothing DEF Due
  <2> QED
    BY <2>1, Nothing DEF Init, CountInv
<1> QED
  BY <1>1, <1>2, <1>3, <1>4 DEF IInv

-----------------------------------------------------------------------------
(* Steps of agents, broker and grader. *)

\* What is new comes last.
LEMMA AppendOldest ==
  ASSUME NEW order \in Seq(Commits), NEW c \in Commits, NEW cs, cs # {},
         \A i \in 1 .. Len(order) : order[i] # c,
         cs \ {c} # {} => HasOldest(order, cs \ {c})
  PROVE  HasOldest(Append(order, c), cs)
<1> DEFINE longer == Append(order, c)  n == Len(order)
<1>1. /\ n \in Nat /\ Len(longer) = n + 1
      /\ \A i \in 1 .. n : longer[i] = order[i]
      /\ longer[n + 1] = c
  BY LenProperties, AppendProperties
<1> HIDE DEF longer, n
<1>2. n + 1 \in 1 .. Len(longer) /\ (n + 1) - 1 = n
  BY <1>1
<1>3. CASE cs \ {c} = {}
  <2>1. cs = {c}
    BY <1>3
  <2>2. \A j \in 1 .. (n + 1) - 1 : longer[j] # c
    BY <1>1, <1>2 DEF n
  <2>3. Precedes(longer, c, c)
    BY <1>1, <1>2, <2>2 DEF Precedes
  <2> QED
    BY <2>1, <2>3 DEF HasOldest, longer
<1>4. CASE cs \ {c} # {}
  <2>1. PICK e \in cs \ {c} : \A d \in cs \ {c} : Precedes(order, e, d)
    BY <1>4 DEF HasOldest
  <2>2. ASSUME NEW d \in cs PROVE Precedes(longer, e, d)
    <3>1. PICK i \in 1 .. n :
            /\ order[i] = e
            /\ d # c => \A j \in 1 .. i - 1 : order[j] # d
      BY <2>1, <2>2 DEF Precedes, n
    <3>2. \A j \in 1 .. i - 1 : j \in 1 .. n
      BY <1>1
    <3>3. \A j \in 1 .. i - 1 : longer[j] # d
      BY <1>1, <3>1, <3>2 DEF n
    <3>4. i \in 1 .. Len(longer) /\ longer[i] = e
      BY <1>1, <3>1
    <3> QED
      BY <3>3, <3>4 DEF Precedes
  <2> QED
    BY <2>1, <2>2 DEF HasOldest, longer
<1> QED
  BY <1>3, <1>4

\* A result more is the newest.
LEMMA GradeFinished ==
  ASSUME IInv, NEW c \in Commits, Grade(c)
  PROVE  FinishedInv'
<1> USE DEF IInv, Typed, FinishedInv
<1>1. /\ attempt[c] = "pending" /\ attempt' = [attempt EXCEPT ![c] = "done"]
      /\ finished' = Append(finished, c)
  BY DEF Grade
<1>2. Len(finished) \in Nat
  BY LenProperties
<1>3. /\ finished' \in Seq(Commits) /\ Len(finished') = Len(finished) + 1
      /\ \A i \in 1 .. Len(finished) : finished'[i] = finished[i]
      /\ finished'[Len(finished) + 1] = c
  BY <1>1, AppendProperties
<1>4. \A i \in 1 .. Len(finished) : finished[i] \in Commits /\ finished[i] # c
  BY <1>1, ElementOfSeq
<1>5. \A i \in 1 .. Len(finished') : attempt'[finished'[i]] = "done"
  BY <1>1, <1>2, <1>3, <1>4
<1>6. ASSUME NEW cs \in SUBSET Completed(Commits)', cs # {}
      PROVE  HasOldest(finished', cs)
  <2>1. cs \ {c} \in SUBSET Completed(Commits)
    BY <1>1, <1>6 DEF Completed
  <2>2. HasOldest(Append(finished, c), cs)
    BY <1>4, <1>6, <2>1, AppendOldest
  <2> QED
    BY <1>1, <2>2
<1> QED
  BY <1>3, <1>5, <1>6

\* Steps that leave the results alone.
LEMMA SameResults ==
  ASSUME FinishedInv, UNCHANGED finished,
         Completed(Commits)' = Completed(Commits),
         \A i \in 1 .. Len(finished) : attempt'[finished[i]] = "done"
  PROVE  FinishedInv'
<1>1. \A cs \in SUBSET Completed(Commits)' :
        cs # {} => HasOldest(finished', cs)
  BY DEF FinishedInv
<1> QED
  BY <1>1 DEF FinishedInv

LEMMA SameFiles ==
  ASSUME FinishedInv, UNCHANGED <<finished, attempt>>
  PROVE  FinishedInv'
<1>1. Completed(Commits)' = Completed(Commits)
  BY DEF Completed
<1>2. \A i \in 1 .. Len(finished) : attempt'[finished[i]] = "done"
  BY DEF FinishedInv
<1> QED
  BY <1>1, <1>2, SameResults

\* Results are never taken back, so what is due does not fall.
LEMMA SameCounts ==
  ASSUME IInv, Typed', UNCHANGED <<seen, count, told, deferred, missed>>,
         \A c \in Commits : attempt[c] = "done" => attempt'[c] = "done",
         \A a \in Agents : alive'[a] => alive[a],
         pc' = "start" => pc = "start",
         pc \in {"start", "stopped"} => pc' \in {"start", "stopped"}
  PROVE  CountInv'
<1> USE DEF IInv
<1>1. ASSUME NEW a \in Agents PROVE Due(a) <= Due(a)'
  <2>1. Completed(Of(a)) \in SUBSET Completed(Of(a))'
    BY DEF Completed, Of
  <2>2. PICK cs : cs = Completed(Of(a))
    OBVIOUS
  <2>3. Cardinality(cs) \div Every <= Due(a)'
    <3>1. \A ds \in SUBSET Completed(Of(a))' :
            Cardinality(ds) \div Every <= Due(a)'
      BY DueBounds
    <3> QED
      BY <2>1, <2>2, <3>1
  <2> QED
    BY <2>2, <2>3 DEF Due
<1>2. \A a \in Agents : Due(a) \in Nat /\ Due(a)' \in Nat
  BY DueBounds
<1>3. \A a \in Agents : told'[a] + deferred'[a] <= Due(a)'
  <2> TAKE a \in Agents
  <2>1. /\ told'[a] = told[a] /\ deferred'[a] = deferred[a]
        /\ told[a] \in Nat /\ deferred[a] \in Nat
        /\ told[a] + deferred[a] <= Due(a)
    BY DEF CountInv, Typed
  <2> QED
    BY <1>1, <1>2, <2>1
<1>4. \A c \in seen' : attempt'[c] = "done"
  BY DEF CountInv, Typed
<1> QED
  BY <1>3, <1>4 DEF CountInv, Of

\* The rest of the invariant holds for what the files say.
LEMMA FileSteps ==
  ASSUME IInv, NEW c \in Commits, Submit(c) \/ Admit(c) \/ Grade(c)
  PROVE  IInv'
<1> USE DEF IInv, counterVars, loopVars
<1>1. CASE Submit(c)
  <2>1. UNCHANGED <<attempt, finished, alive, pc, names, seen, acting, looked,
                    count, told, deferred, missed>>
    BY <1>1 DEF Submit
  <2>2. FinishedInv'
    BY <2>1, SameFiles
  <2>3. Typed' /\ LoopInv'
    BY <2>1 DEF Typed, LoopInv, Pending
  <2>4. CountInv'
    BY <2>1, <2>3, SameCounts
  <2> QED
    BY <2>2, <2>3, <2>4
<1>2. CASE Admit(c)
  <2>1. /\ UNCHANGED <<finished, alive, pc, names, seen, acting, looked, count,
                       told, deferred, missed>>
        /\ \/ attempt' = attempt
           \/ /\ attempt[c] = "none"
              /\ attempt' = [attempt EXCEPT ![c] = "pending"]
    <3>1. UNCHANGED <<finished, alive, pc, names, seen, acting, looked, count,
                      told, deferred, missed>>
      BY <1>2 DEF Admit
    <3>2. \/ attempt' = attempt
          \/ /\ attempt[c] = "none"
             /\ attempt' = [attempt EXCEPT ![c] = "pending"]
      BY <1>2 DEF Admit
    <3> QED
      BY <3>1, <3>2
  <2>2. Completed(Commits)' = Completed(Commits)
    BY <2>1 DEF Typed, Completed
  <2>3. FinishedInv'
    <3>1. \A i \in 1 .. Len(finished) : attempt'[finished[i]] = "done"
      BY <2>1, ElementOfSeq DEF FinishedInv, Typed
    <3> QED
      BY <2>1, <2>2, <3>1, SameResults
  <2>4. Typed' /\ LoopInv'
    BY <2>1 DEF Typed, LoopInv, Pending
  <2>5. CountInv'
    <3>1. \A d \in Commits : attempt[d] = "done" => attempt'[d] = "done"
      BY <2>1 DEF Typed
    <3> QED
      BY <2>1, <2>4, <3>1, SameCounts
  <2> QED
    BY <2>3, <2>4, <2>5
<1>3. CASE Grade(c)
  <2>1. /\ UNCHANGED <<alive, pc, names, seen, acting, looked, count, told,
                       deferred, missed>>
        /\ attempt' = [attempt EXCEPT ![c] = "done"]
    BY <1>3 DEF Grade
  <2>2. Typed' /\ LoopInv'
    BY <2>1 DEF Typed, LoopInv, Pending
  <2>3. CountInv'
    <3>1. \A d \in Commits : attempt[d] = "done" => attempt'[d] = "done"
      BY <2>1 DEF Typed
    <3> QED
      BY <2>1, <2>2, <3>1, SameCounts
  <2> QED
    BY <1>3, <2>2, <2>3, GradeFinished
<1> QED
  BY <1>1, <1>2, <1>3

-----------------------------------------------------------------------------
(* Steps of the monitor. *)

\* One result more that is done with is one result more that is counted.
LEMMA OneMoreSeen ==
  ASSUME Typed, NEW c \in Commits, c \notin seen, NEW a \in Agents
  PROVE  Cardinality(Of(a) \cap (seen \cup {c})) =
           Cardinality(Of(a) \cap seen) + (IF Author[c] = a THEN 1 ELSE 0)
<1>1. IsFiniteSet(Of(a) \cap seen) /\ Cardinality(Of(a) \cap seen) \in Nat
  BY FiniteCommits DEF Typed
<1>2. CASE Author[c] = a
  <2>1. Of(a) \cap (seen \cup {c}) = (Of(a) \cap seen) \cup {c}
    BY <1>2 DEF Of
  <2> QED
    BY <1>1, <1>2, <2>1, FS_AddElement
<1>3. CASE Author[c] # a
  <2>1. Of(a) \cap (seen \cup {c}) = Of(a) \cap seen
    BY <1>3 DEF Of
  <2> QED
    BY <1>1, <1>3, <2>1
<1> QED
  BY <1>2, <1>3

LEMMA InitialScanIInv == ASSUME IInv, InitialScan PROVE IInv'
<1> USE DEF IInv
<1>1. /\ pc = "start" /\ pc' = "scan" /\ seen' = Completed(Commits)
      /\ UNCHANGED <<attempt, finished, alive, names, acting, looked>>
  BY DEF InitialScan, fileVars
<1>2. /\ count' = [a \in Agents |-> Cardinality(Of(a) \cap Completed(Commits))]
      /\ missed' = [a \in Agents |->
            (Cardinality(Of(a) \cap Completed(Commits)) \div Every) - told[a]]
      /\ UNCHANGED <<told, deferred>>
  BY RestoreCounts DEF InitialScan
<1>3. ASSUME NEW a \in Agents
      PROVE  /\ count'[a] \in Nat
             /\ Due(a) \in Nat /\ Due(a)' = Due(a) /\ told[a] <= Due(a)
             /\ count'[a] \div Every = Due(a) /\ deferred[a] = 0
             /\ missed'[a] = Due(a) - told[a] /\ told[a] \in Nat
  <2>1. Of(a) \cap Completed(Commits) = Completed(Of(a))
    BY DEF Completed, Of
  <2>2. count'[a] \in Nat
    BY <1>2, FiniteCommits DEF Completed
  <2>3. count'[a] \div Every = Due(a) /\ missed'[a] = Due(a) - told[a]
    BY <1>2, <2>1 DEF Due
  <2>4. Due(a) \in Nat /\ Due(a)' = Due(a)
    BY <1>1, DueBounds DEF Due, Completed, Of
  <2>5. deferred[a] = 0 /\ told[a] \in Nat /\ told[a] + deferred[a] <= Due(a)
    BY <1>1 DEF CountInv, Typed
  <2> QED
    BY <2>2, <2>3, <2>4, <2>5
<1>4. Typed'
  <2>1. count' \in [Agents -> Nat] /\ missed' \in [Agents -> Nat]
    <3>1. \A a \in Agents : Due(a) - told[a] \in Nat
      BY <1>3
    <3> QED
      BY <1>2, <1>3, <3>1
  <2> QED
    BY <1>1, <1>2, <2>1 DEF Typed, Labels, Completed
<1>5. FinishedInv' /\ LoopInv'
  BY <1>1, SameFiles DEF LoopInv
<1>6. ASSUME NEW a \in Agents
      PROVE  /\ told'[a] + deferred'[a] <= Due(a)'
             /\ told'[a] + deferred'[a] + missed'[a] = count'[a] \div Every
  BY <1>2, <1>3
<1>7. CountInv'
  BY <1>1, <1>2, <1>6 DEF CountInv, Completed, Of
<1> QED
  BY <1>4, <1>5, <1>7

LEMMA DeliverIInv == ASSUME IInv, Deliver PROVE IInv'
<1> USE DEF IInv
<1> DEFINE done == Completed(names \ seen)
           c == Oldest(done)
           a == Author[c]
<1>1. c \in done /\ c \in Commits /\ c \notin seen /\ attempt[c] = "done"
      /\ a \in Agents
  <2>1. done # {} /\ done \in SUBSET Completed(Commits)
    BY DEF Deliver, Completed, Typed
  <2>2. c \in done
    BY <2>1, OldestIsOne
  <2> QED
    BY <2>1, <2>2, MonitorAssumption DEF Completed
<1>2. /\ pc = "filter" /\ pc' = "scan" /\ seen' = seen \cup {c}
      /\ UNCHANGED <<attempt, finished, alive, names, acting, looked, missed>>
      /\ count' = [count EXCEPT ![a] = @ + 1] /\ Heartbeat(a)
  BY DEF Deliver, Count, fileVars
<1> HIDE DEF done, c, a
<1>3. Every \in Nat \ {0} /\ count[a] \in Nat /\ count'[a] = count[a] + 1
  BY <1>1, <1>2, MonitorAssumption DEF Typed
<1>4. told' \in [Agents -> Nat] /\ deferred' \in [Agents -> Nat]
  BY <1>1, <1>2 DEF Heartbeat, Typed
<1>5. Typed'
  <2>1. count' \in [Agents -> Nat] /\ seen' \subseteq Commits
    BY <1>1, <1>2, <1>3 DEF Typed
  <2> QED
    BY <1>2, <1>4, <2>1 DEF Typed, Labels
<1>6. FinishedInv' /\ LoopInv'
  BY <1>2, SameFiles DEF LoopInv
<1>7. ASSUME NEW b \in Agents
      PROVE  told'[b] + deferred'[b] + missed'[b] = count'[b] \div Every
  <2>1. told[b] + deferred[b] + missed[b] = count[b] \div Every
    BY <1>2 DEF CountInv
  <2>2. CASE b # a
    BY <1>1, <1>2, <2>1, <2>2 DEF Heartbeat, Typed
  <2>3. CASE b = a
    <3>1. (count[a] + 1) \div Every =
            count[a] \div Every + (IF (count[a] + 1) % Every = 0 THEN 1 ELSE 0)
      BY <1>3, DivNext
    <3>2. /\ told[a] \in Nat /\ deferred[a] \in Nat /\ missed[a] \in Nat
          /\ count[a] \div Every \in Nat
      BY <1>1, <1>3, DivMod DEF Typed
    <3>3. \/ (count[a] + 1) % Every # 0 /\ told'[a] = told[a]
             /\ deferred'[a] = deferred[a]
          \/ (count[a] + 1) % Every = 0 /\ told'[a] = told[a] + 1
             /\ deferred'[a] = deferred[a]
          \/ (count[a] + 1) % Every = 0 /\ told'[a] = told[a]
             /\ deferred'[a] = deferred[a] + 1
      BY <1>1, <1>2, <1>3 DEF Heartbeat, Typed
    <3> HIDE DEF Typed
    <3>4. \A t, d, m, q \in Nat : t + d + m = q =>
            (t + 1) + d + m = q + 1 /\ t + (d + 1) + m = q + 1
      OBVIOUS
    <3>5. told'[a] + deferred'[a] + missed'[a] = count[a] \div Every
            + (IF (count[a] + 1) % Every = 0 THEN 1 ELSE 0)
      BY <1>2, <2>1, <2>3, <3>2, <3>3, <3>4
    <3> QED
      BY <1>3, <2>3, <3>1, <3>5
  <2> QED
    BY <2>2, <2>3
<1>8. CountInv'
  <2>1. \A b \in Agents : count'[b] = Cardinality(Of(b) \cap seen')
    <3> TAKE b \in Agents
    <3>1. Cardinality(Of(b) \cap seen') =
            Cardinality(Of(b) \cap seen) + (IF a = b THEN 1 ELSE 0)
      BY <1>1, <1>2, OneMoreSeen DEF a
    <3>2. count[b] = Cardinality(Of(b) \cap seen) /\ count[b] \in Nat
      BY <1>2 DEF CountInv, Typed
    <3> QED
      BY <1>1, <1>2, <3>1, <3>2 DEF Typed
  <2>2. \A b \in Agents : alive'[b] => deferred'[b] = 0
    BY <1>1, <1>2 DEF Heartbeat, CountInv, Typed
  <2>3. \A d \in seen' : attempt'[d] = "done"
    BY <1>1, <1>2 DEF CountInv
  <2>4. ASSUME NEW b \in Agents PROVE told'[b] + deferred'[b] <= Due(b)'
    <3>1. PICK cs : cs = Of(b) \cap seen'
      OBVIOUS
    <3>2. cs \in SUBSET Completed(Of(b))'
      BY <2>3, <3>1 DEF Completed, Of
    <3>3. /\ Due(b)' \in Nat
          /\ \A ds \in SUBSET Completed(Of(b))' :
                Cardinality(ds) \div Every <= Due(b)'
      BY DueBounds
    <3>4. count'[b] = Cardinality(cs)
      BY <2>1, <3>1
    <3>5. count'[b] \div Every <= Due(b)'
      BY <3>2, <3>3, <3>4
    <3>6. /\ told'[b] \in Nat /\ deferred'[b] \in Nat /\ missed'[b] \in Nat
          /\ count'[b] \div Every \in Nat
      BY <1>5, DivMod, MonitorAssumption DEF Typed
    <3>7. told'[b] + deferred'[b] + missed'[b] = count'[b] \div Every
      BY <1>7
    <3> QED
      BY <3>3, <3>5, <3>6, <3>7
  <2> QED
    BY <1>2, <1>7, <2>1, <2>2, <2>3, <2>4 DEF CountInv, Of
<1> QED
  BY <1>5, <1>6, <1>7, <1>8

LEMMA ActIInv == ASSUME IInv, Act PROVE IInv'
<1> USE DEF IInv
<1>1. /\ pc = "act" /\ pc' = "health" /\ acting \in Agents /\ acting' = NoAgent
      /\ alive' = [alive EXCEPT ![acting] = TRUE]
      /\ told' = [told EXCEPT ![acting] = @ + deferred[acting]]
      /\ deferred' = [deferred EXCEPT ![acting] = 0]
      /\ looked' = {} /\ UNCHANGED <<attempt, finished, names, seen, count, missed>>
  BY DEF Act, fileVars, Typed
<1>2. Typed'
  BY <1>1 DEF Typed, Labels
<1>3. FinishedInv' /\ LoopInv' /\ CountInv'
  <2>1. FinishedInv'
    BY <1>1, SameFiles
  <2>2. LoopInv'
    BY <1>1 DEF LoopInv
  <2>3. \A a \in Agents :
          /\ told'[a] + deferred'[a] = told[a] + deferred[a]
          /\ Due(a)' = Due(a)
    BY <1>1 DEF Typed, Due, Completed, Of
  <2>4. CountInv'
    BY <1>1, <2>3 DEF CountInv, Typed, Of
  <2> QED
    BY <2>1, <2>2, <2>4
<1> QED
  BY <1>2, <1>3

LEMMA OtherSteps ==
  ASSUME IInv,
         \/ GraderGone \/ Scan \/ NothingNew \/ PassEnds \/ GraderDies
         \/ Resume
         \/ \E a \in Agents : LookAfter(a) \/ AgentExits(a)
         \/ UNCHANGED vars
  PROVE  IInv'
<1> USE DEF IInv, fileVars, counterVars, loopVars
<1>1. UNCHANGED <<attempt, finished>>
  BY DEF GraderGone, Scan, NothingNew, PassEnds, GraderDies, Resume, LookAfter,
    AgentExits, vars
<1>2. FinishedInv'
  BY <1>1, SameFiles
<1>3. CASE GraderGone \/ NothingNew \/ PassEnds \/ GraderDies \/ UNCHANGED vars
  <2>1. /\ UNCHANGED <<attempt, alive, names, seen, acting, looked, count, told,
                       deferred, missed>>
        /\ pc' = pc \/ (pc \notin {"start", "stopped"} /\ pc' \in {"health", "scan"})
           \/ pc' = "stopped"
    BY <1>3 DEF GraderGone, NothingNew, PassEnds, GraderDies, vars
  <2>2. Typed' /\ LoopInv'
    BY <2>1 DEF Typed, Labels, LoopInv, Pending
  <2>3. CountInv'
    BY <2>1, <2>2, SameCounts
  <2> QED
    BY <1>2, <2>2, <2>3
<1>4. CASE Scan
  <2>1. /\ UNCHANGED <<attempt, alive, seen, acting, looked, count, told, deferred,
                       missed>>
        /\ pc = "scan" /\ pc' = "filter"
        /\ names' = {c \in Commits : attempt[c] # "none"}
    BY <1>4 DEF Scan
  <2>2. Typed' /\ LoopInv'
    BY <2>1 DEF Typed, Labels, LoopInv
  <2>3. CountInv'
    BY <2>1, <2>2, SameCounts
  <2> QED
    BY <1>2, <2>2, <2>3
<1>5. CASE Resume
  <2>1. /\ UNCHANGED <<attempt, told>> /\ pc' = "start" /\ acting' = NoAgent
        /\ alive' = [a \in Agents |-> TRUE] /\ names' = {} /\ seen' = {}
        /\ looked' = {} /\ count' = [a \in Agents |-> 0]
        /\ deferred' = [a \in Agents |-> 0] /\ missed' = [a \in Agents |-> 0]
    BY <1>5 DEF Resume
  <2>2. Typed' /\ LoopInv'
    BY <2>1 DEF Typed, Labels, LoopInv
  <2>3. ASSUME NEW a \in Agents PROVE told'[a] + deferred'[a] <= Due(a)'
    <3>1. Due(a)' = Due(a) /\ Due(a) \in Nat
      BY <2>1, DueBounds DEF Due, Completed, Of
    <3>2. told[a] \in Nat /\ deferred[a] \in Nat /\ told[a] + deferred[a] <= Due(a)
      BY DEF CountInv, Typed
    <3>3. told'[a] = told[a] /\ deferred'[a] = 0
      BY <2>1
    <3> QED
      BY <3>1, <3>2, <3>3
  <2>4. CountInv'
    BY <2>1, <2>3, Nothing DEF CountInv, Of
  <2> QED
    BY <1>2, <2>2, <2>4
<1>6. ASSUME NEW a \in Agents, LookAfter(a) PROVE IInv'
  <2>1. /\ UNCHANGED <<attempt, alive, names, seen, count, told, deferred, missed>>
        /\ pc = "health"
        /\ \/ /\ Pending(a) = {} /\ acting' = a /\ pc' = "act"
              /\ looked' = OnRecord(a)
           \/ UNCHANGED <<acting, pc, looked>>
    BY <1>6 DEF LookAfter
  <2>2. Typed'
    BY <2>1 DEF Typed, Labels, OnRecord, Of
  <2>3. LoopInv'
    BY <2>1 DEF Typed, LoopInv, OnRecord, Pending, Of
  <2>4. CountInv'
    BY <2>1, <2>2, SameCounts
  <2> QED
    BY <1>2, <2>2, <2>3, <2>4
<1>7. ASSUME NEW a \in Agents, AgentExits(a) PROVE IInv'
  <2>1. /\ UNCHANGED <<attempt, pc, names, seen, acting, looked, count, told,
                       deferred, missed>>
        /\ alive' = [alive EXCEPT ![a] = FALSE]
    BY <1>7 DEF AgentExits
  <2>2. Typed' /\ LoopInv'
    BY <2>1 DEF Typed, LoopInv, Pending
  <2>3. \A b \in Agents : alive'[b] => alive[b]
    BY <2>1 DEF Typed
  <2>4. CountInv'
    BY <2>1, <2>2, <2>3, SameCounts
  <2> QED
    BY <1>2, <2>2, <2>4
<1> QED
  BY <1>3, <1>4, <1>5, <1>6, <1>7

LEMMA NextIInv == IInv /\ [Next]_vars => IInv'
  BY FileSteps, InitialScanIInv, DeliverIInv, ActIInv, OtherSteps
  DEF Next, Monitor

LEMMA Inductive == Spec => []IInv
  BY InitIInv, NextIInv, PTL DEF Spec

-----------------------------------------------------------------------------
(* Best scores and plateaus.  An agent has one evaluation at a time, so its *)
(* results are completed, seen and counted in the order in which it has    *)
(* submitted them.                                                         *)

Sooner(order, d, c) ==
  \A k \in 1 .. Len(order) : order[k] = c => \E m \in 1 .. k - 1 : order[m] = d

\* filed lists the attempts on record, each once.
FiledInv ==
  /\ filed \in [Agents -> Seq(Commits)]
  /\ \A a \in Agents :
       /\ \A i \in 1 .. Len(filed[a]) : filed[a][i] \in OnRecord(a)
       /\ \A i, j \in 1 .. Len(filed[a]) : filed[a][i] = filed[a][j] => i = j
       /\ \A c \in OnRecord(a) : \E i \in 1 .. Len(filed[a]) : filed[a][i] = c

\* Only the last attempt of an agent can be pending; those before it come
\* first everywhere else too.
OrderInv ==
  \A a \in Agents : \A d, c \in Of(a) :
    Before(a, d, c) => /\ attempt[d] = "done"
                       /\ attempt[c] = "done" => Sooner(finished, d, c)
                       /\ c \in seen => d \in seen
                       /\ c \in names => d \in names

States == [best : Scores \cup {NoScore}, plateau : Nat]

Current(a) == [best |-> best[a], plateau |-> plateau[a]]

ScoreInv ==
  /\ score \in [Commits -> Scores \cup {NoScore}]
  /\ \A a \in Agents : Current(a) \in States
  /\ best \in [Agents -> Scores \cup {NoScore}] /\ plateau \in [Agents -> Nat]
  /\ \A a \in Agents : Matches(Current(a), a, Of(a) \cap seen)

HistoryInv == FiledInv /\ OrderInv /\ ScoreInv

\* The order of submission is one.
LEMMA Submissions ==
  ASSUME FiledInv, NEW a \in Agents, NEW c, NEW d
  PROVE  /\ Before(a, d, c) => d \in OnRecord(a) /\ c \in OnRecord(a)
         /\ ~ (Before(a, d, c) /\ Before(a, c, d))
         /\ d \in OnRecord(a) /\ c \in OnRecord(a) =>
              d = c \/ Before(a, d, c) \/ Before(a, c, d)
<1>1. Len(filed[a]) \in Nat
  BY LenProperties DEF FiledInv
<1>2. /\ \A i \in 1 .. Len(filed[a]) : filed[a][i] \in OnRecord(a)
      /\ \A i, j \in 1 .. Len(filed[a]) : filed[a][i] = filed[a][j] => i = j
      /\ \A e \in OnRecord(a) : \E i \in 1 .. Len(filed[a]) : filed[a][i] = e
  BY DEF FiledInv
<1>3. Before(a, d, c) => d \in OnRecord(a) /\ c \in OnRecord(a)
  BY <1>2 DEF Before
<1>4. ~ (Before(a, d, c) /\ Before(a, c, d))
  BY <1>1, <1>2 DEF Before
<1>5. ASSUME d \in OnRecord(a), c \in OnRecord(a), d # c
      PROVE  Before(a, d, c) \/ Before(a, c, d)
  <2>1. PICK i, j \in 1 .. Len(filed[a]) : filed[a][i] = d /\ filed[a][j] = c
    BY <1>2, <1>5
  <2>2. i < j \/ j < i
    BY <1>1, <1>5, <2>1
  <2> QED
    BY <2>1, <2>2 DEF Before
<1> QED
  BY <1>3, <1>4, <1>5

\* One result more, the newest of its agent, changes best score and plateau as
\* After says.
LEMMA OneMoreMatches ==
  ASSUME score \in [Commits -> Scores \cup {NoScore}],
         NEW a \in Agents, NEW cs \in SUBSET Commits, NEW c \in Commits \ cs,
         NEW state \in States, Matches(state, a, cs),
         ~ Before(a, c, c),
         \A d \in cs : Before(a, d, c) /\ ~ Before(a, c, d)
  PROVE  /\ After(state, c) \in States
         /\ Matches(After(state, c), a, cs \cup {c})
<1> DEFINE more == cs \cup {c}
<1>1. /\ \A d \in Commits : score[d] # NoScore => score[d] \in Nat
      /\ Scores \subseteq Nat /\ NoScore \notin Scores /\ Minimize \in BOOLEAN
  BY MonitorAssumption
<1>2. /\ Scored(cs) = {} => state.best = NoScore
      /\ Scored(cs) # {} => \E d \in Leading(cs) : state.best = score[d]
  BY DEF Matches
<1>3. Leading(cs) \subseteq Scored(cs) /\ Scored(cs) \subseteq cs
  BY DEF Leading, Scored
<1>4. state.best # NoScore <=> Scored(cs) # {}
  BY <1>2, <1>3 DEF Scored
<1>5. After(state, c) \in States
  BY <1>1 DEF After, States
<1>6. CASE score[c] # NoScore /\ (state.best = NoScore
           \/ Improves(score[c], state.best))
  <2>1. After(state, c) = [best |-> score[c], plateau |-> 0]
    BY <1>6 DEF After
  <2>2. Scored(more) = Scored(cs) \cup {c}
    BY <1>6 DEF Scored
  <2>3. \A d \in Scored(cs) : Improves(score[c], score[d])
    <3> TAKE d \in Scored(cs)
    <3>1. PICK e \in Leading(cs) : state.best = score[e]
      BY <1>2
    <3>2. ~ Improves(score[d], score[e]) /\ score[e] # NoScore /\ score[d] # NoScore
      BY <3>1 DEF Leading, Scored
    <3>3. Improves(score[c], score[e])
      BY <1>6, <3>1, <3>2
    <3>4. score[c] \in Nat /\ score[d] \in Nat /\ score[e] \in Nat
      BY <1>1, <1>3, <1>6, <3>1, <3>2
    <3> QED
      BY <1>1, <3>2, <3>3, <3>4 DEF Improves
  <2>4. /\ ~ Improves(score[c], score[c])
        /\ \A d \in Scored(cs) : ~ Improves(score[d], score[c])
    <3>1. score[c] \in Nat /\ \A d \in Scored(cs) : score[d] \in Nat
      BY <1>1, <1>6 DEF Scored
    <3> QED
      BY <1>1, <2>3, <3>1 DEF Improves
  <2>5. Leading(more) = {c}
    BY <2>2, <2>3, <2>4 DEF Leading
  <2>6. {e \in more : Scored(more) = {} \/ \E d \in Leading(more) : Before(a, d, e)} = {}
    BY <2>2, <2>5
  <2>7. /\ After(state, c).best = score[c] /\ After(state, c).plateau = 0
        /\ Scored(more) # {} /\ \E d \in Leading(more) : score[c] = score[d]
    BY <2>1, <2>2, <2>5
  <2>8. Matches(After(state, c), a, more)
    BY <2>6, <2>7, FS_EmptySet DEF Matches
  <2> QED
    BY <1>5, <2>8
<1>7. CASE ~ (score[c] # NoScore /\ (state.best = NoScore
           \/ Improves(score[c], state.best)))
  <2> DEFINE past == {e \in cs :
                        Scored(cs) = {} \/ \E d \in Leading(cs) : Before(a, d, e)}
             now == {e \in more :
                       Scored(more) = {} \/ \E d \in Leading(more) : Before(a, d, e)}
  <2>1. After(state, c) = [state EXCEPT !.plateau = @ + 1]
    BY <1>7 DEF After
  <2>2. /\ After(state, c).best = state.best
        /\ After(state, c).plateau = state.plateau + 1
    BY <2>1 DEF States
  <2>3. Scored(more) = {} <=> Scored(cs) = {}
    BY <1>4, <1>7 DEF Scored
  <2>4. /\ Leading(cs) \subseteq Leading(more)
        /\ Leading(more) \subseteq Leading(cs) \cup {c}
    <3>1. CASE score[c] = NoScore
      <4>1. Scored(more) = Scored(cs)
        BY <3>1 DEF Scored
      <4> QED
        BY <4>1 DEF Leading
    <3>2. CASE score[c] # NoScore
      <4>1. state.best # NoScore /\ ~ Improves(score[c], state.best)
        BY <1>7, <3>2
      <4>2. PICK e \in Leading(cs) : state.best = score[e]
        BY <1>2, <1>4, <4>1
      <4>3. Scored(more) = Scored(cs) \cup {c}
        BY <3>2 DEF Scored
      <4>4. ASSUME NEW d \in Leading(cs) PROVE ~ Improves(score[c], score[d])
        <5>1. ~ Improves(score[e], score[d])
          BY <1>3, <4>2 DEF Leading
        <5>2. score[c] \in Nat /\ score[d] \in Nat /\ score[e] \in Nat
          BY <1>1, <1>3, <3>2, <4>2 DEF Scored
        <5> QED
          BY <1>1, <4>1, <4>2, <5>1, <5>2 DEF Improves
      <4> QED
        BY <4>3, <4>4 DEF Leading
    <3> QED
      BY <3>1, <3>2
  <2>5. c \in now
    <3>1. Scored(cs) # {} => \E d \in Leading(cs) : d \in cs
      BY <1>2, <1>3
    <3> QED
      BY <2>3, <2>4, <3>1
  <2>6. \A e \in cs : e \in now <=> e \in past
    BY <2>3, <2>4
  <2>7. now = past \cup {c} /\ c \notin past
    BY <2>5, <2>6
  <2>8. IsFiniteSet(past) /\ Cardinality(past) = state.plateau
    <3>1. past \in SUBSET Commits
      OBVIOUS
    <3> QED
      BY <3>1, FiniteCommits DEF Matches
  <2>9. Cardinality(now) = state.plateau + 1
    <3> HIDE DEF now, past
    <3> QED
      BY <2>7, <2>8, FS_AddElement
  <2>10. Scored(more) # {} => \E d \in Leading(more) : state.best = score[d]
    BY <1>2, <2>3, <2>4
  <2> QED
    BY <1>2, <1>5, <2>2, <2>3, <2>9, <2>10 DEF Matches
<1> QED
  BY <1>6, <1>7

\* Induction: a set that has 0 and with a number the next one has them all.
LEMMA AllNumbers ==
  ASSUME NEW S, 0 \in S, \A n \in Nat : n \in S => n + 1 \in S
  PROVE  Nat \subseteq S
<1> SUFFICES ASSUME Nat \ S # {} PROVE FALSE
  OBVIOUS
<1>1. PICK x \in Nat \ S : \A y \in Nat \ S : ~ (<<y, x>> \in OpToRel(<, Nat))
  BY NatLessThanWellFounded, WFMin
<1>2. \A y \in Nat \ S : ~ (y < x)
  BY <1>1 DEF OpToRel
<1>3. x \in Nat /\ x # 0
  BY <1>1
<1>4. x - 1 \in Nat /\ x = (x - 1) + 1 /\ x - 1 < x
  BY <1>3
<1>5. x - 1 \in S
  BY <1>2, <1>4
<1>6. x \in S
  BY <1>4, <1>5
<1> QED
  BY <1>1, <1>6

\* One attempt of a history.
StateStep(f, order, done, n) ==
  IF n = 0 THEN NoHistory
  ELSE IF order[n] \in done THEN After(f[n - 1], order[n]) ELSE f[n - 1]

\* The loop over a history has a state after each attempt.
LEMMA ReplayStates ==
  ASSUME NEW order, Len(order) \in Nat, NEW done
  PROVE  \E f : /\ f = [n \in 0 .. Len(order) |-> StateStep(f, order, done, n)]
                /\ Replay(order, done) = f[Len(order)]
<1> DEFINE Good(N) == \E f : f = [n \in 0 .. N |-> StateStep(f, order, done, n)]
           T == {N \in Nat : Good(N)}
<1>1. Good(0)
  <2> DEFINE g == [n \in 0 .. 0 |-> NoHistory]
  <2>1. g = [n \in 0 .. 0 |-> StateStep(g, order, done, n)]
    BY DEF StateStep
  <2> QED
    BY <2>1
<1>2. ASSUME NEW N \in Nat, Good(N) PROVE Good(N + 1)
  <2>1. PICK f : f = [n \in 0 .. N |-> StateStep(f, order, done, n)]
    BY <1>2
  <2> DEFINE g == [n \in 0 .. N + 1 |->
                     IF n = N + 1 THEN StateStep(f, order, done, n) ELSE f[n]]
  <2>2. \A n \in 0 .. N + 1 : g[n] = StateStep(g, order, done, n)
    <3> TAKE n \in 0 .. N + 1
    <3>1. n # 0 => n - 1 \in 0 .. N /\ g[n - 1] = f[n - 1]
      OBVIOUS
    <3>2. StateStep(g, order, done, n) = StateStep(f, order, done, n)
      BY <3>1 DEF StateStep
    <3>3. n # N + 1 => f[n] = StateStep(f, order, done, n)
      BY <2>1
    <3> QED
      BY <3>2, <3>3
  <2>3. g = [n \in 0 .. N + 1 |-> StateStep(g, order, done, n)]
    BY <2>2
  <2> HIDE DEF g
  <2> QED
    BY <2>3
<1> HIDE DEF Good
<1>3. 0 \in T /\ \A N \in Nat : N \in T => N + 1 \in T
  BY <1>1, <1>2
<1> HIDE DEF T
<1>4. Nat \subseteq T
  BY <1>3, AllNumbers
<1>5. Good(Len(order))
  BY <1>4 DEF T
<1> DEFINE state == CHOOSE f : f = [n \in 0 .. Len(order) |->
                                 StateStep(f, order, done, n)]
<1>6. state = [n \in 0 .. Len(order) |-> StateStep(state, order, done, n)]
  BY <1>5 DEF Good
<1>7. Replay(order, done) = state[Len(order)]
  BY DEF Replay, StateStep
<1> QED
  BY <1>6, <1>7

\* So a replay of the files arrives at what they say.
LEMMA ReplayMatches ==
  ASSUME FiledInv, score \in [Commits -> Scores \cup {NoScore}],
         NEW a \in Agents, NEW done \in SUBSET Commits,
         Of(a) \cap done \subseteq OnRecord(a)
  PROVE  /\ Replay(filed[a], done) \in States
         /\ Matches(Replay(filed[a], done), a, Of(a) \cap done)
<1> DEFINE h == filed[a]
           N == Len(h)
           Pre(n) == {c \in Of(a) \cap done : \E i \in 1 .. n : h[i] = c}
<1>1. /\ N \in Nat
      /\ \A i \in 1 .. N : h[i] \in Of(a)
      /\ \A i, j \in 1 .. N : h[i] = h[j] => i = j
  BY LenProperties DEF FiledInv, OnRecord
<1>2. PICK f : /\ f = [n \in 0 .. N |-> StateStep(f, h, done, n)]
               /\ Replay(h, done) = f[N]
  BY <1>1, ReplayStates
<1>3. Pre(N) = Of(a) \cap done
  BY DEF FiledInv
<1> DEFINE Good(n) == n \in 0 .. N => f[n] \in States /\ Matches(f[n], a, Pre(n))
           T == {n \in Nat : Good(n)}
<1>4. Good(0)
  <2>1. f[0] = NoHistory
    BY <1>1, <1>2 DEF StateStep
  <2>2. Pre(0) = {}
    OBVIOUS
  <2>3. NoHistory \in States /\ NoHistory.best = NoScore /\ NoHistory.plateau = 0
    BY DEF NoHistory, States
  <2>4. Scored({}) = {} /\ Cardinality({}) = 0
    BY FS_EmptySet DEF Scored
  <2>5. {c \in {} : Scored({}) = {} \/ \E d \in Leading({}) : Before(a, d, c)} = {}
    OBVIOUS
  <2>6. Matches(NoHistory, a, {})
    BY <2>3, <2>4, <2>5 DEF Matches
  <2> QED
    BY <2>1, <2>2, <2>3, <2>6
<1>5. ASSUME NEW n \in Nat, Good(n) PROVE Good(n + 1)
  <2> SUFFICES ASSUME n + 1 \in 0 .. N
               PROVE  f[n + 1] \in States /\ Matches(f[n + 1], a, Pre(n + 1))
    OBVIOUS
  <2> DEFINE c == h[n + 1]
  <2>1. /\ n \in 0 .. N /\ n + 1 \in 1 .. N /\ n + 1 # 0 /\ (n + 1) - 1 = n
        /\ \A i \in 1 .. n + 1 : i \in 1 .. n \/ i = n + 1
        /\ \A i \in 1 .. n : i \in 1 .. n + 1 /\ i \in 1 .. N /\ i < n + 1
    BY <1>1
  <2>2. f[n] \in States /\ Matches(f[n], a, Pre(n))
    BY <1>5, <2>1
  <2>3. f[n + 1] = IF c \in done THEN After(f[n], c) ELSE f[n]
    BY <1>2, <2>1 DEF StateStep
  <2>4. c \in Of(a)
    BY <1>1, <2>1
  <2>5. CASE c \notin done
    <3>1. Pre(n + 1) = Pre(n)
      BY <2>1, <2>5
    <3> QED
      BY <2>2, <2>3, <2>5, <3>1
  <2>6. CASE c \in done
    <3>1. Pre(n + 1) = Pre(n) \cup {c}
      BY <2>1, <2>4, <2>6
    <3>2. c \notin Pre(n)
      BY <1>1, <2>1
    <3>3. ASSUME NEW d \in Pre(n) PROVE Before(a, d, c)
      <4>1. PICK i \in 1 .. n : h[i] = d
        OBVIOUS
      <4> QED
        BY <2>1, <4>1 DEF Before
    <3>4. \A d \in Pre(n) : Before(a, d, c) /\ ~ Before(a, c, d)
      BY <3>3, Submissions
    <3>5. ~ Before(a, c, c)
      BY Submissions
    <3>6. Pre(n) \in SUBSET Commits /\ c \in Commits
      BY <2>4 DEF Of
    <3> HIDE DEF Pre, c
    <3>7. /\ After(f[n], c) \in States
          /\ Matches(After(f[n], c), a, Pre(n) \cup {c})
      BY <2>2, <3>2, <3>4, <3>5, <3>6, OneMoreMatches
    <3> QED
      BY <2>3, <2>6, <3>1, <3>7
  <2> QED
    BY <2>5, <2>6
<1> HIDE DEF Good
<1>6. 0 \in T /\ \A n \in Nat : n \in T => n + 1 \in T
  BY <1>4, <1>5
<1> HIDE DEF T
<1>7. Nat \subseteq T
  BY <1>6, AllNumbers
<1>8. N \in 0 .. N /\ Good(N)
  BY <1>1, <1>7 DEF T
<1> QED
  BY <1>2, <1>3, <1>8 DEF Good

-----------------------------------------------------------------------------
(* Best scores and plateaus over the steps of agents, broker and grader. *)

\* What an admission adds is the last of its agent.
LEMMA AdmitOrder ==
  ASSUME FiledInv, NEW c \in Commits, attempt[c] = "none",
         filed' = [filed EXCEPT ![Author[c]] = Append(@, c)],
         NEW a \in Agents, NEW d \in Commits, NEW e \in Commits
  PROVE  /\ e # c => (Before(a, d, e)' <=> Before(a, d, e))
         /\ Before(a, d, c)' => a = Author[c] /\ d \in OnRecord(a)
<1>1. CASE a # Author[c]
  <2>1. filed'[a] = filed[a]
    BY <1>1 DEF FiledInv
  <2>2. c \notin OnRecord(a)
    BY <1>1 DEF OnRecord, Of
  <2>3. Before(a, d, e)' <=> Before(a, d, e)
    BY <2>1 DEF Before
  <2>4. ~ Before(a, d, c)'
    BY <2>1, <2>2 DEF Before, FiledInv
  <2> QED
    BY <2>3, <2>4
<1>2. CASE a = Author[c]
  <2> DEFINE h == filed[a]
  <2>1. filed'[a] = Append(h, c) /\ h \in Seq(Commits)
    BY <1>2 DEF FiledInv
  <2>2. /\ Len(h) \in Nat /\ Len(filed'[a]) = Len(h) + 1
        /\ \A i \in 1 .. Len(h) : filed'[a][i] = h[i]
        /\ filed'[a][Len(h) + 1] = c
    BY <2>1, AppendProperties, LenProperties
  <2>3. \A i \in 1 .. Len(h) : h[i] \in OnRecord(a) /\ h[i] # c
    BY DEF FiledInv, OnRecord
  <2> HIDE DEF h
  <2>4. e # c => (Before(a, d, e)' <=> Before(a, d, e))
    BY <2>2, <2>3 DEF Before, h
  <2>5. Before(a, d, c)' => d \in OnRecord(a)
    <3> SUFFICES ASSUME Before(a, d, c)' PROVE d \in OnRecord(a)
      OBVIOUS
    <3>1. PICK i, j \in 1 .. Len(filed'[a]) :
            i < j /\ filed'[a][i] = d /\ filed'[a][j] = c
      BY DEF Before
    <3>2. i \in 1 .. Len(h)
      BY <2>2, <3>1
    <3> QED
      BY <2>2, <2>3, <3>1, <3>2
  <2> QED
    BY <1>2, <2>4, <2>5
<1> QED
  BY <1>1, <1>2

LEMMA AdmitFiled ==
  ASSUME FiledInv, Typed, NEW c \in Commits, attempt[c] = "none",
         attempt' = [attempt EXCEPT ![c] = "pending"],
         filed' = [filed EXCEPT ![Author[c]] = Append(@, c)]
  PROVE  FiledInv'
<1>1. ASSUME NEW a \in Agents
      PROVE  /\ filed'[a] \in Seq(Commits)
             /\ \A i \in 1 .. Len(filed'[a]) : filed'[a][i] \in OnRecord(a)'
             /\ \A i, j \in 1 .. Len(filed'[a]) :
                   filed'[a][i] = filed'[a][j] => i = j
             /\ \A e \in OnRecord(a)' : \E i \in 1 .. Len(filed'[a]) : filed'[a][i] = e
  <2>1. CASE a # Author[c]
    <3>1. filed'[a] = filed[a]
      BY <2>1 DEF FiledInv
    <3>2. OnRecord(a)' = OnRecord(a)
      BY <2>1 DEF OnRecord, Of, Typed
    <3> QED
      BY <3>1, <3>2 DEF FiledInv
  <2>2. CASE a = Author[c]
    <3> DEFINE h == filed[a]
    <3>1. filed'[a] = Append(h, c) /\ h \in Seq(Commits)
      BY <2>2 DEF FiledInv
    <3>2. /\ Len(h) \in Nat /\ Len(filed'[a]) = Len(h) + 1
          /\ \A i \in 1 .. Len(h) : filed'[a][i] = h[i]
          /\ filed'[a][Len(h) + 1] = c /\ filed'[a] \in Seq(Commits)
      BY <3>1, AppendProperties, LenProperties
    <3>3. OnRecord(a)' = OnRecord(a) \cup {c} /\ c \notin OnRecord(a)
      BY <2>2 DEF OnRecord, Of, Typed
    <3>4. /\ \A i \in 1 .. Len(h) : h[i] \in OnRecord(a)
          /\ \A i, j \in 1 .. Len(h) : h[i] = h[j] => i = j
          /\ \A e \in OnRecord(a) : \E i \in 1 .. Len(h) : h[i] = e
      BY DEF FiledInv
    <3> HIDE DEF h
    <3>5. \A i \in 1 .. Len(filed'[a]) : i \in 1 .. Len(h) \/ i = Len(h) + 1
      BY <3>2
    <3>6. \A i \in 1 .. Len(h) : i \in 1 .. Len(filed'[a])
      BY <3>2
    <3>7. Len(h) + 1 \in 1 .. Len(filed'[a])
      BY <3>2
    <3>8. \A i \in 1 .. Len(filed'[a]) : filed'[a][i] \in OnRecord(a)'
      BY <3>2, <3>3, <3>4, <3>5
    <3>9. \A i, j \in 1 .. Len(filed'[a]) : filed'[a][i] = filed'[a][j] => i = j
      BY <3>2, <3>3, <3>4, <3>5
    <3>10. \A e \in OnRecord(a)' : \E i \in 1 .. Len(filed'[a]) : filed'[a][i] = e
      BY <3>2, <3>3, <3>4, <3>6, <3>7
    <3> QED
      BY <3>2, <3>8, <3>9, <3>10
  <2> QED
    BY <2>1, <2>2
<1>2. filed' \in [Agents -> Seq(Commits)]
  BY <1>1 DEF FiledInv
<1> QED
  BY <1>1, <1>2 DEF FiledInv

\* Best score and plateau depend on the results counted and their order only.
LEMMA SameMatches ==
  ASSUME NEW a \in Agents, Matches(Current(a), a, Of(a) \cap seen),
         Current(a)' = Current(a), (Of(a) \cap seen)' = Of(a) \cap seen,
         \A c \in Of(a) \cap seen : score'[c] = score[c],
         \A d, c \in Of(a) \cap seen : Before(a, d, c)' <=> Before(a, d, c)
  PROVE  Matches(Current(a), a, Of(a) \cap seen)'
<1> DEFINE past == Of(a) \cap seen
<1>1. past' = past /\ Current(a)' = Current(a)
  OBVIOUS
<1>2. Scored(past)' = Scored(past)
  BY <1>1 DEF Scored
<1>3. Scored(past) \subseteq past
  BY DEF Scored
<1>4. Leading(past)' = Leading(past) /\ Leading(past) \subseteq past
  BY <1>1, <1>2, <1>3 DEF Leading
<1> DEFINE since == {c \in past : \/ Scored(past) = {}
                                 \/ \E d \in Leading(past) : Before(a, d, c)}
<1>5. since' = since
  BY <1>1, <1>2, <1>4
<1>6. \A c \in Leading(past) : score'[c] = score[c]
  BY <1>4
<1>7. /\ IF Scored(past) = {} THEN Current(a).best = NoScore
         ELSE \E c \in Leading(past) : Current(a).best = score[c]
      /\ Current(a).plateau = Cardinality(since)
  BY DEF Matches
<1> HIDE DEF past, since
<1>8. /\ IF Scored(past)' = {} THEN Current(a)'.best = NoScore
         ELSE \E c \in Leading(past)' : Current(a)'.best = score'[c]
      /\ Current(a)'.plateau = Cardinality(since')
  BY <1>1, <1>2, <1>4, <1>5, <1>6, <1>7
<1> QED
  BY <1>8 DEF Matches, past, since

LEMMA SameBefore ==
  ASSUME UNCHANGED filed
  PROVE  \A a, d, c : Before(a, d, c)' <=> Before(a, d, c)
  BY DEF Before

\* New counters that match, over files that stay as they are.
LEMMA NewMatches ==
  ASSUME UNCHANGED <<filed, score>>, NEW a \in Agents, NEW cs, NEW state,
         (Of(a) \cap seen)' = cs, Current(a)' = state, Matches(state, a, cs)
  PROVE  Matches(Current(a), a, Of(a) \cap seen)'
<1>1. /\ \A d, e : Before(a, d, e)' <=> Before(a, d, e)
      /\ score' = score
  BY DEF Before
<1>2. Scored(cs)' = Scored(cs)
  BY <1>1 DEF Scored
<1>3. Leading(cs)' = Leading(cs)
  BY <1>1, <1>2 DEF Leading
<1> DEFINE since == {c \in cs : \/ Scored(cs) = {}
                               \/ \E d \in Leading(cs) : Before(a, d, c)}
<1>4. since' = since
  BY <1>1, <1>2, <1>3
<1>5. /\ IF Scored(cs) = {} THEN state.best = NoScore
         ELSE \E c \in Leading(cs) : state.best = score[c]
      /\ state.plateau = Cardinality(since)
  BY DEF Matches
<1> HIDE DEF since
<1>6. /\ IF Scored(cs)' = {} THEN state.best = NoScore
         ELSE \E c \in Leading(cs)' : state.best = score'[c]
      /\ state.plateau = Cardinality(since')
  BY <1>1, <1>2, <1>3, <1>4, <1>5
<1>7. Matches(state, a, cs)'
  BY <1>6 DEF Matches, since
<1> QED
  BY <1>7 DEF Matches, Scored, Leading

LEMMA SameScores ==
  ASSUME ScoreInv, UNCHANGED <<best, plateau, seen>>,
         score' \in [Commits -> Scores \cup {NoScore}],
         \A a \in Agents : \A c \in Of(a) \cap seen : score'[c] = score[c],
         \A a \in Agents : \A d, c \in Of(a) \cap seen :
           Before(a, d, c)' <=> Before(a, d, c)
  PROVE  ScoreInv'
<1>1. ASSUME NEW a \in Agents
      PROVE  /\ Current(a)' = Current(a)
             /\ Matches(Current(a), a, Of(a) \cap seen)'
  <2>1. Current(a)' = Current(a) /\ (Of(a) \cap seen)' = Of(a) \cap seen
    BY DEF Current, Of
  <2>2. Matches(Current(a), a, Of(a) \cap seen)
    BY DEF ScoreInv
  <2> QED
    BY <2>1, <2>2, SameMatches
<1> QED
  BY <1>1 DEF ScoreInv

LEMMA SameHistory ==
  ASSUME HistoryInv,
         UNCHANGED <<attempt, filed, finished, score, seen, names, best, plateau>>
  PROVE  HistoryInv'
<1> USE DEF HistoryInv
<1>1. FiledInv'
  BY DEF FiledInv, OnRecord, Of
<1>2. OrderInv'
  BY SameBefore DEF OrderInv, Sooner, Of
<1>3. ScoreInv'
  BY SameBefore, SameScores DEF ScoreInv
<1> QED
  BY <1>1, <1>2, <1>3

LEMMA AdmitHistory ==
  ASSUME IInv, HistoryInv, NEW c \in Commits, Admit(c)
  PROVE  HistoryInv'
<1> USE DEF HistoryInv, IInv, counterVars, loopVars
<1>1. UNCHANGED <<score, finished, pc, seen, names, best, plateau>>
  BY DEF Admit
<1>2. CASE UNCHANGED <<attempt, filed>>
  BY <1>1, <1>2, SameHistory
<1>3. CASE ~ UNCHANGED <<attempt, filed>>
  <2>1. /\ Pending(Author[c]) = {} /\ attempt[c] = "none"
        /\ attempt' = [attempt EXCEPT ![c] = "pending"]
        /\ filed' = [filed EXCEPT ![Author[c]] = Append(@, c)]
    BY <1>3 DEF Admit
  <2>2. FiledInv'
    BY <2>1, AdmitFiled
  <2>3. /\ attempt'[c] = "pending" /\ \A e \in Commits : e # c => attempt'[e] = attempt[e]
        /\ c \notin seen /\ c \notin names
    BY <2>1 DEF Typed, CountInv, LoopInv
  <2>4. ASSUME NEW a \in Agents, NEW d \in Of(a), NEW e \in Of(a), Before(a, d, e)'
        PROVE  /\ attempt'[d] = "done"
               /\ attempt'[e] = "done" => Sooner(finished', d, e)
               /\ e \in seen' => d \in seen'
               /\ e \in names' => d \in names'
    <3>1. d \in Commits /\ e \in Commits
      BY DEF Of
    <3>2. CASE e = c
      <4>1. a = Author[c] /\ d \in OnRecord(a)
        BY <2>1, <2>4, <3>1, <3>2, AdmitOrder
      <4>2. attempt[d] = "done"
        BY <2>1, <4>1 DEF OnRecord, Pending, Typed, Of
      <4> QED
        BY <1>1, <2>1, <2>3, <3>1, <3>2, <4>2
    <3>3. CASE e # c
      <4>1. Before(a, d, e)
        BY <2>1, <2>4, <3>1, <3>3, AdmitOrder
      <4>2. /\ attempt[d] = "done"
            /\ attempt[e] = "done" => Sooner(finished, d, e)
            /\ e \in seen => d \in seen
            /\ e \in names => d \in names
        BY <4>1 DEF OrderInv
      <4>3. Sooner(finished, d, e) => Sooner(finished', d, e)
        BY <1>1 DEF Sooner
      <4>4. d # c
        BY <2>1, <4>2
      <4>5. attempt'[d] = "done" /\ attempt'[e] = attempt[e]
        BY <2>3, <3>1, <3>3, <4>2, <4>4
      <4>6. seen' = seen /\ names' = names
        BY <1>1
      <4> QED
        BY <4>2, <4>3, <4>5, <4>6
    <3> QED
      BY <3>2, <3>3
  <2>5. OrderInv'
    BY <2>4 DEF OrderInv, Of
  <2>6. \A a \in Agents : \A d, e \in Of(a) \cap seen :
          Before(a, d, e)' <=> Before(a, d, e)
    BY <2>1, <2>3, AdmitOrder DEF Of
  <2>7. ScoreInv'
    BY <1>1, <2>6, SameScores DEF ScoreInv
  <2> QED
    BY <2>2, <2>5, <2>7
<1> QED
  BY <1>2, <1>3

\* What is completed is the last in the order of completion, and those of its
\* agent before it are there.
LEMMA GradeHistory ==
  ASSUME IInv, HistoryInv, NEW c \in Commits, Grade(c)
  PROVE  HistoryInv'
<1> USE DEF HistoryInv, IInv
<1>1. /\ attempt[c] = "pending" /\ attempt' = [attempt EXCEPT ![c] = "done"]
      /\ finished' = Append(finished, c)
      /\ \E s \in Scores \cup {NoScore} : score' = [score EXCEPT ![c] = s]
      /\ UNCHANGED <<filed, pc, seen, names, best, plateau>>
  BY DEF Grade, counterVars, loopVars
<1>2. /\ c \notin seen /\ attempt'[c] = "done"
      /\ \A e \in Commits : e # c => attempt'[e] = attempt[e] /\ score'[e] = score[e]
      /\ score' \in [Commits -> Scores \cup {NoScore}]
    BY <1>1 DEF Typed, CountInv, ScoreInv
<1>3. FiledInv'
  <2>1. \A a \in Agents : OnRecord(a)' = OnRecord(a)
    BY <1>1 DEF OnRecord, Of, Typed
  <2> QED
    BY <1>1, <2>1 DEF FiledInv
<1>4. /\ Len(finished) \in Nat /\ Len(finished') = Len(finished) + 1
      /\ \A k \in 1 .. Len(finished) : finished'[k] = finished[k] /\ finished[k] # c
      /\ finished'[Len(finished) + 1] = c
  BY <1>1, AppendProperties, LenProperties DEF FinishedInv
<1>5. ASSUME NEW d \in Commits, attempt[d] = "done"
      PROVE  \E m \in 1 .. Len(finished) : finished[m] = d
  <2>1. {d} \in SUBSET Completed(Commits) /\ {d} # {}
    BY <1>5 DEF Completed
  <2>2. HasOldest(finished, {d})
    BY <2>1 DEF FinishedInv
  <2> QED
    BY <2>2 DEF HasOldest, Precedes
<1>6. ASSUME NEW d \in Commits, NEW e \in Commits, attempt[d] = "done",
             attempt[e] = "done" => Sooner(finished, d, e), attempt'[e] = "done"
      PROVE  Sooner(finished', d, e)
  <2>1. CASE e = c
    BY <1>4, <1>5, <1>6, <2>1 DEF Sooner
  <2>2. CASE e # c
    <3>1. Sooner(finished, d, e)
      BY <1>2, <1>6, <2>2
    <3> QED
      BY <1>4, <2>2, <3>1 DEF Sooner
  <2> QED
    BY <2>1, <2>2
<1>7. OrderInv'
  <2>1. ASSUME NEW a \in Agents, NEW d \in Of(a), NEW e \in Of(a), Before(a, d, e)'
        PROVE  /\ attempt'[d] = "done"
               /\ attempt'[e] = "done" => Sooner(finished', d, e)
               /\ e \in seen' => d \in seen'
               /\ e \in names' => d \in names'
    <3>1. d \in Commits /\ e \in Commits /\ Before(a, d, e)
      BY <1>1, <2>1, SameBefore DEF Of
    <3>2. /\ attempt[d] = "done"
          /\ attempt[e] = "done" => Sooner(finished, d, e)
          /\ e \in seen => d \in seen
          /\ e \in names => d \in names
      BY <3>1 DEF OrderInv
    <3>3. attempt'[d] = "done"
      BY <1>2, <3>1, <3>2
    <3>4. attempt'[e] = "done" => Sooner(finished', d, e)
      BY <1>6, <3>1, <3>2
    <3>5. seen' = seen /\ names' = names
      BY <1>1
    <3> QED
      BY <3>2, <3>3, <3>4, <3>5
  <2> QED
    BY <2>1 DEF OrderInv, Of
<1>8. \A a \in Agents : \A e \in Of(a) \cap seen : score'[e] = score[e]
  BY <1>2 DEF Of
<1>9. ScoreInv'
  BY <1>1, <1>2, <1>8, SameBefore, SameScores
<1> QED
  BY <1>3, <1>7, <1>9

-----------------------------------------------------------------------------
(* Best scores and plateaus over the steps of the monitor. *)

\* What a scan or a resumed manager takes up is closed under what was before.
LEMMA LoopHistory ==
  ASSUME IInv, HistoryInv, UNCHANGED <<attempt, filed, finished, score>>,
         \A a \in Agents : \A d, c \in Of(a) :
           Before(a, d, c) => /\ c \in seen' => d \in seen'
                              /\ c \in names' => d \in names'
  PROVE  FiledInv' /\ OrderInv'
<1> USE DEF HistoryInv
<1>1. FiledInv'
  BY DEF FiledInv, OnRecord, Of
<1>2. ASSUME NEW a \in Agents, NEW d \in Of(a), NEW c \in Of(a), Before(a, d, c)'
      PROVE  /\ attempt'[d] = "done"
             /\ attempt'[c] = "done" => Sooner(finished', d, c)
             /\ c \in seen' => d \in seen'
             /\ c \in names' => d \in names'
  <2>1. Before(a, d, c)
    BY <1>2, SameBefore
  <2>2. /\ attempt[d] = "done"
        /\ attempt[c] = "done" => Sooner(finished, d, c)
    BY <2>1 DEF OrderInv
  <2>3. Sooner(finished, d, c) => Sooner(finished', d, c)
    BY DEF Sooner
  <2> QED
    BY <2>1, <2>2, <2>3
<1> QED
  BY <1>1, <1>2 DEF OrderInv, Of

LEMMA ScanHistory ==
  ASSUME IInv, HistoryInv, Scan
  PROVE  HistoryInv'
<1> USE DEF HistoryInv, IInv
<1>1. /\ UNCHANGED <<attempt, filed, finished, score, seen, best, plateau>>
      /\ names' = {c \in Commits : attempt[c] # "none"}
      /\ pc = "scan"
  BY DEF Scan, fileVars, counterVars
<1>2. ASSUME NEW a \in Agents, NEW d \in Of(a), NEW c \in Of(a), Before(a, d, c)
      PROVE  (c \in seen' => d \in seen') /\ (c \in names' => d \in names')
  BY <1>1, <1>2 DEF OrderInv, Of
<1>3. FiledInv' /\ OrderInv'
  BY <1>1, <1>2, LoopHistory
<1>4. ScoreInv'
  BY <1>1, SameBefore, SameScores DEF ScoreInv
<1> QED
  BY <1>3, <1>4

LEMMA NothingSeen ==
  ASSUME NEW a \in Agents, NEW state \in States, state = NoHistory
  PROVE  Matches(state, a, {})
<1>1. Scored({}) = {} /\ Cardinality({}) = 0
  BY FS_EmptySet DEF Scored
<1>2. {c \in {} : Scored({}) = {} \/ \E d \in Leading({}) : Before(a, d, c)} = {}
  OBVIOUS
<1> QED
  BY <1>1, <1>2 DEF Matches, NoHistory

LEMMA ResumeHistory ==
  ASSUME IInv, HistoryInv, Resume
  PROVE  HistoryInv'
<1> USE DEF HistoryInv, IInv
<1>1. /\ UNCHANGED <<attempt, filed, finished, score>>
      /\ seen' = {} /\ names' = {} /\ pc' = "start"
      /\ best' = [a \in Agents |-> NoScore] /\ plateau' = [a \in Agents |-> 0]
  BY DEF Resume
<1>2. FiledInv' /\ OrderInv'
  BY <1>1, LoopHistory
<1>3. ASSUME NEW a \in Agents
      PROVE  Current(a)' \in States /\ Matches(Current(a), a, Of(a) \cap seen)'
  <2>1. Current(a)' = NoHistory /\ NoHistory \in States /\ (Of(a) \cap seen)' = {}
    BY <1>1 DEF Current, States, NoHistory
  <2>2. Matches(NoHistory, a, {})
    BY <2>1, NothingSeen
  <2> QED
    BY <1>1, <2>1, <2>2 DEF Matches, Scored, Leading, Before
<1>4. ScoreInv'
  BY <1>1, <1>3 DEF ScoreInv
<1> QED
  BY <1>2, <1>4

LEMMA InitialScanHistory ==
  ASSUME IInv, HistoryInv, InitialScan
  PROVE  HistoryInv'
<1> USE DEF HistoryInv, IInv
<1> DEFINE done == Completed(Commits)
<1>1. /\ UNCHANGED <<attempt, filed, finished, score, names>>
      /\ seen' = done
      /\ best' = [a \in Agents |-> Replay(filed[a], done).best]
      /\ plateau' = [a \in Agents |-> Replay(filed[a], done).plateau]
  BY DEF InitialScan, Restore, fileVars
<1>2. ASSUME NEW a \in Agents, NEW d \in Of(a), NEW c \in Of(a), Before(a, d, c)
      PROVE  (c \in seen' => d \in seen') /\ (c \in names' => d \in names')
  BY <1>1, <1>2 DEF OrderInv, Of, Completed
<1>3. FiledInv' /\ OrderInv'
  BY <1>1, <1>2, LoopHistory
<1>4. ASSUME NEW a \in Agents
      PROVE  /\ best'[a] \in Scores \cup {NoScore} /\ plateau'[a] \in Nat
             /\ Current(a)' \in States
             /\ Matches(Current(a), a, Of(a) \cap seen)'
  <2>1. done \in SUBSET Commits /\ Of(a) \cap done \subseteq OnRecord(a)
    BY DEF Completed, OnRecord
  <2>2. /\ Replay(filed[a], done) \in States
        /\ Matches(Replay(filed[a], done), a, Of(a) \cap done)
    BY <2>1, ReplayMatches DEF ScoreInv
  <2>3. Current(a)' = Replay(filed[a], done)
    BY <1>1, <2>2 DEF Current, States
  <2>4. best'[a] \in Scores \cup {NoScore} /\ plateau'[a] \in Nat
    BY <1>1, <2>2 DEF States
  <2> HIDE DEF done
  <2>5. Matches(Current(a), a, Of(a) \cap seen)'
    BY <1>1, <2>2, <2>3 DEF Matches, Scored, Leading, Before, Of
  <2> QED
    BY <2>2, <2>3, <2>4, <2>5
<1>5. ScoreInv'
  BY <1>1, <1>4 DEF ScoreInv
<1> QED
  BY <1>3, <1>5

\* The oldest new result is the next of its agent.
LEMMA DeliverHistory ==
  ASSUME IInv, HistoryInv, Deliver
  PROVE  HistoryInv'
<1> USE DEF HistoryInv, IInv
<1> DEFINE done == Completed(names \ seen)
<1>0. PICK c \in Commits :
        /\ c = Oldest(done)
        /\ c \in done /\ c \notin seen /\ c \in names /\ attempt[c] = "done"
        /\ \A d \in done : Precedes(finished, c, d)
  <2>1. done # {} /\ done \in SUBSET Completed(Commits)
    BY DEF Deliver, Completed, Typed
  <2>2. /\ Oldest(done) \in done
        /\ \A d \in done : Precedes(finished, Oldest(done), d)
    BY <2>1, OldestIsOne
  <2> QED
    BY <2>1, <2>2 DEF Completed
<1>1. PICK b \in Agents : b = Author[c] /\ c \in Of(b)
  BY MonitorAssumption DEF Of
<1> DEFINE past == Of(b) \cap seen
<1> DEFINE now == After(Current(b), c)
<1>2. /\ UNCHANGED <<attempt, filed, finished, score, names>>
      /\ pc # "start" /\ seen' = seen \cup {c}
      /\ best' = [best EXCEPT ![b] = now.best]
      /\ plateau' = [plateau EXCEPT ![b] = now.plateau]
  BY <1>0, <1>1 DEF Deliver, Count, fileVars, Current
<1> HIDE DEF done
<1>3. ASSUME NEW d \in Of(b), Before(b, d, c)
      PROVE  d \in seen
  <2> SUFFICES ASSUME d \notin seen PROVE FALSE
    OBVIOUS
  <2>1. /\ attempt[d] = "done" /\ Sooner(finished, d, c)
        /\ d \in names
    BY <1>0, <1>1, <1>3 DEF OrderInv
  <2>2. d \in done
    BY <2>1 DEF done, Completed
  <2>3. PICK i \in 1 .. Len(finished) :
          finished[i] = c /\ \A j \in 1 .. i - 1 : finished[j] # d
    BY <1>0, <1>1, <2>2 DEF Precedes
  <2> QED
    BY <2>1, <2>3 DEF Sooner
<1>4. ASSUME NEW a \in Agents, NEW d \in Of(a), NEW e \in Of(a), Before(a, d, e)
      PROVE  (e \in seen' => d \in seen') /\ (e \in names' => d \in names')
  <2>1. (e \in seen => d \in seen) /\ (e \in names => d \in names)
    BY <1>4 DEF OrderInv
  <2>2. e = c => a = b
    BY <1>0, <1>1, <1>4 DEF Of
  <2>3. e = c => d \in seen
    BY <1>3, <1>4, <2>2
  <2> QED
    BY <1>2, <2>1, <2>3
<1>5. FiledInv' /\ OrderInv'
  BY <1>2, <1>4, LoopHistory
<1>6. /\ now \in States
      /\ Matches(now, b, past \cup {c})
  <2>1. past \in SUBSET Commits /\ c \in Commits \ past
    BY <1>0, <1>1 DEF Of
  <2>2. Current(b) \in States /\ Matches(Current(b), b, past)
    BY <1>0, <1>1, <1>2 DEF ScoreInv
  <2>3. ~ Before(b, c, c)
    BY <1>0, <1>1, Submissions
  <2>4. ASSUME NEW d \in past PROVE Before(b, d, c) /\ ~ Before(b, c, d)
    <3>1. d \in OnRecord(b) /\ c \in OnRecord(b) /\ d # c
      BY <1>0, <1>1, <2>4 DEF OnRecord, CountInv
    <3>2. ~ Before(b, c, d)
      BY <1>0, <1>1, <2>4 DEF OrderInv
    <3> QED
      BY <1>0, <1>1, <3>1, <3>2, Submissions
  <2> HIDE DEF past
  <2> QED
    BY <1>0, <1>1, <2>1, <2>2, <2>3, <2>4, OneMoreMatches DEF ScoreInv
<1> HIDE DEF now
<1>7. Current(b)' = now
  BY <1>0, <1>1, <1>2, <1>6 DEF Current, ScoreInv, States
<1>8. ASSUME NEW a \in Agents
      PROVE  Current(a)' \in States /\ Matches(Current(a), a, Of(a) \cap seen)'
  <2>1. CASE a = b
    <3>1. (Of(b) \cap seen)' = past \cup {c}
      BY <1>0, <1>1, <1>2 DEF Of
    <3> HIDE DEF past
    <3>2. PICK cs, state : cs = past \cup {c} /\ state = now
      OBVIOUS
    <3>3. Matches(Current(b), b, Of(b) \cap seen)'
      BY <1>2, <1>6, <1>7, <3>1, <3>2, NewMatches
    <3> QED
      BY <1>6, <1>7, <2>1, <3>3
  <2>2. CASE a # b
    <3>1. Current(a)' = Current(a)
      BY <1>0, <1>1, <1>2, <2>2 DEF Current, ScoreInv
    <3>2. (Of(a) \cap seen)' = Of(a) \cap seen
      BY <1>0, <1>1, <1>2, <2>2 DEF Of
    <3>3. Current(a) \in States /\ Matches(Current(a), a, Of(a) \cap seen)
      BY <1>2 DEF ScoreInv
    <3>4. Matches(Current(a), a, Of(a) \cap seen)'
      BY <1>2, <3>1, <3>2, <3>3, SameBefore, SameMatches
    <3> QED
      BY <3>1, <3>3, <3>4
  <2> QED
    BY <2>1, <2>2
<1>9. best' \in [Agents -> Scores \cup {NoScore}] /\ plateau' \in [Agents -> Nat]
  BY <1>0, <1>1, <1>2, <1>6 DEF ScoreInv, States
<1>10. ScoreInv'
  BY <1>2, <1>8, <1>9 DEF ScoreInv
<1> QED
  BY <1>5, <1>10

LEMMA InitHistory == Init => HistoryInv
<1> SUFFICES ASSUME Init PROVE HistoryInv
  OBVIOUS
<1>1. /\ filed = [a \in Agents |-> <<>>] /\ attempt = [c \in Commits |-> "none"]
      /\ score = [c \in Commits |-> NoScore] /\ pc = "start"
      /\ best = [a \in Agents |-> NoScore] /\ plateau = [a \in Agents |-> 0]
  BY DEF Init
<1>2. <<>> \in Seq(Commits) /\ Len(<<>>) = 0
  BY EmptySeq
<1>3. FiledInv
  BY <1>1, <1>2 DEF FiledInv, OnRecord, Of
<1>4. OrderInv
  BY <1>1, <1>2 DEF OrderInv, Before
<1>5. ASSUME NEW a \in Agents
      PROVE  Current(a) \in States /\ Matches(Current(a), a, Of(a) \cap seen)
  <2>1. Current(a) = NoHistory /\ NoHistory \in States /\ Of(a) \cap seen = {}
    BY DEF Init, Current, States, NoHistory
  <2> QED
    BY <2>1, NothingSeen
<1>6. ScoreInv
  BY <1>1, <1>5 DEF ScoreInv
<1> QED
  BY <1>3, <1>4, <1>6 DEF HistoryInv

LEMMA NextHistory ==
  ASSUME IInv, HistoryInv, [Next]_vars
  PROVE  HistoryInv'
<1> USE DEF fileVars, counterVars, loopVars, IInv
<1>1. ASSUME NEW c \in Commits, Submit(c) PROVE HistoryInv'
  BY <1>1, SameHistory DEF Submit
<1>2. ASSUME NEW a \in Agents, AgentExits(a) \/ LookAfter(a) PROVE HistoryInv'
  <2>1. UNCHANGED <<attempt, filed, finished, score, seen, names, best, plateau>>
    BY <1>2 DEF AgentExits, LookAfter
  <2> QED
    BY <2>1, SameHistory
<1>3. CASE \/ GraderDies \/ GraderGone \/ NothingNew \/ Act \/ PassEnds
           \/ UNCHANGED vars
  <2>1. UNCHANGED <<attempt, filed, finished, score, seen, names, best, plateau>>
    BY <1>3 DEF GraderDies, GraderGone, NothingNew, Act, PassEnds, vars
  <2> QED
    BY <2>1, SameHistory
<1> QED
  BY <1>1, <1>2, <1>3, AdmitHistory, GradeHistory, ScanHistory, ResumeHistory,
    InitialScanHistory, DeliverHistory DEF Next, Monitor

LEMMA HistoryKept == Spec => []HistoryInv
<1>1. IInv /\ HistoryInv /\ [Next]_vars => HistoryInv'
  BY NextHistory
<1> QED
  BY <1>1, InitHistory, Inductive, PTL DEF Spec

-----------------------------------------------------------------------------
(* The results. *)

\* While a manager runs no heartbeat that is due is dropped:
\* PendingAwareHeartbeat (scheduling.py 162-186) keeps it while the agent has
\* no session, and restart hands it over (90-98).  And over any number of
\* resumed managers, which restore counters (112-127) and keep nothing that was
\* deferred, none is given twice.
THEOREM HeartbeatsReachAgents == Spec => []HeartbeatsKept
<1>1. IInv => HeartbeatsKept
  BY DEF IInv, CountInv, HeartbeatsKept, Due
<1> QED
  BY <1>1, Inductive, PTL

\* The counter, the best score and the plateau of an agent are those of the
\* results that the loop is done with, in the order of their submission: for a
\* manager that replays the files (scheduling.py 112-127), for one that has
\* counted results one at a time (132-140), and over any order of completion.
THEOREM CountersAreHistory == Spec => []CountersMatchHistory
<1>1. IInv /\ HistoryInv => CountersMatchHistory
  BY DEF IInv, CountInv, HistoryInv, ScoreInv, Current, CountersMatchHistory,
         Completed
<1> QED
  BY <1>1, Inductive, HistoryKept, PTL

\* A restart or an interrupt for silence (restart and interrupt, scheduling.py
\* 76-101) does not come over an evaluation that was on record as the files
\* were looked at and is still pending, whatever is requested, admitted and
\* graded between the look and the start.
THEOREM RestartsWaitForPending == Spec => NoRestartOverPending
<1>1. IInv /\ [Next]_vars =>
        [\A a \in Agents : Act /\ acting = a => Pending(a) \cap looked = {}]_vars
  BY DEF IInv, LoopInv, Act
<1> QED
  BY <1>1, Inductive, PTL DEF Spec, NoRestartOverPending

=============================================================================
