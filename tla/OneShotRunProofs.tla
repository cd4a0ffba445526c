-------------------------- MODULE OneShotRunProofs --------------------------
(***************************************************************************)
(* Proofs about the one-shot evaluation of a model on a paper, for any     *)
(* large instances, instance lists, modes and budgets, and any number of   *)
(* invocations, each killed anywhere.  The inductive invariant has three   *)
(* parts: types, what an invocation may touch (nothing but its live        *)
(* instances), and what is known at each place of its flow: whether the    *)
(* gate has passed and which results are in.                               *)
(*                                                                         *)
(* The second half is about the CSV file that the invocations share, which *)
(* OneShotRun takes for a table whose rows are written in one step: module *)
(* ResultsCsv has it as its threads read, truncate and rewrite it under    *)
(* two locks.                                                              *)
(***************************************************************************)
EXTENDS OneShotRun, ResultsCsv, FiniteSetTheorems, TLAPS

-----------------------------------------------------------------------------
(* The flow of an invocation. *)

Places == {"idle", "generate", "judge", "phase0", "phase1", "others",
           "phase2", "rerun", "flush"}

RowValues == [res : Results \cup {None}, first : Results \cup {None}]

\* Types, the function spaces included.
Typed ==
  /\ code \in BOOLEAN
  /\ attempts \subseteq Nat /\ IsFiniteSet(attempts)
  /\ rows \in [Instances -> RowValues]
  /\ result \in [Instances -> Results \cup {None}]
  /\ first \in [Instances -> Results \cup {None}]
  /\ pc \in Places /\ asked \subseteq Instances /\ gate \in Instances
  /\ before \subseteq Instances /\ rewrites \in BOOLEAN
  /\ dbgLeft \in 0 .. MaxDebug /\ corLeft \in 0 .. MaxCorrect
  /\ dbg \in Nat /\ cor \in Nat

\* What the CSV has frozen is left alone by all that the invocation does.
Setup ==
  /\ frozen \subseteq asked
  /\ todo \subseteq Live /\ unsaved \subseteq Live /\ ran \subseteq Live
  /\ pc # "idle" =>
       /\ gate \in asked
       /\ mode = "incomplete" => before \cap asked \subseteq frozen
       /\ \A i \in frozen : rows[i] # NoRow
  /\ \A i \in Instances : rows[i] # NoRow => rows[i].res # None

\* Before the gate is decided, after it has passed, once it has a result, and
\* once all live instances have one.
GateAhead ==
  \/ pc \in {"generate", "judge", "phase0", "phase1"}
  \/ pc = "rerun" /\ back # "phase2"
GateBehind ==
  \/ pc \in {"others", "phase2"}
  \/ pc = "rerun" /\ back = "phase2"
Judged == pc \in {"phase0", "phase1", "rerun", "others", "phase2"}
AllRun == pc = "phase2" \/ (pc = "rerun" /\ back = "phase2")
          \/ (pc = "flush" /\ opened)

\* What is known where: nothing has run before the gate is judged; the gate is
\* either settled by its row, and then it has passed, or has a result of this
\* invocation; and only results that exist are written.
Stages ==
  /\ pc = "rerun" => back \in {"phase0", "phase1", "phase2"}
  /\ pc \in {"generate", "judge"} => ran = {}
  /\ GateAhead => ~ opened
  /\ GateBehind => opened = TRUE
  /\ Judged => IF gate \in frozen THEN result[gate] = "pass"
               ELSE result[gate] \in Outcomes
  /\ AllRun => \A i \in Live : result[i] \in Outcomes
  /\ pc = "flush" => \A i \in unsaved : result[i] # None

IInv == Typed /\ Setup /\ Stages

LEMMA Strings ==
  /\ Outcomes \subseteq Results /\ None \notin Results
  /\ "gate_fail" \notin Outcomes /\ "gate_fail" \in Results
  /\ "crash" \in Outcomes /\ "pass" \in Outcomes
BY DEF Outcomes, Results, None

LEMMA Bounds ==
  /\ MaxDebug \in Nat /\ MaxCorrect \in Nat
  /\ \A m, n \in Nat : m + n \in Nat
  /\ \A n \in Nat : /\ Fewer(MaxDebug, n) \in 0 .. MaxDebug
                     /\ Fewer(MaxCorrect, n) \in 0 .. MaxCorrect
  /\ Tiny \in Instances /\ FirstLarge \in Instances
  /\ Requests \subseteq SUBSET Instances
BY OneShotAssumption DEF Fewer, Instances

\* The types.
LEMMA InitTyped == Init => Typed
<1> SUFFICES ASSUME Init PROVE Typed
  OBVIOUS
<1>1. IsFiniteSet(attempts) /\ attempts \subseteq Nat
  BY FS_EmptySet DEF Init
<1>2. rows \in [Instances -> RowValues]
  BY DEF Init, NoRow, RowValues
<1>3. /\ result \in [Instances -> Results \cup {None}]
      /\ first \in [Instances -> Results \cup {None}]
  BY DEF Init, Blank
<1>4. /\ dbgLeft \in 0 .. MaxDebug /\ corLeft \in 0 .. MaxCorrect
      /\ dbg \in Nat /\ cor \in Nat
  BY Bounds DEF Init
<1> QED
  BY <1>1, <1>2, <1>3, <1>4, Bounds DEF Init, Typed, Places

LEMMA StartTyped == Typed /\ Start => Typed'
<1> SUFFICES ASSUME Typed, Start PROVE Typed'
  OBVIOUS
<1> USE Bounds DEF Typed
<1>1. UNCHANGED <<code, attempts, rows>>
  BY DEF Start, disk
<1>2. Historical \in Nat
  BY FS_CardinalityType DEF Historical, Fewer
<1>3. /\ asked' \subseteq Instances /\ gate' \in Instances
      /\ dbg' \in Nat /\ cor' \in Nat /\ pc' \in Places
  BY <1>2 DEF Start, Recorded, Places
<1>4. dbgLeft' \in 0 .. MaxDebug /\ corLeft' \in 0 .. MaxCorrect
  BY <1>3 DEF Start
<1>5. before' \subseteq Instances /\ rewrites' \in BOOLEAN
  BY DEF Start, Recorded
<1>6. /\ result' \in [Instances -> Results \cup {None}]
      /\ first' \in [Instances -> Results \cup {None}]
  BY DEF Start, Blank
<1> QED
  BY <1>1, <1>3, <1>4, <1>5, <1>6

\* A model call spends from a budget that has something left.
LEMMA CorrectionTyped ==
  ASSUME Typed, NEW S, SpendDebug \/ SpendCorrection, Correction(S),
         pc # "rerun"
  PROVE  Typed'
<1> USE Bounds DEF Typed
<1>1. /\ dbgLeft' \in 0 .. MaxDebug /\ corLeft' \in 0 .. MaxCorrect
      /\ dbg' \in Nat /\ cor' \in Nat
  BY DEF SpendDebug, SpendCorrection
<1>2. attempts' \subseteq Nat /\ IsFiniteSet(attempts')
  <2>1. \/ attempts' = attempts \cup {dbg' + cor'}
        \/ attempts' = attempts
    BY DEF Correction
  <2>2. dbg' + cor' \in Nat
    BY <1>1
  <2> QED
    <3>1. IsFiniteSet(attempts \cup {dbg' + cor'})
      BY FS_AddElement
    <3> QED
      BY <2>1, <2>2, <3>1
<1>3. pc' \in Places
  BY DEF Correction, Places
<1> QED
  BY <1>1, <1>2, <1>3 DEF Correction, setup

LEMMA FirstTyped ==
  ASSUME Typed, NEW i \in Instances, NEW r \in Results \cup {None}
  PROVE  FirstOf(i, r) \in Results \cup {None}
BY DEF FirstOf, Typed, RowValues

LEMMA StepTyped == IInv /\ Step => Typed'
<1> SUFFICES ASSUME Typed, Setup, Stages, Step PROVE Typed'
  BY DEF IInv
<1> USE Bounds, Strings DEF Typed, disk, setup, work, history
<1>1. CASE Generate
  <2>1. attempts' \subseteq Nat /\ IsFiniteSet(attempts')
    BY <1>1, FS_AddElement DEF Generate
  <2> QED
    BY <1>1, <2>1 DEF Generate, Places
<1>2. CASE GenerateFails
  BY <1>2 DEF GenerateFails, Places
<1>3. CASE PreJudge
  <2>1. \A i \in Instances : FrozenResults[i] \in Results \cup {None}
    BY DEF FrozenResults, RowValues
  <2> QED
    BY <1>3, <2>1 DEF PreJudge, Places
<1>4. CASE RunGate
  <2>1. \A i \in Instances : FrozenResults[i] \in Results \cup {None}
    BY DEF FrozenResults, RowValues
  <2>2. PICK out \in [FirstRuns -> Outcomes] :
          /\ result' = [i \in Instances |->
                          IF i \in FirstRuns THEN out[i] ELSE FrozenResults[i]]
          /\ first' = [i \in Instances |->
                         IF i \in FirstRuns THEN FirstOf(i, out[i]) ELSE None]
    BY <1>4 DEF RunGate
  <2>3. \A i \in FirstRuns : /\ out[i] \in Results
                             /\ i \in Instances
                             /\ FirstOf(i, out[i]) \in Results \cup {None}
    BY <2>2, FirstTyped DEF FirstRuns
  <2>4. /\ result' \in [Instances -> Results \cup {None}]
        /\ first' \in [Instances -> Results \cup {None}]
    BY <2>1, <2>2, <2>3
  <2> QED
    BY <1>4, <2>4 DEF RunGate, Places
<1>5. CASE Rerun
  <2>1. pc' \in Places
    BY <1>5 DEF Rerun, Stages, Places
  <2>2. PICK out \in [todo -> Outcomes] :
          result' = [i \in Instances |->
                       IF i \in todo THEN out[i] ELSE result[i]]
    BY <1>5 DEF Rerun
  <2>3. result' \in [Instances -> Results \cup {None}]
    BY <2>2
  <2> QED
    BY <1>5, <2>1, <2>3 DEF Rerun
<1>6. CASE Phase0Debug \/ Phase1Correct \/ Phase2Debug \/ Phase2Correct
  BY <1>6, CorrectionTyped
  DEF Phase0Debug, Phase1Correct, Phase2Debug, Phase2Correct
<1>7. CASE Phase0Ends
  BY <1>7 DEF Phase0Ends, Places
<1>8. CASE GateFails
  BY <1>8 DEF GateFails, Places
<1>9. CASE GatePasses
  BY <1>9 DEF GatePasses, SaveRow, RowValues, Places
<1>10. CASE RunOthers
  <2>1. PICK out \in [Others -> Outcomes] :
          /\ result' = [i \in Instances |->
                          IF i \in Others THEN out[i] ELSE result[i]]
          /\ first' = [i \in Instances |->
                         IF i \in Others THEN FirstOf(i, out[i]) ELSE first[i]]
    BY <1>10 DEF RunOthers
  <2>2. \A i \in Others : /\ out[i] \in Results
                          /\ i \in Instances
                          /\ FirstOf(i, out[i]) \in Results \cup {None}
    BY <2>1, FirstTyped DEF Others, Live
  <2>3. /\ result' \in [Instances -> Results \cup {None}]
        /\ first' \in [Instances -> Results \cup {None}]
    BY <2>1, <2>2
  <2> QED
    BY <1>10, <2>3 DEF RunOthers, Places
<1>11. CASE Phase2Ends
  BY <1>11 DEF Phase2Ends, Places
<1>12. CASE Flush
  <2>1. PICK i \in Instances : SaveRow(i)
    BY <1>12 DEF Flush, Setup, Live
  <2>2. rows' \in [Instances -> RowValues]
    BY <2>1 DEF SaveRow, RowValues
  <2> QED
    BY <1>12, <2>2 DEF Flush
<1>13. CASE Finish
  BY <1>13 DEF Finish, Places
<1> QED
  BY <1>1, <1>2, <1>3, <1>4, <1>5, <1>6, <1>7, <1>8, <1>9, <1>10, <1>11,
     <1>12, <1>13 DEF Step

\* A new invocation freezes rows that exist only, and in the mode "incomplete"
\* all that it is asked for.
LEMMA StartSetup == IInv /\ Start => Setup' /\ Stages'
<1> SUFFICES ASSUME Typed, Setup, Stages, Start PROVE Setup' /\ Stages'
  BY DEF IInv
<1> USE Bounds
<1>1. /\ UNCHANGED <<code, attempts, rows>>
      /\ pc' \in {"judge", "generate"} /\ todo' = {} /\ unsaved' = {}
      /\ ran' = {} /\ opened' = FALSE /\ before' = Recorded
  BY DEF Start, disk
<1>2. PICK m \in Modes, R \in Requests :
        /\ asked' = R \cup (Recorded \cap {Tiny})
        /\ gate' = IF Tiny \in asked' THEN Tiny ELSE FirstLarge
        /\ frozen' = FrozenRows(m, R)
        /\ mode' = m \/ mode' = "none"
  BY DEF Start
<1>3. FirstLarge \in R
  BY OneShotAssumption
<1>4. /\ frozen' \subseteq asked' /\ frozen' \subseteq Recorded
      /\ m = "incomplete" => Recorded \cap asked' \subseteq frozen'
  BY <1>2 DEF FrozenRows
<1>5. gate' \in asked'
  BY <1>2, <1>3
<1>6. Setup'
  BY <1>1, <1>2, <1>4, <1>5 DEF Setup, Live, Recorded
<1>7. Stages'
  BY <1>1 DEF Stages, GateAhead, GateBehind, Judged, AllRun
<1> QED
  BY <1>6, <1>7

\* What is live is fixed at the start, and only live instances are run, put on
\* the list of rows to write, or written.
LEMMA StepSetup == IInv /\ Step => Setup'
<1> SUFFICES ASSUME Typed, Setup, Stages, Step PROVE Setup'
  BY DEF IInv
<1> USE DEF disk, setup, work, history
<1>1. Live' = Live /\ UNCHANGED <<mode, asked, gate, frozen, before>>
  BY DEF Step, Generate, GenerateFails, PreJudge, RunGate, Rerun,
         Phase0Debug, Phase0Ends, Phase1Correct, GateFails, GatePasses,
         RunOthers, Phase2Debug, Phase2Correct, Phase2Ends, Flush, Finish,
         Correction, Live
<1>2. /\ todo' \subseteq Live /\ unsaved' \subseteq Live /\ ran' \subseteq Live
  <2>1. CASE Phase0Debug \/ Phase1Correct \/ Phase2Debug \/ Phase2Correct
    <3>1. pc # "idle"
      BY <2>1 DEF Phase0Debug, Phase1Correct, Phase2Debug, Phase2Correct
    <3>2. \E S \in SUBSET Live : Correction(S)
      <4>1. CASE Phase0Debug
        <5>1. gate \in Live
          BY <3>1, <4>1 DEF Phase0Debug, Failing, Setup, Live
        <5> QED
          BY <4>1, <5>1 DEF Phase0Debug
      <4>2. CASE Phase1Correct
        <5>1. gate \in Live
          BY <3>1, <4>2 DEF Phase1Correct, GateCanBeCorrected, Setup, Live
        <5> QED
          BY <4>2, <5>1 DEF Phase1Correct
      <4>3. CASE Phase2Debug
        BY <4>3 DEF Phase2Debug, Failing
      <4>4. CASE Phase2Correct
        BY <4>4 DEF Phase2Correct
      <4> QED
        BY <2>1, <4>1, <4>2, <4>3, <4>4
    <3> QED
      BY <3>2 DEF Correction, Setup
  <2>2. CASE RunGate
    BY <2>2 DEF RunGate, FirstRuns, Setup, Live
  <2>3. CASE RunOthers
    BY <2>3 DEF RunOthers, Others, Setup
  <2>4. CASE Flush
    BY <2>4 DEF Flush, Setup
  <2> QED
    BY <2>1, <2>2, <2>3, <2>4
    DEF Step, Generate, GenerateFails, PreJudge, Rerun, Phase0Ends,
        GateFails, GatePasses, Phase2Ends, Finish, Setup
<1>3. \A i \in Instances :
        \/ rows'[i] = rows[i]
        \/ /\ i \in Live /\ rows'[i] = [res |-> result[i], first |-> first[i]]
           /\ result[i] # None
  <2>1. CASE GatePasses
    <3>1. result[gate] = "pass" /\ gate \in asked
      BY <2>1 DEF GatePasses, GateOpen, GatePassed, Setup
    <3> QED
      BY <2>1, <3>1 DEF GatePasses, SaveRow, Typed, None, Live
  <2>2. CASE Flush
    <3>1. PICK i \in unsaved : SaveRow(i)
      BY <2>2 DEF Flush
    <3>2. i \in Live /\ result[i] # None
      BY <2>2, <3>1 DEF Flush, Setup, Stages
    <3> QED
      BY <3>1, <3>2 DEF SaveRow, Typed
  <2>3. rows' = rows \/ GatePasses \/ Flush
    BY DEF Step, Generate, GenerateFails, PreJudge, RunGate, Rerun,
         Phase0Debug, Phase0Ends, Phase1Correct, GateFails,
         RunOthers, Phase2Debug, Phase2Correct, Phase2Ends, Finish,
         Correction
  <2> QED
    BY <2>1, <2>2, <2>3
<1>4. \A i \in Instances : rows'[i] # NoRow => rows'[i].res # None
  <2> SUFFICES ASSUME NEW i \in Instances, rows'[i] # NoRow
               PROVE  rows'[i].res # None
    OBVIOUS
  <2>1. CASE rows'[i] = rows[i]
    BY <2>1 DEF Setup
  <2>2. CASE /\ rows'[i] = [res |-> result[i], first |-> first[i]]
             /\ result[i] # None
    BY <2>2
  <2> QED
    BY <1>3, <2>1, <2>2
<1>5. pc' # "idle" => pc # "idle"
  BY DEF Step, Generate, GenerateFails, PreJudge, RunGate, Rerun,
         Phase0Debug, Phase0Ends, Phase1Correct, GateFails, GatePasses,
         RunOthers, Phase2Debug, Phase2Correct, Phase2Ends, Flush, Finish,
         Correction
<1>6. \A i \in frozen : rows'[i] = rows[i]
  BY <1>3 DEF Live, Setup, Typed
<1> QED
  BY <1>1, <1>2, <1>4, <1>5, <1>6 DEF Setup

LEMMA StepStages == IInv /\ Step => Stages'
<1> SUFFICES ASSUME Typed, Setup, Stages, Step PROVE Stages'
  BY DEF IInv
<1> USE Strings DEF disk, setup, work, history
<1>0. gate \in Instances /\ Live \subseteq Instances
      /\ (pc # "idle" => (gate \in Live <=> gate \notin frozen))
  BY DEF Typed, Live, Setup
<1>1. CASE Generate
  BY <1>1 DEF Generate, Stages, GateAhead, GateBehind, Judged, AllRun
<1>2. CASE GenerateFails
  <2>1. \A i \in Instances : result'[i] = "crash"
    BY <1>2 DEF GenerateFails
  <2> QED
    BY <1>0, <1>2, <2>1
    DEF GenerateFails, Stages, GateAhead, GateBehind, Judged, AllRun, Live
<1>3. CASE PreJudge
  <2>1. \A i \in Live : result'[i] = "gate_fail"
    BY <1>0, <1>3 DEF PreJudge
  <2> QED
    BY <1>3, <2>1
    DEF PreJudge, Stages, GateAhead, GateBehind, Judged, AllRun
<1>4. CASE RunGate
  <2>1. PICK out \in [FirstRuns -> Outcomes] :
          result' = [i \in Instances |->
                       IF i \in FirstRuns THEN out[i] ELSE FrozenResults[i]]
    BY <1>4 DEF RunGate
  <2>2. IF gate \in frozen THEN result'[gate] = "pass"
        ELSE result'[gate] \in Outcomes
    BY <1>0, <1>4, <2>1
    DEF RunGate, GateIsShut, GatePassed, FirstRuns, FrozenResults
  <2> QED
    BY <1>4, <2>2 DEF RunGate, Stages, GateAhead, GateBehind, Judged, AllRun
<1>5. CASE Rerun
  <2>1. PICK out \in [todo -> Outcomes] :
          result' = [i \in Instances |->
                       IF i \in todo THEN out[i] ELSE result[i]]
    BY <1>5 DEF Rerun
  <2>2. \A i \in Instances : result'[i] = result[i] \/ result'[i] \in Outcomes
    BY <2>1
  <2>3. \A i \in Instances \ Live : result'[i] = result[i]
    BY <2>1 DEF Setup
  <2>4. IF gate \in frozen THEN result'[gate] = "pass"
        ELSE result'[gate] \in Outcomes
    BY <1>0, <1>5, <2>2, <2>3 DEF Rerun, Stages, Judged
  <2>5. back = "phase2" => \A i \in Live : result'[i] \in Outcomes
    BY <1>0, <1>5, <2>2 DEF Rerun, Stages, AllRun
  <2> QED
    BY <1>5, <2>4, <2>5
    DEF Rerun, Stages, GateAhead, GateBehind, Judged, AllRun, Live
<1>6. CASE Phase0Debug \/ Phase1Correct \/ Phase2Debug \/ Phase2Correct
  <2>1. /\ pc \in {"phase0", "phase1", "phase2"}
        /\ \/ pc' = "rerun" /\ back' = pc
           \/ pc' = pc /\ back' = back
        /\ UNCHANGED <<result, ran, opened, gate, frozen, asked>>
    BY <1>6
    DEF Phase0Debug, Phase1Correct, Phase2Debug, Phase2Correct, Correction
  <2> QED
    BY <2>1 DEF Stages, GateAhead, GateBehind, Judged, AllRun, Live
<1>7. CASE Phase0Ends
  BY <1>7 DEF Phase0Ends, Stages, GateAhead, GateBehind, Judged, AllRun
<1>8. CASE GateFails
  <2>1. result[gate] \in Outcomes /\ gate \notin frozen
    BY <1>8 DEF GateFails, GateOpen, GatePassed, Stages, Judged
  <2>2. \A i \in Live : result'[i] # None
    BY <1>0, <1>8, <2>1 DEF GateFails
  <2> QED
    BY <1>8, <2>2
    DEF GateFails, Stages, GateAhead, GateBehind, Judged, AllRun
<1>9. CASE GatePasses
  BY <1>9 DEF GatePasses, Stages, GateAhead, GateBehind, Judged, AllRun
<1>10. CASE RunOthers
  <2>1. PICK out \in [Others -> Outcomes] :
          result' = [i \in Instances |->
                       IF i \in Others THEN out[i] ELSE result[i]]
    BY <1>10 DEF RunOthers
  <2>2. result'[gate] = result[gate]
    BY <1>0, <2>1 DEF Others
  <2>3. \A i \in Live : result'[i] \in Outcomes
    <3>1. \A i \in Others : result'[i] \in Outcomes
      BY <1>0, <2>1 DEF Others
    <3>2. gate \in Live => result'[gate] \in Outcomes
      BY <1>0, <1>10, <2>2 DEF RunOthers, Stages, Judged
    <3> QED
      BY <3>1, <3>2 DEF Others
  <2> QED
    BY <1>10, <2>2, <2>3
    DEF RunOthers, Stages, GateAhead, GateBehind, Judged, AllRun, Live
<1>11. CASE Phase2Ends
  <2>1. \A i \in Live : result[i] \in Outcomes
    BY <1>11 DEF Phase2Ends, Stages, AllRun
  <2> QED
    BY <1>11, <2>1
    DEF Phase2Ends, Stages, GateAhead, GateBehind, Judged, AllRun, Live
<1>12. CASE Flush
  BY <1>12 DEF Flush, Stages, GateAhead, GateBehind, Judged, AllRun, Live
<1>13. CASE Finish
  BY <1>13 DEF Finish, Stages, GateAhead, GateBehind, Judged, AllRun
<1> QED
  BY <1>1, <1>2, <1>3, <1>4, <1>5, <1>6, <1>7, <1>8, <1>9, <1>10, <1>11,
     <1>12, <1>13 DEF Step

LEMMA InitIInv == Init => IInv
BY InitTyped
DEF Init, IInv, Setup, Stages, GateAhead, GateBehind, Judged, AllRun, NoRow

LEMMA NextIInv == IInv /\ [Next]_vars => IInv'
<1>1. IInv /\ Start => IInv'
  BY StartTyped, StartSetup DEF IInv
<1>2. IInv /\ Step => IInv'
  BY StepTyped, StepSetup, StepStages DEF IInv
<1>3. IInv /\ Kill => IInv'
  BY DEF IInv, Kill, Typed, Setup, Stages, GateAhead, GateBehind, Judged,
         AllRun, Live, disk, setup, work, history, Places
<1>4. IInv /\ UNCHANGED vars => IInv'
  BY DEF IInv, Typed, Setup, Stages, GateAhead, GateBehind, Judged, AllRun,
         Live, vars, disk, setup, work, history
<1> QED
  BY <1>1, <1>2, <1>3, <1>4 DEF Next


LEMMA Inductive == Spec => []IInv
  BY InitIInv, NextIInv, PTL DEF Spec

-----------------------------------------------------------------------------
(* Giving up. *)

LEMMA NextGivesUp ==
  IInv /\ GivesUpWhenSpent /\ [Next]_vars => GivesUpWhenSpent'
<1> SUFFICES ASSUME Typed, Setup, Stages, GivesUpWhenSpent, [Next]_vars
             PROVE  GivesUpWhenSpent'
  BY DEF IInv
<1> USE DEF disk, setup, work, history
<1>1. CASE GenerateFails \/ PreJudge
  BY <1>1 DEF GenerateFails, PreJudge, GivesUpWhenSpent, Stages
<1>2. CASE GateFails
  <2>1. ~ opened' /\ ~ GateCanBeCorrected
    BY <1>2 DEF GateFails, Stages, GateAhead
  <2>2. /\ result'[gate] = result[gate]
        /\ UNCHANGED <<gate, frozen, dbgLeft, corLeft>>
    BY <1>2 DEF GateFails, Typed
  <2>3. ~ GateCanBeCorrected'
    BY <2>1, <2>2 DEF GateCanBeCorrected, GateOpen
  <2> QED
    BY <2>1, <2>3 DEF GivesUpWhenSpent
<1>3. CASE Phase2Ends
  <2>1. /\ opened' /\ UNCHANGED <<result, asked, frozen, dbgLeft, corLeft>>
    BY <1>3 DEF Phase2Ends, Stages, GateBehind
  <2>2. Failing(Live) # {} => dbgLeft = 0
    BY <1>3 DEF Phase2Ends
  <2>3. Incorrect(Live) # {} => corLeft = 0
    BY <1>3, Bounds DEF Phase2Ends, CorrectionDue, Typed
  <2>4. /\ Failing(Live)' = Failing(Live)
        /\ Incorrect(Live)' = Incorrect(Live)
    BY <2>1 DEF Failing, Incorrect, Live
  <2> QED
    BY <2>1, <2>2, <2>3, <2>4 DEF GivesUpWhenSpent
<1>4. CASE Flush \/ UNCHANGED vars
  <2>1. UNCHANGED <<pc, ran, opened, result, asked, gate, frozen, dbgLeft,
                    corLeft>>
    BY <1>4 DEF Flush, vars
  <2>2. /\ Failing(Live)' = Failing(Live)
        /\ Incorrect(Live)' = Incorrect(Live)
        /\ GateCanBeCorrected' <=> GateCanBeCorrected
    BY <2>1 DEF Failing, Incorrect, Live, GateCanBeCorrected, GateOpen
  <2> QED
    BY <2>1, <2>2 DEF GivesUpWhenSpent
<1>5. CASE Phase0Debug \/ Phase1Correct \/ Phase2Debug \/ Phase2Correct
  <2>1. pc' # "flush"
    BY <1>5
    DEF Phase0Debug, Phase1Correct, Phase2Debug, Phase2Correct, Correction
  <2> QED
    BY <2>1 DEF GivesUpWhenSpent
<1>6. CASE Start \/ Kill \/ Generate \/ RunGate \/ Rerun \/ Phase0Ends
           \/ GatePasses \/ RunOthers \/ Finish
  <2>1. pc' # "flush"
    BY <1>6 DEF Start, Kill, Generate, RunGate, Rerun, Phase0Ends, GatePasses,
                RunOthers, Finish, Stages
  <2> QED
    BY <2>1 DEF GivesUpWhenSpent
<1> QED
  BY <1>1, <1>2, <1>3, <1>4, <1>5, <1>6 DEF Next, Step

\* The phases of _process_paper_model_inner (one_shot_eval.py 2756-2957)
\* leave a failure that they could still debug or correct only when the
\* budget for its kind is spent, whatever the results and answers were on
\* the way.
THEOREM GivesUpOnlyWhenSpent == Spec => []GivesUpWhenSpent
<1>1. Init => GivesUpWhenSpent
  BY DEF Init, GivesUpWhenSpent
<1> QED
  BY <1>1, NextGivesUp, Inductive, PTL DEF Spec

-----------------------------------------------------------------------------
(* What is frozen. *)

\* Rows that are frozen (one_shot_eval.py 2543-2562, 2656) are neither run
\* again nor written by any step of the invocation, a kill included, and
\* --reuse-code incomplete freezes all the earlier rows of its list.
THEOREM FrozenRowsStay == Spec => RecordedIsFrozen
<1>1. ASSUME IInv, IInv', [Next]_vars
      PROVE  [pc # "idle" =>
                LET kept == IF mode = "incomplete" THEN before ELSE frozen IN
                  /\ kept \cap ran' = {}
                  /\ \A i \in kept : rows'[i] = rows[i]]_vars
  <2> SUFFICES ASSUME pc # "idle", Step \/ Kill
               PROVE  LET kept == IF mode = "incomplete" THEN before
                                  ELSE frozen IN
                        /\ kept \cap ran' = {}
                        /\ \A i \in kept : rows'[i] = rows[i]
    BY <1>1 DEF Next, Start
  <2> DEFINE kept == IF mode = "incomplete" THEN before ELSE frozen
  <2>1. kept \cap Live = {} /\ kept \subseteq Instances
    BY <1>1 DEF IInv, Setup, Live, Typed
  <2>2. ran' \subseteq Live
    <3>1. ran' \subseteq Live'
      BY <1>1 DEF IInv, Setup
    <3>2. Live' = Live
      BY DEF Step, Generate, GenerateFails, PreJudge, RunGate, Rerun,
         Phase0Debug, Phase0Ends, Phase1Correct, GateFails, GatePasses,
         RunOthers, Phase2Debug, Phase2Correct, Phase2Ends, Flush, Finish,
         Correction, Live, Kill, setup
    <3> QED
      BY <3>1, <3>2
  <2>3. \A i \in Instances \ Live : rows'[i] = rows[i]
    <3>1. CASE GatePasses
      <4>1. gate \in Live \/ rows' = rows
        BY <1>1, <3>1 DEF GatePasses, IInv, Setup, Live
      <4> QED
        BY <1>1, <3>1, <4>1 DEF GatePasses, SaveRow, IInv, Typed
    <3>2. CASE Flush
      BY <1>1, <3>2 DEF Flush, SaveRow, IInv, Setup, Typed
    <3>3. rows' = rows \/ GatePasses \/ Flush
      BY DEF Step, Generate, GenerateFails, PreJudge, RunGate, Rerun,
         Phase0Debug, Phase0Ends, Phase1Correct, GateFails, RunOthers,
         Phase2Debug, Phase2Correct, Phase2Ends, Finish, Correction, Kill,
         disk
    <3> QED
      BY <3>1, <3>2, <3>3
  <2> QED
    BY <2>1, <2>2, <2>3
<1> QED
  BY <1>1, Inductive, PTL DEF Spec, RecordedIsFrozen

-----------------------------------------------------------------------------
(* Rows that say the gate failed. *)

\* The instance named tiny is in every list of instances but that of the
\* first large one alone.  Without this the property fails: a list of large
\* instances only is gated by the first of them, and its rows may say that the
\* gate failed while tiny has no row at all.
TinyIsAsked == \A R \in Requests : Tiny \in R \/ R = {FirstLarge}

NoGateFail == \A i \in Large : rows[i].res # "gate_fail"

\* The gate has been, or is the next to be, recorded as not passed.
Shut ==
  IF gate \in unsaved THEN result[gate] \notin {None, "pass"}
  ELSE rows[gate].res \notin {None, "pass"}

\* Unless recorded rows are set out to be written again: until the gate is
\* decided no row has been written; once it has passed and is to be recorded,
\* no row says that it failed; and rows that are to say so follow one, of the
\* gate, that has been or is the next to be written.
GateInv ==
  /\ pc # "idle" => gate = Tiny \/ (Tiny \notin asked /\ asked = {gate})
  /\ pc # "idle" /\ ~ rewrites => before \cap Live = {}
  /\ GateAhead => Recorded = before
  /\ pc # "idle" /\ opened /\ ~ rewrites /\ Tiny \in Live => NoGateFail
  /\ pc = "flush" /\ ~ opened =>
       /\ gate \in unsaved => result[gate] \notin {"pass", "gate_fail"}
       /\ \A i \in unsaved : result[i] = "gate_fail" => Shut

LEMMA StartGateInv ==
  ASSUME IInv, GateInv, GateRowsAgree, TinyIsAsked, Start
  PROVE  GateInv' /\ GateRowsAgree'
<1>1. /\ UNCHANGED rows /\ pc' \in {"judge", "generate"} /\ opened' = FALSE
      /\ before' = Recorded
      /\ rewrites' = (rewrites \/ Recorded \cap (asked' \ frozen') # {})
  BY DEF Start, disk
<1>2. PICK R \in Requests :
        /\ asked' = R \cup (Recorded \cap {Tiny})
        /\ gate' = IF Tiny \in asked' THEN Tiny ELSE FirstLarge
  BY DEF Start
<1>3. gate' = Tiny \/ (Tiny \notin asked' /\ asked' = {gate'})
  <2>1. Tiny \in R \/ R = {FirstLarge}
    BY DEF TinyIsAsked
  <2>2. CASE Tiny \in asked'
    BY <1>2, <2>2
  <2>3. CASE Tiny \notin asked'
    BY <1>2, <2>1, <2>3
  <2> QED
    BY <2>2, <2>3
<1>4. GateInv'
  BY <1>1, <1>3 DEF GateInv, GateAhead, Recorded, Live
<1>5. GateRowsAgree'
  BY <1>1 DEF GateRowsAgree
<1> QED
  BY <1>4, <1>5

LEMMA StepGateInv ==
  ASSUME IInv, GateInv, GateRowsAgree, Step
  PROVE  GateInv' /\ GateRowsAgree'
<1> USE Strings DEF disk, setup, work, history
<1>1. Typed /\ Setup /\ Stages
  BY DEF IInv
<1>2. /\ Tiny \notin Large /\ Large \subseteq Instances /\ Tiny \in Instances
      /\ Live \subseteq Instances
  BY <1>1, OneShotAssumption DEF Instances, Live, Typed
<1>3. Live' = Live
      /\ UNCHANGED <<mode, asked, gate, frozen, before, rewrites>>
      /\ pc # "idle"
  BY DEF Step, Generate, GenerateFails, PreJudge, RunGate, Rerun,
         Phase0Debug, Phase0Ends, Phase1Correct, GateFails, GatePasses,
         RunOthers, Phase2Debug, Phase2Correct, Phase2Ends, Flush, Finish,
         Correction, Live
<1>4. ASSUME UNCHANGED <<rows, opened>>, pc' # "flush", GateAhead' => GateAhead
      PROVE  GateInv' /\ GateRowsAgree'
  BY <1>3, <1>4 DEF GateInv, GateRowsAgree, Recorded, NoGateFail
<1>5. CASE Generate \/ RunGate \/ Rerun \/ Phase0Debug \/ Phase0Ends
           \/ Phase1Correct \/ RunOthers \/ Phase2Debug \/ Phase2Correct
           \/ Finish
  <2>1. UNCHANGED <<rows, opened>> /\ pc' # "flush"
    BY <1>1, <1>5
    DEF Generate, RunGate, Rerun, Phase0Debug, Phase0Ends, Phase1Correct,
        RunOthers, Phase2Debug, Phase2Correct, Finish, Correction, Stages
  <2>2. GateAhead' => GateAhead
    BY <1>5
    DEF Generate, RunGate, Rerun, Phase0Debug, Phase0Ends, Phase1Correct,
        RunOthers, Phase2Debug, Phase2Correct, Finish, Correction, GateAhead
  <2> QED
    BY <1>4, <2>1, <2>2
<1>6. CASE GenerateFails
  <2>1. \A i \in Instances : result'[i] = "crash"
    BY <1>6 DEF GenerateFails
  <2>2. UNCHANGED <<rows, opened>> /\ pc' = "flush" /\ unsaved' = Live
        /\ ~ opened
    BY <1>1, <1>6 DEF GenerateFails, Stages, GateAhead
  <2> QED
    BY <1>2, <1>3, <2>1, <2>2 DEF GateInv, GateRowsAgree, GateAhead
<1>7. CASE PreJudge
  <2>1. UNCHANGED <<rows, opened>> /\ pc' = "flush" /\ unsaved' = Live
        /\ ~ opened
    BY <1>1, <1>7 DEF PreJudge, Stages, GateAhead
  <2>2. gate \in frozen /\ gate \notin Live
        /\ rows[gate].res \notin {None, "pass"}
    BY <1>1, <1>7
    DEF PreJudge, GateIsShut, GatePassed, Setup, Live, Typed
  <2> QED
    BY <1>3, <2>1, <2>2 DEF GateInv, GateRowsAgree, GateAhead, Shut
<1>8. CASE GateFails
  <2>1. UNCHANGED <<rows, opened>> /\ pc' = "flush" /\ unsaved' = Live
        /\ ~ opened
    BY <1>1, <1>8 DEF GateFails, Stages, GateAhead
  <2>2. result[gate] \in Outcomes /\ gate \in Live /\ result[gate] # "pass"
    BY <1>1, <1>8
    DEF GateFails, GateOpen, GatePassed, Stages, Judged, Setup, Live
  <2>3. result'[gate] = result[gate]
    BY <1>2, <1>8, <2>2 DEF GateFails
  <2> QED
    BY <1>3, <2>1, <2>2, <2>3 DEF GateInv, GateRowsAgree, GateAhead, Shut
<1>9. CASE GatePasses
  <2>1. /\ pc' = "others" /\ result[gate] = "pass" /\ gate \in asked
        /\ Recorded = before
    BY <1>1, <1>9
    DEF GatePasses, GateOpen, GatePassed, Setup, GateInv, GateAhead
  <2>2. ASSUME ~ rewrites, Tiny \in Live PROVE NoGateFail
    <3>1. rows[Tiny] = NoRow
      BY <1>2, <1>3, <2>1, <2>2 DEF GateInv, Recorded
    <3> QED
      BY <2>2, <3>1 DEF GateRowsAgree, NoGateFail, NoRow
  <2>3. \A i \in Large : rows'[i].res = "gate_fail" => rows'[i] = rows[i]
    BY <1>1, <1>2, <1>9, <2>1 DEF GatePasses, SaveRow, Typed
  <2>4. gate # Tiny \/ Tiny \notin Live => rows'[Tiny] = rows[Tiny]
    BY <1>1, <1>2, <1>9, <2>1 DEF GatePasses, SaveRow, Typed, Live
  <2>5. gate # Tiny => Tiny \notin Live
    BY <1>3 DEF GateInv, Live
  <2>6. NoGateFail => NoGateFail'
    BY <2>3 DEF NoGateFail
  <2>7. GateRowsAgree'
    BY <1>3, <2>2, <2>3, <2>4, <2>5, <2>6 DEF GateRowsAgree, NoGateFail
  <2>8. GateInv'
    BY <1>3, <2>1, <2>2, <2>6 DEF GateInv, GateAhead
  <2> QED
    BY <2>7, <2>8
<1>10. CASE Phase2Ends
  <2>1. UNCHANGED <<rows, opened, result>> /\ pc' = "flush" /\ opened
    BY <1>1, <1>10 DEF Phase2Ends, Stages, GateBehind
  <2> QED
    BY <1>3, <2>1 DEF GateInv, GateRowsAgree, GateAhead, NoGateFail
<1>11. CASE Flush
  <2>1. PICK i \in unsaved : /\ gate \in unsaved => i = gate
                             /\ SaveRow(i) /\ unsaved' = unsaved \ {i}
    BY <1>11 DEF Flush
  <2>2. /\ pc = "flush" /\ pc' = "flush"
        /\ UNCHANGED <<result, first, opened>>
        /\ i \in Live /\ result[i] # None
    BY <1>1, <1>11, <2>1 DEF Flush, Setup, Stages
  <2>3. /\ rows'[i].res = result[i]
        /\ \A j \in Instances \ {i} : rows'[j] = rows[j]
    BY <1>1, <1>2, <2>1, <2>2 DEF SaveRow, Typed
  <2>4. opened => result[i] # "gate_fail"
    BY <1>1, <2>2 DEF Stages, AllRun
  <2>5. i = Tiny /\ ~ opened => result[i] \notin {None, "pass"}
    BY <1>3, <2>1, <2>2 DEF GateInv, Live
  <2>6. result[i] = "gate_fail" /\ ~ opened => i # gate /\ gate = Tiny
    BY <1>3, <2>1, <2>2 DEF GateInv, Live
  <2>7. result[i] = "gate_fail" /\ ~ opened =>
          rows[Tiny].res \notin {None, "pass"}
    BY <2>1, <2>2, <2>6 DEF GateInv, Shut
  <2>8. NoGateFail /\ opened => NoGateFail'
    BY <1>2, <2>3, <2>4 DEF NoGateFail
  <2>9. GateRowsAgree'
    <3> SUFFICES ASSUME ~ rewrites, NEW j \in Large,
                        rows'[j].res = "gate_fail"
                 PROVE  rows'[Tiny].res \notin {None, "pass"}
      BY <1>3 DEF GateRowsAgree
    <3>1. CASE i = Tiny
      <4>1. rows[j].res = "gate_fail"
        BY <1>2, <2>3, <3>1
      <4>2. ~ opened
        BY <1>3, <2>2, <3>1, <4>1 DEF GateInv, NoGateFail
      <4> QED
        BY <2>3, <2>5, <3>1, <4>2
    <3>2. CASE i # Tiny
      <4>1. rows'[Tiny] = rows[Tiny]
        BY <1>2, <2>3, <3>2
      <4>2. CASE j = i
        BY <2>3, <2>4, <2>7, <4>1, <4>2
      <4>3. CASE j # i
        BY <1>2, <2>3, <4>1, <4>3 DEF GateRowsAgree
      <4> QED
        BY <4>2, <4>3
    <3> QED
      BY <3>1, <3>2
  <2>10. GateInv'
    <3>1. ASSUME ~ opened, NEW j \in unsaved', result[j] = "gate_fail"
          PROVE  Shut'
      <4>1. Shut
        BY <2>1, <2>2, <3>1 DEF GateInv
      <4>2. CASE gate \in unsaved
        BY <1>3, <2>1, <2>2, <2>3, <4>1, <4>2 DEF Shut
      <4>3. CASE gate \notin unsaved
        <5>1. gate # i /\ gate \in Instances
          BY <1>1, <2>1, <4>3 DEF Typed
        <5> QED
          BY <1>3, <2>1, <2>3, <4>1, <4>3, <5>1 DEF Shut
      <4> QED
        BY <4>2, <4>3
    <3>2. gate \in unsaved' => gate \in unsaved
      BY <2>1
    <3> QED
      BY <1>3, <2>1, <2>2, <2>8, <3>1, <3>2 DEF GateInv, GateAhead
  <2> QED
    BY <2>9, <2>10
<1> QED
  BY <1>5, <1>6, <1>7, <1>8, <1>9, <1>10, <1>11 DEF Step

LEMMA NextGateInv ==
  ASSUME TinyIsAsked, IInv, GateInv, GateRowsAgree, [Next]_vars
  PROVE  GateInv' /\ GateRowsAgree'
<1>1. CASE Kill
  BY <1>1 DEF Kill, GateInv, GateRowsAgree, GateAhead, disk, history
<1>2. CASE UNCHANGED vars
  BY <1>2 DEF vars, disk, setup, work, history, GateInv, GateRowsAgree,
    GateAhead, Recorded, NoGateFail, Live, Shut
<1> QED
  BY <1>1, <1>2, StartGateInv, StepGateInv DEF Next

\* The rows "gate_fail" of the CSV (one_shot_eval.py 2687-2697, 2847-2869)
\* stand
\* beside a recorded gate that has not passed, although rows are written one
\* by one and invocations are killed in between: flush_results writes the
\* row of the gate first (2569-2576).
THEOREM GateRows == TinyIsAsked => (Spec => []GateRowsAgree)
<1> SUFFICES ASSUME TinyIsAsked PROVE Spec => []GateRowsAgree
  OBVIOUS
<1>1. Init => GateInv /\ GateRowsAgree
  BY DEF Init, GateInv, GateRowsAgree, GateAhead, NoRow, None, Instances
<1>2. IInv /\ GateInv /\ GateRowsAgree /\ [Next]_vars
        => GateInv' /\ GateRowsAgree'
  BY NextGateInv
<1> QED
  BY <1>1, <1>2, Inductive, PTL DEF Spec

-----------------------------------------------------------------------------
(* The CSV file, for any processes, threads, keys and amounts: one thread   *)
(* at a time is inside, rows keep distinct keys, and the file is a table    *)
(* whose rows change one at a time and go by a kill or an exception only.   *)

CsvIInv ==
  /\ CsvTypeOK /\ OneInside /\ OneRowPerKey
  /\ ~ created => file = {}
  /\ \A t \in Threads : Unique(loaded[t])

LEMMA CsvInitIInv == CsvInit => CsvIInv
<1> SUFFICES ASSUME CsvInit PROVE CsvIInv
  OBVIOUS
<1>1. CsvTypeOK
  <2>1. Reading \in Calls
    BY DEF Calls
  <2> QED
    BY <2>1, CsvAssumption DEF CsvInit, CsvTypeOK
<1>2. OneInside
  BY CsvAssumption DEF CsvInit, OneInside, Inside
<1> QED
  BY <1>1, <1>2 DEF CsvInit, CsvIInv, OneRowPerKey, Unique

\* A write has a key and an amount.
LEMMA CsvWriteCall ==
  ASSUME CsvTypeOK, NEW t \in Threads, call[t].op = "write"
  PROVE  call[t].key \in Keys /\ call[t].val \in Nat
  BY CsvAssumption DEF CsvTypeOK, Calls, Reading, Writing

LEMMA CsvNewRowType ==
  ASSUME CsvTypeOK, NEW t \in Threads, call[t].op = "write"
  PROVE  NewRow(t) \in Rows /\ NewRow(t).key = call[t].key
<1>1. call[t].key \in Keys /\ call[t].val \in Nat
  BY CsvWriteCall
<1>2. Former(t) \subseteq Nat
  BY DEF CsvTypeOK, Former, Rows
<1>3. Former(t) # {} => (CHOOSE n \in Former(t) : TRUE) \in Nat
  BY <1>2
<1> QED
  BY <1>1, <1>3 DEF NewRow, Rows

\* Steps of a thread outside the file: only locks and phases change.
LEMMA CsvLockSteps ==
  ASSUME CsvIInv, NEW t \in Threads,
         \/ BeginWrite(t) \/ BeginRead(t) \/ LockThread(t) \/ LockFile(t)
         \/ UnlockFile(t) \/ UnlockThread(t)
  PROVE  CsvIInv'
<1> USE CsvAssumption
    DEF CsvIInv, CsvTypeOK, OneInside, OneRowPerKey, Unique, Inside, Kept
<1>1. CASE BeginWrite(t)
  <2>1. PICK k \in Keys, v \in Amounts : Begin(t, Writing(k, v))
    BY <1>1 DEF BeginWrite
  <2>2. Writing(k, v) \in Calls
    BY DEF Calls
  <2> QED
    BY <1>1, <2>1, <2>2 DEF BeginWrite, Begin, locks
<1>2. CASE BeginRead(t)
  <2>1. Reading \in Calls
    BY DEF Calls
  <2>2. Begin(t, Reading) /\ UNCHANGED <<locks, created, file, loaded, done, losses>>
    BY <1>2 DEF BeginRead
  <2>3. \/ stage' = [stage EXCEPT ![t] = "lock"] /\ seen' = seen
        \/ stage' = stage /\ seen' = [seen EXCEPT ![t] = {}]
    BY <1>2 DEF BeginRead
  <2> QED
    BY <2>1, <2>2, <2>3 DEF Begin, locks
<1>3. CASE LockThread(t)
  BY <1>3 DEF LockThread
<1>4. CASE LockFile(t)
  BY <1>4 DEF LockFile
<1>5. CASE UnlockFile(t)
  BY <1>5 DEF UnlockFile
<1>6. CASE UnlockThread(t)
  BY <1>6 DEF UnlockThread
<1> QED
  BY <1>1, <1>2, <1>3, <1>4, <1>5, <1>6

\* Steps of the thread inside.
LEMMA CsvFileSteps ==
  ASSUME CsvIInv, NEW t \in Threads,
         Load(t) \/ Truncate(t) \/ Rewrite(t) \/ Close(t)
  PROVE  CsvIInv'
<1> USE CsvAssumption
    DEF CsvIInv, CsvTypeOK, OneInside, OneRowPerKey, Unique, Inside, Kept
<1>1. CASE Load(t)
  <2>1. call[t].op \in {"read", "write"}
    BY DEF Calls, Reading, Writing
  <2> QED
    BY <1>1, <2>1 DEF Load, locks
<1>2. CASE Truncate(t)
  BY <1>2 DEF Truncate, locks
<1>3. CASE Rewrite(t)
  BY <1>3 DEF Rewrite, locks
<1>4. CASE Close(t)
  <2>1. NewRow(t) \in Rows /\ NewRow(t).key = call[t].key
    BY <1>4, CsvNewRowType DEF Close
  <2> QED
    BY <1>4, <2>1 DEF Close, locks
<1> QED
  BY <1>1, <1>2, <1>3, <1>4

LEMMA CsvKillIInv == ASSUME CsvIInv, NEW p \in Procs, KillProcess(p) PROVE CsvIInv'
  BY CsvAssumption
  DEF KillProcess, CsvIInv, CsvTypeOK, OneInside, OneRowPerKey, Unique,
      Inside, Kept

LEMMA CsvRaiseIInv == ASSUME CsvIInv, NEW t \in Threads, CallRaises(t) PROVE CsvIInv'
<1>1. file' = file \/ (stage[t] = "rewrite" /\ file' \subseteq Kept(t))
  BY DEF CallRaises, CsvIInv, OneInside
<1>2. Kept(t) \subseteq loaded[t]
  BY DEF Kept
<1> QED
  BY <1>1, <1>2, CsvAssumption
  DEF CallRaises, locks, CsvIInv, CsvTypeOK, OneInside, OneRowPerKey, Unique, Inside, Kept

LEMMA CsvNextIInv == CsvIInv /\ [CsvNext]_csvVars => CsvIInv'
<1> SUFFICES ASSUME CsvIInv, [CsvNext]_csvVars PROVE CsvIInv'
  OBVIOUS
<1>1. CASE CsvNext
  BY <1>1, CsvLockSteps, CsvFileSteps, CsvKillIInv, CsvRaiseIInv DEF CsvNext, StepOf
<1>2. CASE UNCHANGED csvVars
  BY <1>2 DEF csvVars, locks, CsvIInv, CsvTypeOK, OneInside, OneRowPerKey,
              Unique,
              Inside, Kept
<1> QED
  BY <1>1, <1>2

\* "fcntl.flock on a sibling .lock file plus the module-level threading.Lock"
\* (_csv_file_lock) let one thread in at a time, and rows keep distinct keys,
\* whatever is killed or raises when.
THEOREM KeysStayDistinct == CsvSpec => [](CsvTypeOK /\ OneInside /\ OneRowPerKey)
<1>1. CsvInit => CsvIInv
  BY CsvInitIInv
<1>2. CsvIInv /\ [CsvNext]_csvVars => CsvIInv'
  BY CsvNextIInv
<1>3. CsvIInv => CsvTypeOK /\ OneInside /\ OneRowPerKey
  BY DEF CsvIInv
<1> QED
  BY <1>1, <1>2, <1>3, PTL DEF CsvSpec

-----------------------------------------------------------------------------

\* A step of a thread replaces a row, reads the table, or leaves it alone.
LEMMA CsvStepRefines ==
  ASSUME CsvIInv, CsvIInv', NEW t \in Threads,
         BeginWrite(t) \/ BeginRead(t) \/ StepOf(t)
  PROVE  RT!Next \/ UNCHANGED <<Table, seen, done, losses>>
<1> USE CsvAssumption DEF CsvIInv, CsvTypeOK, OneInside, Inside, Table
<1>1. CASE BeginWrite(t)
  BY <1>1 DEF BeginWrite, Begin, locks
<1>2. CASE BeginRead(t)
  <2>1. ~ created => Table = {} /\ Table' = {}
    BY <1>2 DEF BeginRead, Begin, locks
  <2>2. created => UNCHANGED <<Table, seen, done, losses>>
    BY <1>2 DEF BeginRead, Begin, locks
  <2>3. ~ created => RT!Read(t)
    BY <1>2, <2>1 DEF BeginRead, RT!Read
  <2> QED
    BY <2>2, <2>3 DEF RT!Next
<1>3. CASE LockThread(t) \/ LockFile(t) \/ UnlockFile(t) \/ UnlockThread(t)
  BY <1>3 DEF LockThread, LockFile, UnlockFile, UnlockThread
<1>4. CASE Load(t)
  <2>1. Table = file /\ Table' = file
    BY <1>4 DEF Load, locks
  <2> QED
    BY <1>4, <2>1 DEF Load, RT!Read, RT!Next
<1>5. CASE Truncate(t)
  BY <1>5 DEF Truncate, locks
<1>6. CASE Rewrite(t)
  BY <1>6 DEF Rewrite, locks
<1>7. CASE Close(t)
  <2>1. Table = loaded[t] /\ Table' = Kept(t) \cup {NewRow(t)}
    BY <1>7 DEF Close, locks
  <2>2. call[t].op = "write"
    BY <1>7 DEF Close
  <2>3. call[t].key \in Keys /\ call[t].val \in Amounts
    BY <2>2 DEF Calls, Reading, Writing
  <2>4. Table' = RT!With(Table, call[t].key, call[t].val)
    <3>1. RT!Amount(Table, call[t].key) = Former(t)
      BY ONLY <2>1 DEF RT!Amount, Former
    <3>2. RT!Row(Table, call[t].key, call[t].val) = NewRow(t)
      BY ONLY <3>1 DEF RT!Row, NewRow
    <3> QED
      BY ONLY <2>1, <3>2 DEF RT!With, Kept
  <2>5. done' = [done EXCEPT ![t] = @ + 1] /\ UNCHANGED <<seen, losses>>
    BY <1>7 DEF Close
  <2>6. RT!Write(t)
    BY ONLY <2>3, <2>4, <2>5 DEF RT!Write
  <2> QED
    BY ONLY <2>6 DEF RT!Next
<1> QED
  BY <1>1, <1>2, <1>3, <1>4, <1>5, <1>6, <1>7 DEF StepOf

\* A kill takes away at most what the writer inside had read.
LEMMA CsvKillRefines ==
  ASSUME CsvIInv, CsvIInv', NEW p \in Procs, KillProcess(p) PROVE RT!Lose
<1> USE CsvAssumption DEF CsvIInv, CsvTypeOK, OneInside, Inside, Table
<1>1. file \subseteq Table
  BY DEF Kept
<1>2. Table' = Table \/ Table' = file
  BY DEF KillProcess
<1>3. Table' \in SUBSET Table
  BY <1>1, <1>2
<1>4. losses' = losses + 1 /\ UNCHANGED <<seen, done>>
  BY DEF KillProcess
<1> QED
  BY ONLY <1>3, <1>4 DEF RT!Lose

\* A call that raises, too, and one that has not truncated the file takes away
\* nothing.
LEMMA CsvRaiseRefines ==
  ASSUME CsvIInv, CsvIInv', NEW t \in Threads, CallRaises(t) PROVE RT!Lose
<1> USE CsvAssumption DEF CsvIInv, CsvTypeOK, OneInside, Inside, Table
<1>1. flock = t /\ flock' = t /\ stage'[t] = "unlock"
  BY DEF CallRaises, locks
<1>2. Table' = file'
  BY <1>1
<1>3. stage[t] = "rewrite" => Table = loaded[t] /\ file' \subseteq Kept(t)
  BY <1>1 DEF CallRaises
<1>4. stage[t] # "rewrite" => Table = file /\ file' = file
  BY <1>1 DEF CallRaises
<1>5. Table' \in SUBSET Table
  BY <1>2, <1>3, <1>4 DEF Kept
<1>6. losses' = losses + 1 /\ UNCHANGED <<seen, done>>
  BY DEF CallRaises
<1> QED
  BY ONLY <1>5, <1>6 DEF RT!Lose

\* Unless the process is killed or the call raises, the read, truncate and
\* rewrite are one step of a table ("Both together make the read-modify-write
\* atomic under any mix", _csv_file_lock): rows are replaced one at a time, costs
\* add up, and a reader sees a whole table.
THEOREM RewriteIsAtomic == CsvSpec => Atomic
<1>1. CsvInit => CsvIInv
  BY CsvInitIInv
<1>2. CsvIInv /\ [CsvNext]_csvVars => CsvIInv'
  BY CsvNextIInv
<1>3. CsvInit => RT!Init
  BY CsvAssumption DEF CsvInit, RT!Init, Table
<1>4. ASSUME CsvIInv, CsvIInv', [CsvNext]_csvVars PROVE [RT!Next]_<<Table, seen, done, losses>>
  <2>1. CASE CsvNext
    BY <1>4, <2>1, CsvStepRefines, CsvKillRefines, CsvRaiseRefines DEF CsvNext, RT!Next
  <2>2. CASE UNCHANGED csvVars
    BY <2>2 DEF csvVars, locks, Table
  <2> QED
    BY <1>4, <2>1, <2>2
<1> QED
  BY <1>1, <1>2, <1>3, <1>4, PTL DEF CsvSpec, Atomic, RT!Spec

=============================================================================
