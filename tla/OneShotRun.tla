----------------------------- MODULE OneShotRun -----------------------------
(***************************************************************************)
(* The one-shot evaluation of a model on a paper:                          *)
(* _process_paper_model_inner (one_shot_eval.py), over several invocations *)
(* that share code.py, the code_attempt<N>.py files and the rows of the    *)
(* results CSV.  A program is generated, run on a gate instance, debugged  *)
(* and corrected by more model calls, run on the large instances if the    *)
(* gate passes, and corrected again; rows are written as results become    *)
(* final, and an invocation may be killed anywhere.                        *)
(*                                                                         *)
(* Results are told apart by what the flow does with them:                 *)
(*   pass     feasible, gap at most 10%                                    *)
(*   poor     larger or unknown gap, or an implausible objective           *)
(*   crash    runtime error other than the time limit                      *)
(*   wrong    infeasible, invalid solution, or time limit exceeded         *)
(*   checker  no verdict: checker or instance missing                      *)
(* and a row may say gate_fail.  A row is written under the lock of the    *)
(* CSV in one step here; module ResultsCsv looks inside.  Token usage and  *)
(* its cost row are left out.                                              *)
(***************************************************************************)
EXTENDS Integers, FiniteSets

CONSTANTS
  Tiny,        \* the instance named tiny
  Large,       \* the large_<n> instances
  FirstLarge,  \* the first of them on a command line
  Requests,    \* instance lists an invocation may be given, as sets
  Modes,       \* --reuse-code: "none", "all", "incomplete"
  MaxDebug,    \* --max_debug_retries
  MaxCorrect,  \* --max_correct_retries
  MaxLives     \* bound on invocations (the model's)

Instances == {Tiny} \cup Large

ASSUME OneShotAssumption ==
  /\ Tiny \notin Large /\ FirstLarge \in Large /\ IsFiniteSet(Large)
  /\ Requests \subseteq {R \in SUBSET Instances : FirstLarge \in R}
  /\ Modes \subseteq {"none", "all", "incomplete"}
  /\ {MaxDebug, MaxCorrect, MaxLives} \subseteq Nat

Outcomes == {"pass", "poor", "crash", "wrong", "checker"}
Results == Outcomes \cup {"gate_fail"}
None == "none"

VARIABLES
  \* disk
  code,      \* code.py exists
  attempts,  \* N of the files code_attempt<N>.py
  rows,      \* results CSV: per instance, current and first result
  \* the invocation
  pc, mode,
  asked,     \* instance_indices
  gate,      \* its first member
  frozen,    \* csv_done
  result,    \* results
  first,     \* first_results
  dbg, cor,           \* debug_used, retries_used
  dbgLeft, corLeft,   \* debug_budget, retry_budget
  todo,      \* instances to run again
  back,      \* where to go on after that
  unsaved,   \* instances whose rows are still to be written
  \* what happened
  lives,
  before,    \* instances that had rows when this invocation began
  rewrites,  \* an invocation has set out to write such rows again
  ran,       \* instances executed in this invocation
  opened,    \* its gate has passed
  calls      \* corrections asked of the model: [debug, correct], in all

disk == <<code, attempts, rows>>
work == <<result, first, dbg, cor, dbgLeft, corLeft, todo, back>>
setup == <<mode, asked, gate, frozen>>
history == <<lives, before, rewrites, ran, opened, calls>>
vars == <<disk, pc, setup, work, unsaved, history>>

NoRow == [res |-> None, first |-> None]
Recorded == {i \in Instances : rows[i] # NoRow}
Blank == [i \in Instances |-> None]

Init ==
  /\ code = FALSE /\ attempts = {} /\ rows = [i \in Instances |-> NoRow]
  /\ pc = "idle" /\ mode = "none" /\ asked = {} /\ gate = Tiny /\ frozen = {}
  /\ result = Blank /\ first = Blank
  /\ dbg = 0 /\ cor = 0 /\ dbgLeft = 0 /\ corLeft = 0
  /\ todo = {} /\ back = "phase0" /\ unsaved = {}
  /\ lives = 0 /\ before = {} /\ rewrites = FALSE /\ ran = {} /\ opened = FALSE
  /\ calls = [debug |-> 0, correct |-> 0]

-----------------------------------------------------------------------------
(* Classification. *)

GatePassed(r) == r = "pass"
Correctable(r) == r # "checker"
NeedsDebug(r) == r = "crash"
NeedsCorrection(r) == r = "wrong"

\* Mutant of Live: recorded instances are not spared.
LiveAll == asked

\* What this invocation may run and write.
Live == asked \ frozen

Failing(S) == {i \in S : NeedsDebug(result[i])}
Incorrect(S) == {i \in S : NeedsCorrection(result[i])}

Fewer(m, n) == IF m > n THEN m - n ELSE 0

\* Corrections that earlier invocations have left on the disk.
Historical == Fewer(Cardinality(attempts), 1)

-----------------------------------------------------------------------------
(* Start: what to run, what the CSV has frozen, what is left to spend. *)

\* A recorded tiny is put in front of a list without it, and is frozen then;
\* --reuse-code incomplete freezes all that is recorded.
FrozenRows(m, R) ==
  IF m = "incomplete" THEN Recorded \cap (R \cup {Tiny})
  ELSE IF Tiny \in R THEN {} ELSE Recorded \cap {Tiny}

Start ==
  /\ pc = "idle" /\ lives < MaxLives
  /\ lives' = lives + 1
  /\ \E m \in Modes, R \in Requests :
       LET list == R \cup (Recorded \cap {Tiny})
           reuse == m # "none" /\ code
           used == IF reuse THEN Historical ELSE 0
       IN  /\ ~ (m = "incomplete" /\ list \subseteq Recorded)
           /\ mode' = IF reuse THEN m ELSE "none"
           /\ asked' = list
           /\ gate' = IF Tiny \in list THEN Tiny ELSE FirstLarge
           /\ frozen' = FrozenRows(m, R)
           /\ dbg' = IF MaxDebug > 0 THEN used ELSE 0
           /\ cor' = IF MaxDebug = 0 /\ MaxCorrect > 0 THEN used ELSE 0
           /\ dbgLeft' = Fewer(MaxDebug, dbg')
           /\ corLeft' = Fewer(MaxCorrect, cor')
           /\ pc' = IF reuse THEN "judge" ELSE "generate"
  /\ result' = Blank /\ first' = Blank /\ todo' = {} /\ unsaved' = {}
  /\ back' = "phase0" /\ before' = Recorded /\ ran' = {} /\ opened' = FALSE
  /\ rewrites' = (rewrites \/ Recorded \cap (asked' \ frozen') # {})
  /\ UNCHANGED <<disk, calls>>

Generate ==
  /\ pc = "generate"
  /\ code' = TRUE /\ attempts' = attempts \cup {0}
  /\ pc' = "judge"
  /\ UNCHANGED <<rows, setup, work, unsaved, history>>

\* No program after all attempts: every instance counts as crashed.
GenerateFails ==
  /\ pc = "generate"
  /\ result' = [i \in Instances |-> "crash"]
  /\ first' = [i \in Instances |-> "crash"]
  /\ unsaved' = Live /\ pc' = "flush"
  /\ UNCHANGED <<disk, setup, dbg, cor, dbgLeft, corLeft, todo, back, history>>

-----------------------------------------------------------------------------
(* The gate instance. *)

\* first_* of an instance: what the CSV has of it when code is reused.
FirstOf(i, r) ==
  IF mode # "none" /\ rows[i] # NoRow THEN rows[i].first ELSE r

FrozenResults ==
  [i \in Instances |-> IF i \in frozen THEN rows[i].res ELSE None]

\* The frozen row of the gate fails it.
GateIsShut == gate \in frozen /\ ~ GatePassed(rows[gate].res)

\* A frozen row that fails the gate settles the invocation at once.
PreJudge ==
  /\ pc = "judge" /\ GateIsShut
  /\ result' = [i \in Instances |->
                  IF i \in Live THEN "gate_fail" ELSE FrozenResults[i]]
  /\ first' = [i \in Instances |-> IF i \in Live THEN "gate_fail" ELSE None]
  /\ unsaved' = Live /\ pc' = "flush"
  /\ UNCHANGED <<disk, setup, dbg, cor, dbgLeft, corLeft, todo, back, history>>

\* Only the gate instance runs before the gate is decided.
FirstRuns == {gate} \ frozen

RunGate ==
  /\ pc = "judge" /\ ~ GateIsShut
  /\ \E out \in [FirstRuns -> Outcomes] :
       /\ result' = [i \in Instances |->
                       IF i \in FirstRuns THEN out[i] ELSE FrozenResults[i]]
       /\ first' = [i \in Instances |->
                      IF i \in FirstRuns THEN FirstOf(i, out[i]) ELSE None]
  /\ ran' = ran \cup FirstRuns
  /\ pc' = "phase0"
  /\ UNCHANGED <<disk, setup, dbg, cor, dbgLeft, corLeft, todo, back, unsaved,
                 lives, before, rewrites, opened, calls>>

-----------------------------------------------------------------------------
(* Corrections: one model call, and if it gives a program, its runs. *)

SpendDebug ==
  /\ dbgLeft > 0
  /\ dbgLeft' = dbgLeft - 1 /\ dbg' = dbg + 1
  /\ calls' = [calls EXCEPT !.debug = @ + 1]
  /\ UNCHANGED <<cor, corLeft>>

SpendCorrection ==
  /\ corLeft > 0
  /\ corLeft' = corLeft - 1 /\ cor' = cor + 1
  /\ calls' = [calls EXCEPT !.correct = @ + 1]
  /\ UNCHANGED <<dbg, dbgLeft>>

\* The answer replaces code.py, and is kept under the number of corrections;
\* without an answer the phase goes round again.
Correction(S) ==
  /\ \/ /\ attempts' = attempts \cup {dbg' + cor'}
        /\ todo' = S /\ back' = pc /\ pc' = "rerun"
     \/ UNCHANGED <<attempts, todo, back, pc>>
  /\ UNCHANGED <<code, rows, setup, result, first, unsaved, lives, before,
                 rewrites, ran, opened>>

Rerun ==
  /\ pc = "rerun"
  /\ \E out \in [todo -> Outcomes] :
       result' = [i \in Instances |-> IF i \in todo THEN out[i] ELSE result[i]]
  /\ ran' = ran \cup todo
  /\ todo' = {} /\ pc' = back
  /\ UNCHANGED <<disk, setup, first, dbg, cor, dbgLeft, corLeft, back, unsaved,
                 lives, before, rewrites, opened, calls>>

\* Phase 0: debug crashes of the gate instance.
Phase0Debug ==
  /\ pc = "phase0" /\ Failing({gate} \ frozen) # {}
  /\ SpendDebug /\ Correction({gate})

Phase0Ends ==
  /\ pc = "phase0"
  /\ Failing({gate} \ frozen) = {} \/ dbgLeft = 0
  /\ pc' = "phase1"
  /\ UNCHANGED <<disk, setup, work, unsaved, history>>

\* Phase 1: correct the gate instance until it passes.
GateOpen == GatePassed(result[gate])

GateCanBeCorrected ==
  /\ gate \notin frozen /\ ~ GateOpen /\ Correctable(result[gate])
  /\ IF NeedsDebug(result[gate]) THEN dbgLeft > 0 ELSE corLeft > 0

Phase1Correct ==
  /\ pc = "phase1" /\ GateCanBeCorrected
  /\ IF NeedsDebug(result[gate]) THEN SpendDebug ELSE SpendCorrection
  /\ Correction({gate})

\* The gate stays shut: the other instances are not run.  They get no
\* first result.
GateFails ==
  /\ pc = "phase1" /\ ~ GateCanBeCorrected /\ ~ GateOpen
  /\ result' = [i \in Instances |->
                  IF i \in Live \ {gate} THEN "gate_fail" ELSE result[i]]
  /\ unsaved' = Live /\ pc' = "flush"
  /\ UNCHANGED <<disk, setup, first, dbg, cor, dbgLeft, corLeft, todo, back,
                 history>>

SaveRow(i) == rows' = [rows EXCEPT ![i] = [res |-> result[i], first |-> first[i]]]

\* The row of the gate instance is written as soon as it has passed.
GatePasses ==
  /\ pc = "phase1" /\ GateOpen
  /\ IF gate \in frozen THEN rows' = rows ELSE SaveRow(gate)
  /\ opened' = TRUE
  /\ pc' = "others"
  /\ UNCHANGED <<code, attempts, setup, work, unsaved, lives, before,
                 rewrites, ran,
                 calls>>

-----------------------------------------------------------------------------
(* Phase 2: the other instances. *)

Others == Live \ {gate}

RunOthers ==
  /\ pc = "others"
  /\ \E out \in [Others -> Outcomes] :
       /\ result' = [i \in Instances |->
                       IF i \in Others THEN out[i] ELSE result[i]]
       /\ first' = [i \in Instances |->
                      IF i \in Others THEN FirstOf(i, out[i]) ELSE first[i]]
  /\ ran' = ran \cup Others
  /\ pc' = "phase2"
  /\ UNCHANGED <<disk, setup, dbg, cor, dbgLeft, corLeft, todo, back, unsaved,
                 lives, before, rewrites, opened, calls>>

\* Crashes come first, and only they are run again.
Phase2Debug ==
  /\ pc = "phase2" /\ Failing(Live) # {}
  /\ SpendDebug /\ Correction(Failing(Live))

\* Mutant of CorrectionDue: a crash that cannot be debugged any more stops
\* the corrections too.
CorrectionDueNoCrash == Failing(Live) = {} /\ Incorrect(Live) # {}

CorrectionDue == (Failing(Live) = {} \/ dbgLeft = 0) /\ Incorrect(Live) # {}

\* Other failures: everything is run again, to see regressions.
Phase2Correct ==
  /\ pc = "phase2" /\ CorrectionDue
  /\ SpendCorrection /\ Correction(Live)

Phase2Ends ==
  /\ pc = "phase2"
  /\ Failing(Live) = {} \/ dbgLeft = 0
  /\ ~ (CorrectionDue /\ corLeft > 0)
  /\ unsaved' = Live /\ pc' = "flush"
  /\ UNCHANGED <<disk, setup, work, history>>

-----------------------------------------------------------------------------
(* Rows are written one by one, the gate's first; frozen ones never. *)

\* Mutant of Flush: in any order.
FlushAnyOrder ==
  /\ pc = "flush"
  /\ \E i \in unsaved : SaveRow(i) /\ unsaved' = unsaved \ {i}
  /\ UNCHANGED <<code, attempts, pc, setup, work, history>>

Flush ==
  /\ pc = "flush"
  /\ \E i \in IF gate \in unsaved THEN {gate} ELSE unsaved :
       SaveRow(i) /\ unsaved' = unsaved \ {i}
  /\ UNCHANGED <<code, attempts, pc, setup, work, history>>

Finish ==
  /\ pc = "flush" /\ unsaved = {}
  /\ pc' = "idle"
  /\ UNCHANGED <<disk, setup, work, unsaved, history>>

\* The invocation is killed; memory is lost.
Kill ==
  /\ pc # "idle"
  /\ pc' = "idle" /\ unsaved' = {}
  /\ UNCHANGED <<disk, setup, work, history>>

Step ==
  \/ Generate \/ GenerateFails \/ PreJudge \/ RunGate \/ Rerun
  \/ Phase0Debug \/ Phase0Ends
  \/ Phase1Correct \/ GateFails \/ GatePasses
  \/ RunOthers \/ Phase2Debug \/ Phase2Correct \/ Phase2Ends
  \/ Flush \/ Finish

Next == Start \/ Step \/ Kill

Spec == Init /\ [][Next]_vars

-----------------------------------------------------------------------------
(* Properties. *)

\* Types, and what the sets of instances are part of.
TypeOK ==
  /\ code \in BOOLEAN /\ attempts \subseteq Nat /\ IsFiniteSet(attempts)
  /\ \A i \in Instances :
       /\ rows[i].res \in Results \cup {None}
       /\ rows[i].first \in Results \cup {None}
       /\ result[i] \in Results \cup {None} /\ first[i] \in Results \cup {None}
  /\ pc \in {"idle", "generate", "judge", "phase0", "phase1", "others",
             "phase2", "rerun", "flush"}
  /\ frozen \subseteq asked /\ todo \subseteq asked /\ unsaved \subseteq asked
  /\ asked \subseteq Instances /\ gate \in Instances
  /\ before \subseteq Instances /\ rewrites \in BOOLEAN /\ ran \subseteq asked
  /\ dbgLeft \in 0 .. MaxDebug /\ corLeft \in 0 .. MaxCorrect

\* With --reuse-code incomplete, what earlier invocations have recorded is
\* neither executed again nor rewritten ("CSV-done instances are then
\* frozen: skipped from every re-run path and from flush_results"), and in
\* the other modes a gate row that is taken from the CSV is not ("Tiny is
\* frozen (not re-run / not re-flushed)").
RecordedIsFrozen ==
  [][pc # "idle" =>
       LET kept == IF mode = "incomplete" THEN before ELSE frozen IN
         /\ kept \cap ran' = {}
         /\ \A i \in kept : rows'[i] = rows[i]]_vars

\* An invocation gives up on a failure only when nothing is left of the
\* budget for its kind, though both kinds draw on the same loop.
GivesUpWhenSpent ==
  pc = "flush" /\ ran # {} =>
    /\ opened => /\ Failing(Live) # {} => dbgLeft = 0
                 /\ Incorrect(Live) # {} => corLeft = 0
    /\ ~ opened => ~ GateCanBeCorrected

\* Rows that say the gate failed never stand beside a row in which it
\* passed, nor without one, wherever invocations are killed, as long as none
\* sets out to write recorded rows again.
GateRowsAgree ==
  ~ rewrites =>
    \A i \in Large : rows[i].res = "gate_fail" =>
      rows[Tiny].res \notin {None, "pass"}

\* "Preserve the original v0 results in the CSV": with reused code, the
\* first result of an instance stays what it was.
FirstResultsKept ==
  [][pc # "idle" /\ mode # "none" => \A i \in Instances :
       rows[i].first # None => rows'[i].first = rows[i].first]_vars

\* "Prev counts recovered earlier are deducted from each budget so the
\* current run picks up where the previous one stopped": over all
\* invocations, the model is asked to debug no more often than one may.
BudgetContinues == calls.debug <= MaxDebug

\* "Per-run invariant: only one of {debug, correction} is non-zero in any
\* single run."
OneKindPerRun == dbg = 0 \/ cor = 0

=============================================================================
