------------------------------ MODULE RowTable ------------------------------
(***************************************************************************)
(* What the CSV files of one_shot_eval.py promise to the threads and       *)
(* processes that share one: a table in which a call replaces one row, or  *)
(* adds to it, and from which a call takes everything at once.  Nothing    *)
(* but the death of a process, or a call that raises, takes rows away.     *)
(***************************************************************************)
EXTENDS Naturals

CONSTANTS
  Threads,     \* callers
  Keys,        \* (paper, model, instance), or (paper, model)
  Amounts,     \* numbers a call may bring
  Accumulate   \* a row is added to, not replaced

VARIABLES
  table,   \* set of rows [key, val]
  seen,    \* what each caller last read
  done,    \* writes of each caller that are in the table
  losses   \* processes that were killed and calls that have raised

Amount(T, k) == {r.val : r \in {q \in T : q.key = k}}

\* The row of k becomes v, or grows by v.
Row(T, k, v) ==
  [key |-> k,
   val |-> IF Accumulate /\ Amount(T, k) # {}
             THEN (CHOOSE n \in Amount(T, k) : TRUE) + v ELSE v]

With(T, k, v) == {r \in T : r.key # k} \cup {Row(T, k, v)}

Init ==
  /\ table = {} /\ seen = [t \in Threads |-> {}]
  /\ done = [t \in Threads |-> 0] /\ losses = 0

Write(t) ==
  /\ \E k \in Keys, v \in Amounts : table' = With(table, k, v)
  /\ done' = [done EXCEPT ![t] = @ + 1]
  /\ UNCHANGED <<seen, losses>>

Read(t) ==
  /\ seen' = [seen EXCEPT ![t] = table]
  /\ UNCHANGED <<table, done, losses>>

\* A process dies, or a call fails, and with it the rows that it was about to
\* write again.
Lose ==
  /\ table' \in SUBSET table
  /\ losses' = losses + 1
  /\ UNCHANGED <<seen, done>>

Next == Lose \/ \E t \in Threads : Write(t) \/ Read(t)

Spec == Init /\ [][Next]_<<table, seen, done, losses>>

=============================================================================
