----------------------------- MODULE ResultsCsv -----------------------------
(***************************************************************************)
(* A CSV file shared by the threads of several one_shot_eval.py processes: *)
(* eval_results.csv, whose rows are replaced (write_result_row), or        *)
(* one_shot_api_cost.csv, whose rows are added to (write_api_cost_row).    *)
(* A writer reads the whole file, truncates it and writes it again, under  *)
(* the lock of the module and an flock on a file beside it.                *)
(*                                                                         *)
(* A row is its key and one number.  The order of the rows, which only a   *)
(* writer that is killed or raises lets one see, is left out: what such a  *)
(* writer has flushed is any part of the rows it keeps, torn lines apart.  *)
(***************************************************************************)
EXTENDS Naturals, FiniteSets

CONSTANTS
  Threads,     \* threads that use the file
  Procs,       \* processes they belong to
  ProcOf,      \* thread -> its process
  Keys,        \* keys of rows
  Amounts,     \* numbers a call may bring
  Accumulate,  \* the file is the one of costs
  MaxCalls,    \* bound on the calls of a thread (the model's)
  MaxLosses    \* bound on killed processes and failed calls (the model's)

NoThread == "none"

ASSUME CsvAssumption ==
  /\ ProcOf \in [Threads -> Procs]
  /\ Amounts \subseteq Nat /\ Accumulate \in BOOLEAN /\ MaxCalls \in Nat
  /\ MaxLosses \in Nat
  /\ NoThread \notin Threads

VARIABLES
  csv_lock,  \* _csv_lock of each process: the thread that holds it
  flock,     \* the thread that holds the lock file
  created,   \* the file exists
  file,      \* its rows
  stage, call,
  loaded,    \* the rows a thread has read: existing_rows and its own
  seen,      \* what a reader has returned
  begun,     \* calls so far
  done,      \* writes that have closed the file
  losses     \* processes killed and calls that have raised so far

locks == <<csv_lock, flock>>
csvVars ==
  <<locks, created, file, stage, call, loaded, seen, begun, done, losses>>

Rows == [key : Keys, val : Nat]
Reading == [op |-> "read", key |-> NoThread, val |-> 0]
Writing(k, v) == [op |-> "write", key |-> k, val |-> v]
Calls == {Reading} \cup {Writing(k, v) : k \in Keys, v \in Amounts}

CsvInit ==
  /\ csv_lock = [p \in Procs |-> NoThread] /\ flock = NoThread
  /\ created = FALSE /\ file = {}
  /\ stage = [t \in Threads |-> "idle"]
  /\ call = [t \in Threads |-> Reading]
  /\ loaded = [t \in Threads |-> {}]
  /\ seen = [t \in Threads |-> {}]
  /\ begun = [t \in Threads |-> 0] /\ done = [t \in Threads |-> 0]
  /\ losses = 0

Begin(t, c) ==
  /\ stage[t] = "idle" /\ begun[t] < MaxCalls
  /\ call' = [call EXCEPT ![t] = c]
  /\ begun' = [begun EXCEPT ![t] = @ + 1]

\* write_result_row, write_api_cost_row.
BeginWrite(t) ==
  /\ \E k \in Keys, v \in Amounts : Begin(t, Writing(k, v))
  /\ stage' = [stage EXCEPT ![t] = "lock"]
  /\ UNCHANGED <<locks, created, file, loaded, seen, done, losses>>

\* The readers of the results look for the file before they take the lock.
BeginRead(t) ==
  /\ ~ Accumulate
  /\ Begin(t, Reading)
  /\ IF created
       THEN stage' = [stage EXCEPT ![t] = "lock"] /\ seen' = seen
       ELSE stage' = stage /\ seen' = [seen EXCEPT ![t] = {}]
  /\ UNCHANGED <<locks, created, file, loaded, done, losses>>

\* with _csv_lock
LockThread(t) ==
  /\ stage[t] = "lock" /\ csv_lock[ProcOf[t]] = NoThread
  /\ csv_lock' = [csv_lock EXCEPT ![ProcOf[t]] = t]
  /\ stage' = [stage EXCEPT ![t] = "flock"]
  /\ UNCHANGED <<flock, created, file, call, loaded, seen, begun, done, losses>>

\* Mutant of LockFile: without fcntl.flock.
LockFileNever(t) ==
  /\ stage[t] = "flock"
  /\ flock' = t
  /\ stage' = [stage EXCEPT ![t] = "load"]
  /\ UNCHANGED <<csv_lock, created, file, call, loaded, seen, begun, done, losses>>

\* flock(LOCK_EX): it waits while another holds it.
LockFile(t) ==
  /\ stage[t] = "flock" /\ flock = NoThread
  /\ flock' = t
  /\ stage' = [stage EXCEPT ![t] = "load"]
  /\ UNCHANGED <<csv_lock, created, file, call, loaded, seen, begun, done, losses>>

Load(t) ==
  /\ stage[t] = "load"
  /\ IF call[t].op = "read"
       THEN /\ stage' = [stage EXCEPT ![t] = "unlock"]
            /\ seen' = [seen EXCEPT ![t] = file] /\ loaded' = loaded
       ELSE /\ stage' = [stage EXCEPT ![t] = "loaded"]
            /\ loaded' = [loaded EXCEPT ![t] = file] /\ seen' = seen
  /\ UNCHANGED <<locks, created, file, call, begun, done, losses>>

\* existing_rows
Kept(t) == {r \in loaded[t] : r.key # call[t].key}

Former(t) == {r.val : r \in {q \in loaded[t] : q.key = call[t].key}}

\* Mutant of NewRow: the costs on record are lost.
NewRowFresh(t) == [key |-> call[t].key, val |-> call[t].val]

\* new_row: the costs of this call are added to those on record.
NewRow(t) ==
  [key |-> call[t].key,
   val |-> IF Accumulate /\ Former(t) # {}
             THEN (CHOOSE n \in Former(t) : TRUE) + call[t].val
             ELSE call[t].val]

\* open(csv_path, "w")
Truncate(t) ==
  /\ stage[t] = "loaded"
  /\ created' = TRUE /\ file' = {}
  /\ stage' = [stage EXCEPT ![t] = "rewrite"]
  /\ UNCHANGED <<locks, call, loaded, seen, begun, done, losses>>

\* The buffer of the writer is flushed when it is full ...
Rewrite(t) ==
  /\ stage[t] = "rewrite"
  /\ \E some \in SUBSET (Kept(t) \ file) : some # {} /\ file' = file \cup some
  /\ UNCHANGED <<locks, created, stage, call, loaded, seen, begun, done, losses>>

\* ... and when the file is closed.
Close(t) ==
  /\ stage[t] = "rewrite"
  /\ file' = Kept(t) \cup {NewRow(t)}
  /\ done' = [done EXCEPT ![t] = @ + 1]
  /\ stage' = [stage EXCEPT ![t] = "unlock"]
  /\ UNCHANGED <<locks, created, call, loaded, seen, begun, losses>>

\* Mutant of UnlockFile: the lock file stays locked.
UnlockFileNever(t) ==
  /\ stage[t] = "unlock"
  /\ stage' = [stage EXCEPT ![t] = "leave"]
  /\ UNCHANGED <<locks, created, file, call, loaded, seen, begun, done, losses>>

UnlockFile(t) ==
  /\ stage[t] = "unlock"
  /\ flock' = NoThread
  /\ stage' = [stage EXCEPT ![t] = "leave"]
  /\ UNCHANGED <<csv_lock, created, file, call, loaded, seen, begun, done, losses>>

UnlockThread(t) ==
  /\ stage[t] = "leave"
  /\ csv_lock' = [csv_lock EXCEPT ![ProcOf[t]] = NoThread]
  /\ stage' = [stage EXCEPT ![t] = "idle"]
  /\ UNCHANGED <<flock, created, file, call, loaded, seen, begun, done, losses>>

\* The read, or what is computed from it, or a write raises: the file is closed
\* with what its buffer held, and both locks are given back.
CallRaises(t) ==
  /\ stage[t] \in {"load", "loaded", "rewrite"}
  /\ losses < MaxLosses /\ losses' = losses + 1
  /\ stage' = [stage EXCEPT ![t] = "unlock"]
  /\ \/ UNCHANGED file
     \/ /\ stage[t] = "rewrite"
        /\ \E some \in SUBSET Kept(t) : file' = file \cup some
  /\ UNCHANGED <<locks, created, call, loaded, seen, begun, done>>

\* A process is killed; the system frees its flock, a successor starts.
KillProcess(p) ==
  LET dead == {t \in Threads : ProcOf[t] = p} IN
  /\ losses < MaxLosses /\ losses' = losses + 1
  /\ \E t \in dead : stage[t] # "idle"
  /\ stage' = [t \in Threads |-> IF t \in dead THEN "idle" ELSE stage[t]]
  /\ csv_lock' = [csv_lock EXCEPT ![p] = NoThread]
  /\ flock' = IF flock \in dead THEN NoThread ELSE flock
  /\ UNCHANGED <<created, file, call, loaded, seen, begun, done>>

StepOf(t) ==
  \/ LockThread(t) \/ LockFile(t) \/ Load(t) \/ Truncate(t)
  \/ Rewrite(t) \/ Close(t) \/ UnlockFile(t) \/ UnlockThread(t)

CsvNext == \/ \E t \in Threads : BeginWrite(t) \/ BeginRead(t) \/ StepOf(t)
                                 \/ CallRaises(t)
           \/ \E p \in Procs : KillProcess(p)

CsvSpec == CsvInit /\ [][CsvNext]_csvVars

\* Threads are scheduled.  The locks are no queues, but the calls of an
\* invocation are finitely many, so that a thread gets its turn at last.
FairCsvSpec == CsvSpec /\ \A t \in Threads : WF_csvVars(StepOf(t))

-----------------------------------------------------------------------------
(* Properties. *)

\* Types of the file, the locks and the calls.
CsvTypeOK ==
  /\ csv_lock \in [Procs -> Threads \cup {NoThread}]
  /\ flock \in Threads \cup {NoThread}
  /\ created \in BOOLEAN /\ file \subseteq Rows
  /\ stage \in [Threads -> {"idle", "lock", "flock", "load", "loaded",
                         "rewrite", "unlock", "leave"}]
  /\ call \in [Threads -> Calls]
  /\ loaded \in [Threads -> SUBSET Rows] /\ seen \in [Threads -> SUBSET Rows]
  /\ begun \in [Threads -> Nat] /\ done \in [Threads -> Nat]
  /\ losses \in Nat

\* A thread between flock and unlock holds both locks, and until it truncates
\* the file, the file is what it has read; then it is a part of what is kept.
Inside(t) == stage[t] \in {"load", "loaded", "rewrite", "unlock"}

OneInside ==
  \A t \in Threads :
    /\ Inside(t) <=> flock = t
    /\ Inside(t) \/ stage[t] \in {"flock", "leave"} <=> csv_lock[ProcOf[t]] = t
    /\ stage[t] = "loaded" => file = loaded[t]
    /\ stage[t] = "rewrite" => file \subseteq Kept(t) /\ created
    /\ stage[t] \in {"loaded", "rewrite"} => call[t].op = "write"

\* No two rows have the same key, after kills and failures also.
Unique(T) == \A r, q \in T : r.key = q.key => r = q

OneRowPerKey == Unique(file)

\* "Both together make the read-modify-write atomic under any mix": the file
\* is a table whose rows are replaced one at a time, and whose rows only a
\* kill, or a write that raises, can take away.  While a writer rewrites it, the table is what that
\* writer has read.
Table ==
  IF flock # NoThread /\ stage[flock] = "rewrite" THEN loaded[flock] ELSE file

RT == INSTANCE RowTable WITH table <- Table

Atomic == RT!Spec

\* A call that has begun returns, also after another process was killed with
\* the locks in its hands, or another call raised under them.
CallsReturn == \A t \in Threads : stage[t] # "idle" ~> stage[t] = "idle"

\* "Write (or overwrite) a single instance result row", and rows that exist
\* "stay untouched": whatever stops a process or a call, a key keeps its row.
RowsStay ==
  [][\A k \in Keys : (\E r \in Table : r.key = k) =>
                        \E r \in Table' : r.key = k]_csvVars

=============================================================================
