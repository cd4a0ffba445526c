-------------------------- MODULE EvalBrokerProofs --------------------------
(***************************************************************************)
(* Proofs about EvalBroker, for any agents, commits, requests, budget and  *)
(* number of resumed runs.  IInv is the inductive invariant: the checks of *)
(* `Decide' stay true until `WriteAttempt' acts on them because nobody but *)
(* the drain adds an attempt, and the grader only ends a pending one.      *)
(*                                                                         *)
(* The last part is about the other service that agents call through the   *)
(* shim, the debug executions (module DebugRunner).                        *)
(***************************************************************************)
EXTENDS EvalBroker, DebugRunner, FiniteSetTheorems, TLAPS

-----------------------------------------------------------------------------
(* Type correctness.                                                       *)

\* Past `Decide' the decision in hand is a decision.
DecisionKnown == phase \in Handling \ {"decide"} => decision \in Decision

TypeInv == TypeOK /\ DecisionKnown

LEMMA DecisionTypes ==
  /\ \A r \in Reason, c \in Commits \cup {NoCommit}, b \in BOOLEAN :
       [accepted |-> b, reason |-> r, waiting |-> c] \in Decision
  /\ \A d \in Decision : /\ d.accepted \in BOOLEAN
                         /\ d.waiting \in Commits \cup {NoCommit}
  BY DEF Decision

LEMMA InitTypeInv == Init => TypeInv
  BY BrokerAssumption
  DEF Init, TypeInv, TypeOK, DecisionKnown, Status, Phase, Handling, Used,
      NoRequest, ShimPC

LEMMA FreshNonceUnused ==
  ASSUME Used # Nonces
  PROVE  FreshNonce \in Nonces /\ FreshNonce \notin Used
<1>1. \E n \in Nonces : n \notin Used
  BY DEF Used
<1> QED
  BY <1>1, Zenon DEF FreshNonce

\* A step of a shim keeps the types.
LEMMA ShimTypeInv ==
  ASSUME TypeInv, NEW a \in Agents, Shim(a)
  PROVE  TypeInv'
<1> USE DEF TypeInv, TypeOK, DecisionKnown, fileVars, gitVars, hostVars, Used,
        ShimPC
<1>1. CASE SubmitStart(a)
  BY <1>1 DEF SubmitStart, PendingOf
<1>2. CASE Commit(a)
  BY <1>2 DEF Commit
<1>3. CASE Enqueue(a)
  <2>1. FreshNonce \in Nonces /\ FreshNonce \notin Used
    BY <1>3, FreshNonceUnused DEF Enqueue
  <2> QED
    BY <1>3, <2>1, BrokerAssumption DEF Enqueue, Request, NoRequest
<1>4. CASE Leave(a)
  BY <1>4 DEF Leave
<1>5. CASE PollResponse(a) /\ ~Leave(a)
  <2>1. Answer(a) \in Decision \cup {NoDecision}
    BY DEF Answer
  <2> QED
    BY <1>5, <2>1, DecisionTypes DEF PollResponse, Refused
<1>6. CASE PollResult(a) /\ ~Leave(a)
  BY <1>6 DEF PollResult
<1> QED
  BY <1>1, <1>2, <1>3, <1>4, <1>5, <1>6 DEF Shim, GiveUp, Kill

\* A step of the supervisor keeps the types.
LEMMA HostTypeInv ==
  ASSUME TypeInv, Host
  PROVE  TypeInv'
<1> USE DEF TypeInv, TypeOK, DecisionKnown, fileVars, gitVars, hostVars,
        shimVars, Used, Phase, Handling, DiskUnchanged
<1>1. CASE DrainStart
  <2>1. Cardinality(Attempted) \in Nat
    BY BrokerAssumption, FS_Subset, FS_CardinalityType DEF Attempted
  <2> QED
    BY <1>1, <2>1 DEF DrainStart
<1>2. CASE PickRequest
  BY <1>2 DEF PickRequest
<1>3. CASE Decide
  <2>1. ASSUME NEW r \in Reason, NEW c \in Commits \cup {NoCommit},
               Refuse(r, c)
        PROVE  decision' \in Decision /\ phase' = "respond"
    <3>1. [accepted |-> FALSE, reason |-> r, waiting |-> c] \in Decision
      BY <2>1, DecisionTypes
    <3> QED
      BY <2>1, <3>1 DEF Refuse
  <2>4. "accepted" \in Reason
    BY DEF Reason
  <2>5. [accepted |-> TRUE, reason |-> "accepted", waiting |-> NoCommit]
          \in Decision
    BY <2>4, DecisionTypes
  <2>2. \A ag : PendingOf(ag) \subseteq Commits
    BY DEF PendingOf
  <2>3. decision' \in Decision /\ phase' \in {"respond", "attempt"}
    BY <1>3, <2>1, <2>2, <2>5 DEF Decide, Accept, Reason
  <2> QED
    BY <1>3, <2>3 DEF Decide
<1>4. CASE WriteAttempt
  BY <1>4 DEF WriteAttempt, Request, NoRequest, Status
<1>5. CASE WriteResponse
  BY <1>5 DEF WriteResponse
<1>6. CASE AppendAudit
  BY <1>6 DEF AppendAudit, Decision
<1>7. CASE WriteArchive
  BY <1>7 DEF WriteArchive, Decision
<1>8. CASE Unlink
  BY <1>8 DEF Unlink
<1>9. CASE LoopEnd
  BY <1>9 DEF LoopEnd
<1>10. CASE StopRun
  BY <1>10 DEF StopRun, ShimPC
<1> QED
  BY <1>1, <1>2, <1>3, <1>4, <1>5, <1>6, <1>7, <1>8, <1>9, <1>10 DEF Host

LEMMA NextTypeInv == TypeInv /\ [Next]_vars => TypeInv'
<1> SUFFICES ASSUME TypeInv, [Next]_vars PROVE TypeInv'
  OBVIOUS
<1> USE DEF TypeInv, TypeOK, DecisionKnown, fileVars, gitVars, hostVars,
        shimVars, Used, Phase, Handling, DiskUnchanged
<1>1. CASE \E a \in Agents : Shim(a)
  BY <1>1, ShimTypeInv
<1>2. CASE \E c \in Commits : Grade(c)
  BY <1>2 DEF Grade, Status
<1>3. CASE Host
  BY <1>3, HostTypeInv
<1>4. CASE Crash
  BY <1>4 DEF Crash, HalfHandled
<1>5. CASE Resume
  BY <1>5 DEF Resume
<1>6. CASE UNCHANGED vars
  BY <1>6 DEF vars
<1> QED
  BY <1>1, <1>2, <1>3, <1>4, <1>5, <1>6 DEF Next, Terminated

\* The files, the supervisor's memory and the shims keep their types: among
\* them, a request in hand is still in the inbox, and a shim past its commit
\* knows what it waits for.
THEOREM TypeCorrect == Spec => []TypeOK
<1>1. TypeInv => TypeOK
  BY DEF TypeInv
<1> QED
  BY <1>1, InitTypeInv, NextTypeInv, PTL DEF Spec

-----------------------------------------------------------------------------
(* What a step that is not the drain's leaves alone.                       *)

LEMMA ShimFrame ==
  ASSUME TypeInv, NEW a \in Agents, Shim(a)
  PROVE  /\ UNCHANGED <<status, owner, creator, responses, audit, archive>>
         /\ UNCHANGED hostVars
         /\ \A n \in Used : sent'[n] = sent[n]
         /\ Used \subseteq Used'
         /\ Used' \ inbox' = Used \ inbox
         /\ inbox \subseteq inbox'
<1> USE DEF fileVars, Used
<1>1. CASE Enqueue(a)
  <2>1. FreshNonce \in Nonces /\ FreshNonce \notin Used
    BY <1>1, FreshNonceUnused DEF Enqueue
  <2> QED
    BY <1>1, <2>1, BrokerAssumption
    DEF Enqueue, TypeInv, TypeOK, Request, NoRequest
<1> QED
  BY <1>1 DEF Shim, SubmitStart, Commit, PollResponse, PollResult, GiveUp,
              Kill, Leave

LEMMA AttemptedFinite ==
  ASSUME TypeOK
  PROVE  IsFiniteSet(Attempted) /\ Cardinality(Attempted) \in Nat
  BY BrokerAssumption, FS_Subset, FS_CardinalityType DEF Attempted

LEMMA GradeFrame ==
  ASSUME TypeOK, NEW c \in Commits, Grade(c)
  PROVE  /\ UNCHANGED <<owner, creator, sent, inbox, responses, audit, archive>>
         /\ UNCHANGED hostVars
         /\ \A d \in Commits : status[d] # "none" <=> status'[d] # "none"
         /\ Attempted' = Attempted
         /\ \A ag : PendingOf(ag)' \subseteq PendingOf(ag)
<1>1. \A d \in Commits : status[d] # "none" <=> status'[d] # "none"
  BY BrokerAssumption DEF Grade, TypeOK
<1>2. \A d \in Commits : status'[d] = "pending" => status[d] = "pending"
  BY BrokerAssumption DEF Grade, TypeOK
<1> QED
  BY <1>1, <1>2 DEF Grade, Attempted, PendingOf

\* The record a request is admitted with is one more attempt.
LEMMA WriteAttemptFrame ==
  ASSUME TypeInv, WriteAttempt
  PROVE  /\ sent[cur] \in Request
         /\ status' = [status EXCEPT ![sent[cur].commit] = "pending"]
         /\ owner' = [owner EXCEPT ![sent[cur].commit] = sent[cur].agent]
         /\ Attempted' = Attempted \cup {sent[cur].commit}
<1>1. sent[cur] \in Request
  BY DEF TypeInv, TypeOK, Handling, Used, WriteAttempt
<1>2. sent[cur].commit \in Commits
  BY <1>1 DEF Request
<1>3. \A d \in Commits : status'[d] = IF d = sent[cur].commit THEN "pending"
                                      ELSE status[d]
  BY <1>2 DEF WriteAttempt, TypeInv, TypeOK
<1> QED
  BY <1>1, <1>2, <1>3 DEF WriteAttempt, Attempted

-----------------------------------------------------------------------------
(* Admission: the budget, and one pending attempt per agent.               *)

\* accepted_count, read once per drain, stays the number of attempts.
CountExact ==
  phase \in Handling \cup {"pick"} => accepted = Cardinality(Attempted)

\* What `Decide' established still holds when the record is written.
AdmissionStillLegal ==
  phase = "attempt" =>
    /\ accepted < MaxAttempts
    /\ status[sent[cur].commit] = "none"
    /\ PendingOf(sent[cur].agent) = {}

AdmissionInv == /\ CountExact
                /\ AdmissionStillLegal
                /\ BudgetRespected
                /\ OnePendingPerAgent

LEMMA InitAdmission == Init => AdmissionInv
<1> SUFFICES ASSUME Init PROVE AdmissionInv
  OBVIOUS
<1>1. Attempted = {}
  BY DEF Init, Attempted
<1> QED
  BY <1>1, FS_EmptySet, BrokerAssumption
  DEF Init, AdmissionInv, CountExact, AdmissionStillLegal, BudgetRespected,
      OnePendingPerAgent, Handling

\* A step that changes no record, and does not enter the admission path.
LEMMA QuietAdmission ==
  ASSUME TypeInv, AdmissionInv, UNCHANGED <<status, owner>>,
         phase' = "attempt" => /\ phase = "attempt"
                               /\ cur' = cur /\ sent'[cur] = sent[cur],
         phase' \in Handling \cup {"pick"} =>
           accepted' = accepted /\ phase \in Handling \cup {"pick"}
  PROVE  AdmissionInv'
<1>1. Attempted' = Attempted /\ \A ag : PendingOf(ag)' = PendingOf(ag)
  BY DEF Attempted, PendingOf
<1>2. CountExact'
  BY <1>1 DEF AdmissionInv, CountExact
<1>3. AdmissionStillLegal'
  BY <1>1 DEF AdmissionInv, AdmissionStillLegal, Handling
<1>4. BudgetRespected' /\ OnePendingPerAgent'
  BY <1>1 DEF AdmissionInv, BudgetRespected, OnePendingPerAgent
<1> QED
  BY <1>2, <1>3, <1>4 DEF AdmissionInv

LEMMA NextAdmission == TypeInv /\ AdmissionInv /\ [Next]_vars => AdmissionInv'
<1> SUFFICES ASSUME TypeInv, AdmissionInv, [Next]_vars PROVE AdmissionInv'
  OBVIOUS
<1> USE DEF fileVars, hostVars
<1>1. ASSUME NEW a \in Agents, Shim(a) PROVE AdmissionInv'
  <2>1. phase \in Handling => cur \in Used
    BY DEF TypeInv, TypeOK
  <2> QED
    BY <1>1, <2>1, ShimFrame, QuietAdmission DEF Handling
<1>2. ASSUME NEW c \in Commits, Grade(c) PROVE AdmissionInv'
  <2>1. /\ UNCHANGED <<owner, sent, phase, cur, accepted>>
        /\ \A d \in Commits : status[d] # "none" <=> status'[d] # "none"
        /\ Attempted' = Attempted
        /\ \A ag : PendingOf(ag)' \subseteq PendingOf(ag)
    BY <1>2, GradeFrame DEF TypeInv
  <2>2. CountExact' /\ BudgetRespected'
    BY <2>1 DEF AdmissionInv, CountExact, BudgetRespected
  <2>3. phase = "attempt" => sent[cur].commit \in Commits
    BY DEF TypeInv, TypeOK, Handling, Used, Request
  <2>4. AdmissionStillLegal'
    BY <2>1, <2>3 DEF AdmissionInv, AdmissionStillLegal
  <2>5. \A d \in Commits : status'[d] = "pending" => status[d] = "pending"
    BY <1>2, BrokerAssumption DEF Grade, TypeInv, TypeOK
  <2>6. OnePendingPerAgent'
    BY <2>1, <2>5 DEF AdmissionInv, OnePendingPerAgent
  <2> QED
    BY <2>2, <2>4, <2>6 DEF AdmissionInv
<1>3. CASE DrainStart
  <2>1. Attempted' = Attempted
    BY <1>3 DEF DrainStart, DiskUnchanged, Attempted
  <2> QED
    BY <1>3, <2>1
    DEF DrainStart, DiskUnchanged, AdmissionInv, CountExact,
        AdmissionStillLegal, BudgetRespected, OnePendingPerAgent, Handling
<1>4. CASE Decide
  <2>1. /\ Attempted' = Attempted /\ UNCHANGED <<status, owner, sent, cur, accepted>>
        /\ \A ag : PendingOf(ag)' = PendingOf(ag)
    BY <1>4 DEF Decide, DiskUnchanged, Attempted, PendingOf
  <2>2. CountExact' /\ BudgetRespected' /\ OnePendingPerAgent'
    BY <1>4, <2>1 DEF Decide, Refuse, Accept, AdmissionInv, CountExact,
                      BudgetRespected,
                      OnePendingPerAgent, Handling
  <2>3. AdmissionStillLegal'
    BY <1>4, <2>1 DEF Decide, Refuse, Accept, AdmissionStillLegal
  <2> QED
    BY <2>2, <2>3 DEF AdmissionInv
<1>5. CASE WriteAttempt
  <2> DEFINE r == sent[cur]
  <2>1. /\ r \in Request
        /\ status' = [status EXCEPT ![r.commit] = "pending"]
        /\ owner' = [owner EXCEPT ![r.commit] = r.agent]
        /\ Attempted' = Attempted \cup {r.commit}
    BY <1>5, WriteAttemptFrame
  <2>2. r.commit \in Commits /\ r.agent \in Agents
    BY <2>1 DEF Request
  <2>3. /\ accepted = Cardinality(Attempted) /\ accepted < MaxAttempts
        /\ status[r.commit] = "none" /\ PendingOf(r.agent) = {}
    BY <1>5 DEF WriteAttempt, AdmissionInv, CountExact, AdmissionStillLegal,
                Handling
  <2>4. r.commit \notin Attempted
    BY <2>3 DEF Attempted
  <2>5. Cardinality(Attempted') = Cardinality(Attempted) + 1
    BY <2>1, <2>4, AttemptedFinite, FS_AddElement DEF TypeInv
  <2>6. accepted \in Nat /\ MaxAttempts \in Nat
    BY BrokerAssumption DEF TypeInv, TypeOK
  <2>7. CountExact' /\ AdmissionStillLegal' /\ BudgetRespected'
    BY <1>5, <2>3, <2>5, <2>6
    DEF WriteAttempt, CountExact, AdmissionStillLegal, BudgetRespected
  <2>8. OnePendingPerAgent'
    <3>1. \A d \in Commits : status[d] = "pending" => owner[d] # r.agent
      BY <2>3 DEF PendingOf
    <3>2. \A d \in Commits \ {r.commit} :
            status'[d] = status[d] /\ owner'[d] = owner[d]
      BY <2>1
    <3>3. owner'[r.commit] = r.agent
      BY <2>1, <2>2 DEF TypeInv, TypeOK
    <3> QED
      BY <3>1, <3>2, <3>3 DEF AdmissionInv, OnePendingPerAgent
  <2> QED
    BY <2>7, <2>8 DEF AdmissionInv
<1>6. CASE Host /\ ~DrainStart /\ ~Decide /\ ~WriteAttempt
  BY <1>6, QuietAdmission
  DEF Host, PickRequest, WriteResponse, AppendAudit, WriteArchive, Unlink,
      LoopEnd, StopRun, DiskUnchanged, Handling
<1>7. CASE Crash \/ Resume
  BY <1>7, QuietAdmission DEF Crash, Resume, DiskUnchanged, Handling
<1>8. CASE UNCHANGED vars
  BY <1>8, QuietAdmission DEF vars
<1> QED
  BY <1>1, <1>2, <1>3, <1>4, <1>5, <1>6, <1>7, <1>8 DEF Next, Terminated

\* At every moment of every run, however often it is resumed: the budget of
\* attempts is respected and no agent has two attempts pending.
THEOREM BudgetAndSinglePending ==
  Spec => [](BudgetRespected /\ OnePendingPerAgent)
<1>1. AdmissionInv => BudgetRespected /\ OnePendingPerAgent
  BY DEF AdmissionInv
<1> QED
  BY <1>1, InitTypeInv, NextTypeInv, InitAdmission, NextAdmission, PTL DEF Spec

-----------------------------------------------------------------------------
(* Records: what is answered, audited and archived is backed by an attempt. *)

\* The attempt that request n was admitted with is on disk.
Backed(n) == /\ n \in Used
             /\ status[sent[n].commit] # "none"
             /\ owner[sent[n].commit] = sent[n].agent
             /\ creator[sent[n].commit] = n

AnswersBacked ==
  \A n \in Nonces : responses[n] # NoDecision =>
    n \in Used /\ (responses[n].accepted => Backed(n))

AuditBacked == \A n \in Nonces : TRUE \in audit[n] => Backed(n)

Decided == {"respond", "audit", "archive", "unlink"}

DecisionBacked == phase \in Decided /\ decision.accepted => Backed(cur)

\* The request in hand has behind it what its phase says it has.
CurrentRecorded ==
  /\ phase \in {"audit", "archive", "unlink"} => responses[cur] = decision
  /\ phase \in {"archive", "unlink"} => decision.accepted \in audit[cur]
  /\ phase = "unlink" => archive[cur] = {decision.accepted}

ArchiveAudited == \A n \in Nonces : archive[n] \subseteq audit[n]

RecordInv == /\ AnswersBacked
             /\ AuditBacked
             /\ DecisionBacked
             /\ CurrentRecorded
             /\ ArchiveAudited
             /\ NoRequestLost

LEMMA InitRecord == Init => RecordInv
  BY DEF Init, RecordInv, AnswersBacked, AuditBacked, DecisionBacked, Decided,
         CurrentRecorded, ArchiveAudited, NoRequestLost, Used

LEMMA RequestTypes ==
  ASSUME TypeInv, NEW n \in Used
  PROVE  sent[n] \in Request /\ sent[n].commit \in Commits /\ n \in Nonces
  BY DEF TypeInv, TypeOK, Used, Request

\* A record on disk is there for good, whatever happens next.
LEMMA BackedStable ==
  ASSUME TypeInv, AdmissionInv, [Next]_vars, NEW n, Backed(n)
  PROVE  Backed(n)'
<1>1. n \in Used /\ sent[n].commit \in Commits
  BY RequestTypes DEF Backed
<1> USE DEF fileVars
<1>2. ASSUME NEW a \in Agents, Shim(a) PROVE Backed(n)'
  <2>1. UNCHANGED <<status, owner, creator>> /\ sent'[n] = sent[n] /\ n \in Used'
    BY <1>1, <1>2, ShimFrame
  <2> QED
    BY <2>1 DEF Backed
<1>3. ASSUME NEW c \in Commits, Grade(c) PROVE Backed(n)'
  <2>1. /\ UNCHANGED <<owner, creator, sent>>
        /\ \A d \in Commits : status[d] # "none" <=> status'[d] # "none"
    BY <1>3, GradeFrame DEF TypeInv
  <2>2. Used' = Used
    BY <2>1 DEF Used
  <2> QED
    BY <1>1, <2>1, <2>2 DEF Backed
<1>4. CASE WriteAttempt
  <2>1. status[sent[cur].commit] = "none"
    BY <1>4 DEF WriteAttempt, AdmissionInv, AdmissionStillLegal
  <2>2. sent[n].commit # sent[cur].commit
    BY <2>1 DEF Backed
  <2>3. sent' = sent /\ Used' = Used
    BY <1>4 DEF WriteAttempt, Used
  <2> QED
    BY <1>1, <1>4, <2>2, <2>3 DEF WriteAttempt, Backed, TypeInv, TypeOK
<1>5. CASE UNCHANGED <<status, owner, creator, sent>>
  BY <1>5 DEF Backed, Used
<1> QED
  BY <1>2, <1>3, <1>4, <1>5
  DEF Next, Host, DrainStart, PickRequest, Decide, WriteResponse, AppendAudit,
      WriteArchive, Unlink, LoopEnd, StopRun, Crash, Resume, Terminated,
      DiskUnchanged, vars

\* A step that writes no answer, audit line or archive copy.
LEMMA QuietRecord ==
  ASSUME TypeInv, AdmissionInv, RecordInv, [Next]_vars,
         UNCHANGED <<responses, audit, archive>>,
         Used \subseteq Used', Used' \ inbox' = Used \ inbox,
         phase' \in Decided => UNCHANGED <<phase, cur, decision>>
  PROVE  RecordInv'
<1>1. \A n : Backed(n) => Backed(n)'
  BY BackedStable
<1>2. AnswersBacked' /\ AuditBacked'
  BY <1>1 DEF RecordInv, AnswersBacked, AuditBacked
<1>3. DecisionBacked'
  BY <1>1 DEF RecordInv, DecisionBacked
<1>4. CurrentRecorded' /\ ArchiveAudited'
  BY DEF RecordInv, CurrentRecorded, ArchiveAudited, Decided
<1>5. NoRequestLost'
  BY DEF RecordInv, NoRequestLost
<1> QED
  BY <1>2, <1>3, <1>4, <1>5 DEF RecordInv

LEMMA NextRecord ==
  TypeInv /\ AdmissionInv /\ RecordInv /\ [Next]_vars => RecordInv'
<1> SUFFICES ASSUME TypeInv, AdmissionInv, RecordInv, [Next]_vars
             PROVE  RecordInv'
  OBVIOUS
<1>1. \A n : Backed(n) => Backed(n)'
  BY BackedStable
<1> USE DEF fileVars, hostVars
<1>2. ASSUME NEW a \in Agents, Shim(a) PROVE RecordInv'
  BY <1>2, ShimFrame, QuietRecord
<1>3. ASSUME NEW c \in Commits, Grade(c) PROVE RecordInv'
  <2>1. /\ UNCHANGED <<sent, inbox, responses, audit, archive>>
        /\ UNCHANGED <<phase, cur, decision>>
    BY <1>3, GradeFrame DEF TypeInv
  <2> QED
    BY <2>1, QuietRecord DEF Used
<1>4. CASE Decide
  <2>1. /\ UNCHANGED <<sent, inbox, responses, audit, archive, cur>>
        /\ phase' \in {"respond", "attempt"}
        /\ phase' = "respond" => ~decision'.accepted
    BY <1>4 DEF Decide, Refuse, Accept, DiskUnchanged
  <2>2. Used' = Used
    BY <2>1 DEF Used
  <2> QED
    BY <1>1, <2>1, <2>2
    DEF RecordInv, AnswersBacked, AuditBacked, DecisionBacked, Decided,
        CurrentRecorded, ArchiveAudited, NoRequestLost
<1>5. CASE WriteAttempt
  <2>1. /\ UNCHANGED <<sent, inbox, responses, audit, archive, cur, decision>>
        /\ phase' = "respond"
    BY <1>5 DEF WriteAttempt
  <2>2. cur \in Used /\ sent[cur].commit \in Commits
    BY <1>5, RequestTypes DEF WriteAttempt, TypeInv, TypeOK, Handling
  <2>3. Used' = Used
    BY <2>1 DEF Used
  <2>4. Backed(cur)'
    BY <1>5, <2>1, <2>2, <2>3 DEF WriteAttempt, Backed, TypeInv, TypeOK
  <2> QED
    BY <1>1, <2>1, <2>3, <2>4
    DEF RecordInv, AnswersBacked, AuditBacked, DecisionBacked, Decided,
        CurrentRecorded, ArchiveAudited, NoRequestLost
<1>6. CASE WriteResponse
  <2>1. /\ UNCHANGED <<sent, inbox, audit, archive, cur, decision>>
        /\ phase = "respond" /\ phase' = "audit"
        /\ responses' = [responses EXCEPT ![cur] = decision]
    BY <1>6 DEF WriteResponse
  <2>2. cur \in inbox /\ cur \in Used /\ cur \in Nonces
    BY <2>1, RequestTypes DEF TypeInv, TypeOK, Handling
  <2>3. responses'[cur] = decision
          /\ \A n \in Nonces \ {cur} : responses'[n] = responses[n]
    BY <2>1, <2>2 DEF TypeInv, TypeOK
  <2>4. Used' = Used
    BY <2>1 DEF Used
  <2>5. AnswersBacked'
    BY <1>1, <2>1, <2>2, <2>3, <2>4
    DEF RecordInv, AnswersBacked, DecisionBacked, Decided
  <2>6. NoRequestLost'
    BY <2>1, <2>2, <2>3, <2>4 DEF RecordInv, NoRequestLost, Used
  <2> QED
    BY <1>1, <2>1, <2>3, <2>4, <2>5, <2>6
    DEF RecordInv, AuditBacked, DecisionBacked, Decided, CurrentRecorded,
        ArchiveAudited
<1>7. CASE AppendAudit
  <2>1. /\ UNCHANGED <<sent, inbox, responses, archive, cur, decision>>
        /\ phase = "audit" /\ phase' = "archive"
        /\ audit' = [audit EXCEPT ![cur] = @ \cup {decision.accepted}]
    BY <1>7 DEF AppendAudit
  <2>2. cur \in inbox /\ cur \in Used /\ cur \in Nonces
    BY <2>1, RequestTypes DEF TypeInv, TypeOK, Handling
  <2>3. audit'[cur] = audit[cur] \cup {decision.accepted}
          /\ \A n \in Nonces \ {cur} : audit'[n] = audit[n]
    BY <2>1, <2>2 DEF TypeInv, TypeOK
  <2>4. Used' = Used
    BY <2>1 DEF Used
  <2>5. AuditBacked'
    BY <1>1, <2>1, <2>2, <2>3 DEF RecordInv, AuditBacked, DecisionBacked,
                                  Decided
  <2>6. ArchiveAudited' /\ CurrentRecorded'
    BY <2>1, <2>2, <2>3 DEF RecordInv, ArchiveAudited, CurrentRecorded
  <2>7. NoRequestLost'
    BY <2>1, <2>2, <2>3, <2>4 DEF RecordInv, NoRequestLost, Used
  <2> QED
    BY <1>1, <2>1, <2>4, <2>5, <2>6, <2>7
    DEF RecordInv, AnswersBacked, DecisionBacked, Decided
<1>8. CASE WriteArchive
  <2>1. /\ UNCHANGED <<sent, inbox, responses, audit, cur, decision>>
        /\ phase = "archive" /\ phase' = "unlink"
        /\ archive' = [archive EXCEPT ![cur] = {decision.accepted}]
    BY <1>8 DEF WriteArchive
  <2>2. cur \in inbox /\ cur \in Used /\ cur \in Nonces
    BY <2>1, RequestTypes DEF TypeInv, TypeOK, Handling
  <2>3. archive'[cur] = {decision.accepted}
          /\ \A n \in Nonces \ {cur} : archive'[n] = archive[n]
    BY <2>1, <2>2 DEF TypeInv, TypeOK
  <2>4. Used' = Used
    BY <2>1 DEF Used
  <2>5. ArchiveAudited' /\ CurrentRecorded'
    BY <2>1, <2>2, <2>3 DEF RecordInv, ArchiveAudited, CurrentRecorded
  <2>6. NoRequestLost'
    BY <2>1, <2>2, <2>3, <2>4 DEF RecordInv, NoRequestLost, Used
  <2> QED
    BY <1>1, <2>1, <2>4, <2>5, <2>6
    DEF RecordInv, AnswersBacked, AuditBacked, DecisionBacked, Decided
<1>9. CASE Unlink
  <2>1. /\ UNCHANGED <<sent, responses, audit, archive>>
        /\ phase = "unlink" /\ phase' = "pick" /\ inbox' = inbox \ {cur}
    BY <1>9 DEF Unlink
  <2>2. Used' = Used
    BY <2>1 DEF Used
  <2>3. cur \in Nonces /\ decision \in Decision
    BY <2>1 DEF TypeInv, TypeOK, DecisionKnown, Handling, Used
  <2>4. responses[cur] # NoDecision /\ archive[cur] # {}
    BY <2>1, <2>3, NoDecisionAssumption DEF RecordInv, CurrentRecorded
  <2>5. NoRequestLost'
    BY <2>1, <2>2, <2>3, <2>4 DEF RecordInv, NoRequestLost, ArchiveAudited
  <2> QED
    BY <1>1, <2>1, <2>2, <2>5
    DEF RecordInv, AnswersBacked, AuditBacked, DecisionBacked, Decided,
        CurrentRecorded, ArchiveAudited
<1>10. CASE \/ DrainStart \/ PickRequest \/ LoopEnd \/ StopRun
            \/ Crash \/ Resume \/ UNCHANGED vars
  <2>1. /\ UNCHANGED <<sent, inbox, responses, audit, archive>>
        /\ phase' \in Decided => UNCHANGED <<phase, cur, decision>>
    BY <1>10 DEF DrainStart, PickRequest, LoopEnd, StopRun, Crash, Resume,
                 DiskUnchanged, vars, Decided
  <2>2. Used' = Used
    BY <2>1 DEF Used
  <2> QED
    BY <2>1, <2>2, QuietRecord
<1> QED
  BY <1>2, <1>3, <1>4, <1>5, <1>6, <1>7, <1>8, <1>9, <1>10
  DEF Next, Host, Terminated

\* Whatever the interleaving and however often the run is resumed: an accepted
\* answer has its attempt, a request leaves the inbox answered, audited and
\* archived, and no commit is accepted twice in the audit.
THEOREM RecordsAgree ==
  Spec => [](AcceptedHasAttempt /\ NoRequestLost /\ AcceptedOncePerCommit)
<1>1. RecordInv => AcceptedHasAttempt /\ NoRequestLost
  BY DEF RecordInv, AnswersBacked, AcceptedHasAttempt, Backed
<1>2. RecordInv => AcceptedOncePerCommit
  <2> SUFFICES ASSUME RecordInv, NEW m \in Nonces, NEW n \in Nonces,
                      TRUE \in audit[m], TRUE \in audit[n],
                      sent[m].commit = sent[n].commit
               PROVE  m = n
    BY DEF AcceptedOncePerCommit
  <2>1. Backed(m) /\ Backed(n)
    BY DEF RecordInv, AuditBacked
  <2> QED
    BY <2>1 DEF Backed
<1> QED
  BY <1>1, <1>2, InitTypeInv, NextTypeInv, InitAdmission, NextAdmission,
     InitRecord, NextRecord, PTL DEF Spec

-----------------------------------------------------------------------------
(* The broker implements the ledger.                                       *)

LEMMA LedgerStep ==
  ASSUME TypeInv, AdmissionInv, [Next]_vars
  PROVE  [Ledger!LedgerNext]_<<status, owner>>
<1> USE DEF fileVars
<1>1. ASSUME NEW a \in Agents, Shim(a) PROVE UNCHANGED <<status, owner>>
  BY <1>1, ShimFrame
<1>2. ASSUME NEW c \in Commits, Grade(c) PROVE Ledger!LedgerNext
  <2>1. PICK t \in Terminal : status' = [status EXCEPT ![c] = t]
    BY <1>2 DEF Grade
  <2>2. Ledger!Finalize(c, t)
    BY <1>2, <2>1 DEF Grade, Ledger!Finalize
  <2> QED
    BY <2>2 DEF Ledger!LedgerNext
<1>3. CASE WriteAttempt
  <2>1. sent[cur].commit \in Commits /\ sent[cur].agent \in Agents
    BY <1>3, WriteAttemptFrame DEF Request
  <2>2. /\ Cardinality(Attempted) < MaxAttempts
        /\ status[sent[cur].commit] = "none"
        /\ PendingOf(sent[cur].agent) = {}
    BY <1>3 DEF WriteAttempt, AdmissionInv, CountExact, AdmissionStillLegal,
                Handling
  <2>3. Ledger!Admit(sent[cur].agent, sent[cur].commit)
    <3>1. Ledger!Attempted = Attempted
      BY DEF Ledger!Attempted, Attempted
    <3>2. Ledger!PendingOf(sent[cur].agent) = PendingOf(sent[cur].agent)
      BY DEF Ledger!PendingOf, PendingOf
    <3>3. Ledger!Cardinality(Ledger!Attempted) = Cardinality(Attempted)
      BY <3>1 DEF Ledger!Cardinality, Cardinality
    <3> QED
      BY <1>3, <2>2, <3>2, <3>3 DEF WriteAttempt, Ledger!Admit
  <2> QED
    BY <2>1, <2>3 DEF Ledger!LedgerNext
<1>4. CASE UNCHANGED <<status, owner>>
  BY <1>4
<1> QED
  BY <1>1, <1>2, <1>3, <1>4
  DEF Next, Host, DrainStart, PickRequest, Decide, WriteResponse, AppendAudit,
      WriteArchive, Unlink, LoopEnd, StopRun, Crash, Resume, Terminated,
      DiskUnchanged, vars

\* The stepwise broker, with its remembered counts and replayed requests,
\* implements the ledger: each admission is legal when its record appears.
THEOREM BrokerImplementsLedger == Spec => LedgerSpec
<1>1. Init => Ledger!LedgerInit
  BY DEF Init, Ledger!LedgerInit
<1> QED
  BY <1>1, InitTypeInv, NextTypeInv, InitAdmission, NextAdmission, LedgerStep,
     PTL DEF Spec, LedgerSpec, Ledger!LedgerSpec, Ledger!ledgerVars

\* A record on disk stays, with its owner, and a graded one with its grade.
Keep == \A c \in Commits :
          /\ status[c] # "none" => owner'[c] = owner[c] /\ status'[c] # "none"
          /\ status[c] \in Terminal => status'[c] = status[c]

LEMMA KeepStep == TypeInv /\ AdmissionInv /\ [Next]_vars => [Keep]_<<status, owner>>
<1> SUFFICES ASSUME TypeInv, [Ledger!LedgerNext]_<<status, owner>>
             PROVE  [Keep]_<<status, owner>>
  BY LedgerStep
<1>1. CASE \E a \in Agents, c \in Commits : Ledger!Admit(a, c)
  BY <1>1, BrokerAssumption DEF Ledger!Admit, TypeInv, TypeOK, Keep
<1>2. CASE \E c \in Commits, t \in Terminal : Ledger!Finalize(c, t)
  BY <1>2, BrokerAssumption DEF Ledger!Finalize, TypeInv, TypeOK, Keep
<1> QED
  BY <1>1, <1>2 DEF Ledger!LedgerNext

\* No step rewrites a record: not the grader, not a duplicate, not a replay.
THEOREM NeverRewritten == Spec => AttemptsNeverRewritten
  BY InitTypeInv, NextTypeInv, InitAdmission, NextAdmission, KeepStep, PTL
  DEF Spec, AttemptsNeverRewritten, Keep

-----------------------------------------------------------------------------
(* What shims wait for, and what refusals cost.                            *)

\* Branches share the seed only; what an agent waits for, asked for, was charged
\* with or was referred to is on its own branch.
OwnInv ==
  /\ \A a \in Agents : head[a] \in branch[a]
  /\ \A a, b \in Agents : a # b => branch[a] \cap branch[b] \subseteq {Seed}
  /\ \A a \in Agents : pc[a] \notin {"idle", "commit"} => want[a] \in branch[a]
  /\ \A a \in Agents : nonce[a] # NoNonce => sent[nonce[a]].agent = a
  /\ \A n \in Used : sent[n].commit \in branch[sent[n].agent]
  /\ \A c \in Attempted : owner[c] \in Agents /\ c \in branch[owner[c]]
  /\ \A n \in Used : responses[n] # NoDecision /\ responses[n].waiting # NoCommit
       => responses[n].waiting \in branch[sent[n].agent]
  /\ phase \in Decided \cup {"attempt"} /\ decision.waiting # NoCommit
       => decision.waiting \in branch[sent[cur].agent]

LEMMA InitOwn == Init => OwnInv
  BY DEF Init, OwnInv, Used, Attempted, Decided

\* A step of a shim: its new commits and requests are its own.
LEMMA ShimOwn ==
  ASSUME TypeInv, RecordInv, OwnInv, NEW a \in Agents, Shim(a)
  PROVE  OwnInv'
<1> USE DEF TypeInv, TypeOK, OwnInv, fileVars, gitVars, hostVars, Used,
        Attempted, Decided
<1>1. CASE SubmitStart(a)
  <2>1. \A c \in PendingOf(a) : c \in Attempted /\ owner[c] = a
    BY DEF PendingOf
  <2> QED
    BY <1>1, <2>1 DEF SubmitStart
<1>2. CASE Commit(a)
  <2>1. /\ UNCHANGED <<status, owner, sent, responses, phase, decision, cur, nonce>>
        /\ want' = [want EXCEPT ![a] = head'[a]]
        /\ \A b \in Agents : b # a => pc'[b] = pc[b]
    BY <1>2 DEF Commit
  <2>2. /\ \A b \in Agents : head'[b] \in branch'[b] /\ branch[b] \subseteq branch'[b]
        /\ \A b, c \in Agents : b # c => branch'[b] \cap branch'[c] \subseteq {Seed}
    <3>1. CASE UNCHANGED gitVars
      BY <3>1
    <3>2. ASSUME NEW c \in Commits \ (Made \cup {Seed}),
                 head' = [head EXCEPT ![a] = c],
                 branch' = [branch EXCEPT ![a] = @ \cup {c}]
          PROVE  <2>2!1 /\ <2>2!2
      <4>1. \A b \in Agents : c \notin branch[b]
        BY DEF Made
      <4> QED
        BY <3>2, <4>1
    <3> QED
      BY <1>2, <3>1, <3>2 DEF Commit
  <2>3. \A b \in Agents : pc'[b] \notin {"idle", "commit"} => want'[b] \in branch'[b]
    BY <2>1, <2>2
  <2>4. \A n \in Used : sent[n].agent \in Agents
    BY DEF Request
  <2>5. phase \in Decided \cup {"attempt"} => sent[cur].agent \in Agents
    BY <2>4 DEF Handling
  <2> QED
    BY <2>1, <2>2, <2>3, <2>4, <2>5
<1>3. CASE Enqueue(a)
  <2> DEFINE r == [agent |-> a, commit |-> want[a]]
  <2>1. FreshNonce \in Nonces /\ FreshNonce \notin Used
    BY <1>3, FreshNonceUnused DEF Enqueue
  <2>2. responses[FreshNonce] = NoDecision
    BY <2>1 DEF RecordInv, AnswersBacked
  <2>3. /\ UNCHANGED <<status, owner, responses, branch, head, phase, decision, cur, want>>
        /\ \A n \in Nonces : sent'[n] = IF n = FreshNonce THEN r ELSE sent[n]
        /\ \A b \in Agents : nonce'[b] = IF b = a THEN FreshNonce ELSE nonce[b]
        /\ \A b \in Agents : pc'[b] \notin {"idle", "commit"} <=> pc[b] \notin {"idle", "commit"}
        /\ want[a] \in branch[a]
    BY <1>3 DEF Enqueue, ShimPC
  <2>4. Used' \subseteq Used \cup {FreshNonce}
    BY <2>3
  <2>5. phase \in Decided \cup {"attempt"} => cur \in Used
    BY DEF Handling
  <2>6. \A b \in Agents : nonce'[b] # NoNonce => sent'[nonce'[b]].agent = b
    BY <2>1, <2>3
  <2>7. \A n \in Used' : sent'[n].commit \in branch'[sent'[n].agent]
    BY <2>1, <2>3, <2>4
  <2>8. \A n \in Used' : responses'[n] # NoDecision /\ responses'[n].waiting # NoCommit
          => responses'[n].waiting \in branch'[sent'[n].agent]
    BY <2>1, <2>2, <2>3, <2>4
  <2>9. phase' \in Decided \cup {"attempt"} /\ decision'.waiting # NoCommit
          => decision'.waiting \in branch'[sent'[cur'].agent]
    BY <2>1, <2>3, <2>5
  <2>10. \A b \in Agents : pc'[b] \notin {"idle", "commit"} => want'[b] \in branch'[b]
    BY <2>3
  <2> QED
    BY <2>3, <2>6, <2>7, <2>8, <2>9, <2>10
<1>4. CASE Leave(a)
  BY <1>4 DEF Leave
<1>5. CASE PollResponse(a) /\ ~Leave(a)
  <2>1. Refused(a) /\ Answer(a).waiting # NoCommit => Answer(a).waiting \in branch[a]
    BY DEF Refused, Answer
  <2>2. UNCHANGED <<fileVars, gitVars, hostVars>>
    BY <1>5 DEF PollResponse
  <2>3. /\ \A b \in Agents : pc'[b] \notin {"idle", "commit"} => want'[b] \in branch[b]
        /\ \A b \in Agents : nonce'[b] # NoNonce => nonce'[b] = nonce[b]
    BY <1>5, <2>1 DEF PollResponse
  <2> QED
    BY <2>2, <2>3
<1>6. CASE PollResult(a) /\ ~Leave(a)
  BY <1>6 DEF PollResult
<1> QED
  BY <1>1, <1>2, <1>3, <1>4, <1>5, <1>6 DEF Shim, GiveUp, Kill

LEMMA NextOwn == TypeInv /\ RecordInv /\ OwnInv /\ [Next]_vars => OwnInv'
<1> SUFFICES ASSUME TypeInv, RecordInv, OwnInv, [Next]_vars PROVE OwnInv'
  OBVIOUS
<1>1. ASSUME NEW a \in Agents, Shim(a) PROVE OwnInv'
  BY <1>1, ShimOwn
<1>2. ASSUME NEW c \in Commits, Grade(c) PROVE OwnInv'
  BY <1>2, GradeFrame DEF Grade, OwnInv, Used, TypeInv, gitVars, shimVars, hostVars
<1>3. CASE Decide
  <2>1. /\ UNCHANGED <<status, owner, sent, responses, branch, head, pc, want, nonce, cur>>
        /\ phase = "decide"
    BY <1>3 DEF Decide, DiskUnchanged, fileVars, gitVars, shimVars
  <2>2. sent[cur].agent \in Agents
    BY <2>1, RequestTypes DEF TypeInv, TypeOK, Handling, Request
  <2>3. \A c \in PendingOf(sent[cur].agent) : c \in branch[sent[cur].agent]
    BY <2>2, BrokerAssumption DEF PendingOf, OwnInv, Attempted
  <2>4. decision'.waiting # NoCommit => decision'.waiting \in branch[sent[cur].agent]
    BY <1>3, <2>3 DEF Decide, Refuse, Accept
  <2> QED
    BY <2>1, <2>4 DEF OwnInv, Used, Attempted
<1>4. CASE WriteAttempt
  <2>1. /\ sent[cur] \in Request
        /\ status' = [status EXCEPT ![sent[cur].commit] = "pending"]
        /\ owner' = [owner EXCEPT ![sent[cur].commit] = sent[cur].agent]
        /\ Attempted' = Attempted \cup {sent[cur].commit}
    BY <1>4, WriteAttemptFrame
  <2>2. /\ UNCHANGED <<sent, responses, branch, head, pc, want, nonce, cur, decision>>
        /\ phase = "attempt" /\ phase' = "respond"
    BY <1>4 DEF WriteAttempt, gitVars, shimVars
  <2>3. sent[cur].commit \in branch[sent[cur].agent]
    BY <2>2 DEF OwnInv, TypeInv, TypeOK, Handling
  <2>4. \A c \in Attempted' : owner'[c] \in Agents /\ c \in branch[owner'[c]]
    BY <2>1, <2>3 DEF OwnInv, TypeInv, TypeOK, Request
  <2>5. decision'.waiting # NoCommit
          => decision'.waiting \in branch'[sent'[cur'].agent]
    BY <2>2 DEF OwnInv
  <2> QED
    BY <2>2, <2>4, <2>5 DEF OwnInv, Used
<1>5. CASE WriteResponse
  <2>1. /\ UNCHANGED <<status, owner, sent, branch, head, pc, want, nonce, cur, decision>>
        /\ phase = "respond" /\ phase' = "audit"
        /\ responses' = [responses EXCEPT ![cur] = decision]
    BY <1>5 DEF WriteResponse, gitVars, shimVars
  <2> QED
    BY <2>1 DEF OwnInv, Used, Attempted, Decided, TypeInv, TypeOK
<1>6. CASE StopRun
  BY <1>6 DEF StopRun, OwnInv, fileVars, gitVars, Used, Attempted, Decided
<1>7. CASE \/ DrainStart \/ PickRequest \/ AppendAudit \/ WriteArchive \/ Unlink
           \/ LoopEnd \/ Crash \/ Resume \/ UNCHANGED vars
  <2>1. /\ UNCHANGED <<status, owner, sent, responses, branch, head, pc, want, nonce>>
        /\ phase' \in Decided \cup {"attempt"} =>
             phase \in Decided \cup {"attempt"} /\ UNCHANGED <<cur, decision>>
    BY <1>7 DEF DrainStart, PickRequest, AppendAudit, WriteArchive, Unlink, LoopEnd,
                Crash, Resume, DiskUnchanged, vars, fileVars, gitVars, hostVars,
                shimVars, Decided
  <2> QED
    BY <2>1 DEF OwnInv, Used, Attempted
<1> QED
  BY <1>1, <1>2, <1>3, <1>4, <1>5, <1>6, <1>7 DEF Next, Host, Terminated

\* For any agents, requests, crashes and resumed runs, the record a shim waits
\* for is its own agent's, wherever a refusal has redirected it; only the seed
\* commit may have been submitted by another agent.
THEOREM WaitingIsOwn == Spec => []WaitsForOwn
<1>1. TypeInv /\ OwnInv => WaitsForOwn
  <2> SUFFICES ASSUME TypeInv, OwnInv, NEW a \in Agents,
                      pc[a] \in {"response", "result"}, status[want[a]] # "none"
               PROVE  owner[want[a]] = a \/ want[a] = Seed
    BY DEF WaitsForOwn
  <2>1. want[a] \in branch[a] /\ want[a] \in Attempted
    BY DEF OwnInv, Attempted, TypeInv, TypeOK
  <2> QED
    BY <2>1 DEF OwnInv
<1> QED
  BY <1>1, InitTypeInv, NextTypeInv, InitAdmission, NextAdmission, InitRecord,
     NextRecord, InitOwn, NextOwn, PTL DEF Spec

\* The request n is in hand and was accepted, or refused.
AcceptedInHand(n) == phase \in Decided /\ cur = n /\ decision.accepted
RefusedInHand(n) == phase \in Decided /\ cur = n /\ ~decision.accepted

\* A request that became an attempt, or was refused, is out of the inbox, or in
\* hand with that decision, or was half handled when a supervisor died.
RefusalInv ==
  /\ phase = "attempt" => decision.accepted
  /\ \A n \in Nonces : WasRefused(n) => n \in Used
  /\ \A n \in inbox : WasRefused(n) =>
       n \in interrupted \/ (RefusedInHand(n) /\ phase # "respond")
  /\ \A c \in Attempted :
       /\ creator[c] \in Used
       /\ creator[c] \in inbox => creator[c] \in interrupted \/ AcceptedInHand(creator[c])
       /\ WasRefused(creator[c]) => creator[c] \in interrupted

LEMMA InitRefusal == Init => RefusalInv
  BY DEF Init, RefusalInv, Attempted, WasRefused

\* A step that writes no record, answer or audit line, and does not let go of a
\* request in hand that was decided.
LEMMA QuietRefusal ==
  ASSUME TypeInv, RefusalInv, UNCHANGED <<creator, responses, audit>>,
         Attempted' = Attempted, Used \subseteq Used', inbox' \subseteq Nonces,
         inbox' \cap Used \subseteq inbox, interrupted \subseteq interrupted',
         phase' = "attempt" => phase = "attempt" /\ UNCHANGED decision,
         phase \in Decided =>
           \/ /\ phase' \in Decided /\ UNCHANGED <<cur, decision>>
              /\ phase' = "respond" => phase = "respond"
           \/ cur \notin inbox'
  PROVE  RefusalInv'
<1>1. \A n : WasRefused(n)' = WasRefused(n)
  BY DEF WasRefused
<1>2. \A n \in inbox' : /\ AcceptedInHand(n) => AcceptedInHand(n)'
                        /\ RefusedInHand(n) => RefusedInHand(n)'
  BY DEF AcceptedInHand, RefusedInHand
<1>3. \A n \in inbox' : n \in Used => n \in inbox
  OBVIOUS
<1>4. phase' = "attempt" => decision'.accepted
  BY DEF RefusalInv
<1>5. ASSUME NEW n \in inbox', WasRefused(n)
      PROVE  n \in interrupted' \/ (RefusedInHand(n)' /\ phase' # "respond")
  <2>1. n \in Nonces
    OBVIOUS
  <2>2. n \in inbox
    BY <1>3, <1>5, <2>1 DEF RefusalInv
  <2>3. CASE RefusedInHand(n) /\ phase # "respond"
    BY <1>5, <2>3 DEF AcceptedInHand, RefusedInHand
  <2> QED
    BY <1>5, <2>2, <2>3 DEF RefusalInv
<1>6. ASSUME NEW c \in Attempted
      PROVE  /\ creator[c] \in Used'
             /\ creator[c] \in inbox' => creator[c] \in interrupted' \/ AcceptedInHand(creator[c])'
             /\ WasRefused(creator[c]) => creator[c] \in interrupted'
  <2>1. creator[c] \in inbox' => creator[c] \in inbox
    BY <1>3, <1>6 DEF RefusalInv
  <2> QED
    BY <1>2, <1>6, <2>1 DEF RefusalInv
<1> QED
  BY <1>1, <1>4, <1>5, <1>6 DEF RefusalInv

LEMMA NextRefusal ==
  TypeInv /\ RecordInv /\ RefusalInv /\ TypeInv' /\ [Next]_vars => RefusalInv'
<1> SUFFICES ASSUME TypeInv, RecordInv, RefusalInv, TypeInv', [Next]_vars
             PROVE  RefusalInv'
  OBVIOUS
<1> USE DEF fileVars, hostVars
<1>1. ASSUME NEW a \in Agents, Shim(a) PROVE RefusalInv'
  <2>1. inbox \subseteq Used /\ Used' \ inbox' = Used \ inbox /\ Attempted' = Attempted
    BY <1>1, ShimFrame DEF TypeInv, TypeOK, Attempted
  <2>2. inbox' \subseteq Nonces
    BY DEF TypeInv, TypeOK, Used
  <2> QED
    BY <1>1, <2>1, <2>2, ShimFrame, QuietRefusal
<1>2. ASSUME NEW c \in Commits, Grade(c) PROVE RefusalInv'
  <2>1. inbox' \subseteq Nonces
    BY DEF TypeInv, TypeOK, Used
  <2> QED
    BY <1>2, <2>1, GradeFrame, QuietRefusal DEF TypeInv, Used
<1>3. CASE Decide
  <2>1. /\ UNCHANGED <<creator, sent, inbox, responses, audit, status, interrupted>>
        /\ phase = "decide" /\ phase' = "attempt" => decision'.accepted
    BY <1>3 DEF Decide, Refuse, Accept, DiskUnchanged
  <2>2. phase = "decide"
    BY <1>3 DEF Decide
  <2> QED
    BY <2>1, <2>2 DEF RefusalInv, AcceptedInHand, RefusedInHand, Decided, Attempted, Used, WasRefused
<1>4. CASE WriteAttempt
  <2> DEFINE d == sent[cur].commit
  <2>1. /\ d \in Commits /\ Attempted' = Attempted \cup {d}
        /\ creator' = [creator EXCEPT ![d] = cur]
        /\ UNCHANGED <<sent, inbox, responses, audit, cur, decision, interrupted>>
        /\ phase = "attempt" /\ phase' = "respond"
    BY <1>4, WriteAttemptFrame DEF WriteAttempt, Request
  <2>2. cur \in inbox /\ cur \in Used /\ Used' = Used
    BY <2>1 DEF TypeInv, TypeOK, Handling, Used
  <2>3. \A c \in Commits : creator'[c] = IF c = d THEN cur ELSE creator[c]
    BY <2>1 DEF TypeInv, TypeOK
  <2>4. \A n : WasRefused(n)' = WasRefused(n) /\ ~AcceptedInHand(n) /\ ~RefusedInHand(n)
    BY <2>1 DEF WasRefused, AcceptedInHand, RefusedInHand, Decided
  <2>5. AcceptedInHand(cur)'
    BY <2>1 DEF AcceptedInHand, RefusedInHand, Decided, RefusalInv, TypeInv, TypeOK, DecisionKnown,
                Handling, Decision
  <2>6. Attempted \subseteq Commits
    BY DEF Attempted
  <2>7. ASSUME NEW c \in Attempted', NEW n, n = creator'[c]
        PROVE  /\ n \in Used
               /\ n \in inbox => n \in interrupted \/ AcceptedInHand(n)'
               /\ WasRefused(n)' => n \in interrupted
    <3>1. CASE c = d
      <4>1. n = cur
        BY <2>1, <2>3, <2>7, <3>1
      <4>2. WasRefused(cur) => cur \in interrupted
        BY <2>2, <2>4 DEF RefusalInv, TypeInv, TypeOK
      <4> QED
        BY <2>1, <2>2, <2>4, <2>5, <4>1, <4>2 DEF AcceptedInHand
    <3>2. CASE c # d
      <4>1. c \in Attempted /\ n = creator[c]
        BY <2>1, <2>3, <2>6, <2>7, <3>2
      <4> QED
        BY <2>4, <4>1 DEF RefusalInv
    <3> QED
      BY <3>1, <3>2
  <2>8. \A n \in Nonces : WasRefused(n)' => n \in Used
    BY <2>4 DEF RefusalInv
  <2>9. \A n \in inbox : WasRefused(n)' => n \in interrupted
    BY <2>4 DEF RefusalInv
  <2>10. phase' # "attempt"
    BY <2>1
  <2> QED
    BY <2>1, <2>2, <2>7, <2>8, <2>9, <2>10 DEF RefusalInv, WasRefused, AcceptedInHand
<1>5. CASE WriteResponse \/ AppendAudit
  <2>1. /\ UNCHANGED <<creator, sent, inbox, cur, decision, status, interrupted>>
        /\ phase \in {"respond", "audit"} /\ phase' \in {"audit", "archive"}
        /\ \A n \in Nonces \ {cur} : responses'[n] = responses[n] /\ audit'[n] = audit[n]
    BY <1>5 DEF WriteResponse, AppendAudit, TypeInv, TypeOK
  <2>2. cur \in inbox /\ cur \in Used /\ cur \in Nonces /\ decision.accepted \in BOOLEAN
    BY <2>1, RequestTypes, DecisionTypes DEF TypeInv, TypeOK, DecisionKnown, Handling
  <2>3. \A n \in Nonces \ {cur} : WasRefused(n)' = WasRefused(n)
    BY <2>1 DEF WasRefused
  <2>4. WasRefused(cur)' => WasRefused(cur) \/ ~decision.accepted
    <3>1. CASE WriteResponse
      <4>1. responses'[cur] = decision /\ audit'[cur] = audit[cur]
        BY <2>2, <3>1 DEF WriteResponse, TypeInv, TypeOK
      <4> QED
        BY <2>1, <4>1 DEF WasRefused
    <3>2. CASE AppendAudit
      <4>1. /\ responses'[cur] = responses[cur]
            /\ audit'[cur] = audit[cur] \cup {decision.accepted}
        BY <2>2, <3>2 DEF AppendAudit, TypeInv, TypeOK
      <4>2. FALSE \in audit'[cur] => FALSE \in audit[cur] \/ ~decision.accepted
        BY <4>1, Zenon
      <4> QED
        BY <2>1, <4>1, <4>2 DEF WasRefused
    <3> QED
      BY <1>5, <3>1, <3>2
  <2>5. Attempted' = Attempted /\ Used' = Used
    BY <2>1 DEF Attempted, Used
  <2>6. \A n : /\ AcceptedInHand(n) => AcceptedInHand(n)'
               /\ RefusedInHand(n) => RefusedInHand(n)'
    BY <2>1 DEF AcceptedInHand, RefusedInHand, Decided
  <2>7. ~decision.accepted => RefusedInHand(cur)
    BY <2>1 DEF RefusedInHand, Decided
  <2>8. \A c \in Attempted : creator[c] = cur /\ ~decision.accepted => cur \in interrupted
    BY <2>2 DEF RefusalInv, AcceptedInHand
  <2>9. Used \subseteq Nonces /\ inbox \subseteq Used
    BY DEF Used, TypeInv, TypeOK
  <2>10. \A n \in Nonces : WasRefused(n)' => n \in Used
    BY <2>2, <2>3 DEF RefusalInv
  <2>11. ASSUME NEW n \in inbox, WasRefused(n)'
         PROVE  n \in interrupted \/ RefusedInHand(n)
    <3>1. CASE n = cur
      BY <2>1, <2>4, <2>7, <2>11, <3>1 DEF RefusalInv, WasRefused
    <3>2. CASE n # cur
      BY <2>3, <2>9, <2>11, <3>2 DEF RefusalInv
    <3> QED
      BY <3>1, <3>2
  <2>12. ASSUME NEW c \in Attempted
         PROVE  WasRefused(creator[c])' => creator[c] \in interrupted
    <3>1. CASE creator[c] = cur
      BY <2>1, <2>4, <2>8, <2>12, <3>1 DEF RefusalInv, WasRefused
    <3>2. CASE creator[c] # cur
      BY <2>1, <2>3, <2>9, <2>12, <3>2 DEF RefusalInv, WasRefused
    <3> QED
      BY <3>1, <3>2
  <2>13. phase' \notin {"attempt", "respond"}
    BY <2>1
  <2> QED
    BY <2>1, <2>5, <2>6, <2>10, <2>11, <2>12, <2>13 DEF RefusalInv
<1>6. CASE Crash
  <2>1. /\ UNCHANGED <<creator, sent, inbox, responses, audit, status>>
        /\ phase' = "down" /\ interrupted \subseteq interrupted'
        /\ HalfHandled => cur \in interrupted'
    BY <1>6 DEF Crash
  <2>2. \A n : WasRefused(n)' = WasRefused(n)
    BY <2>1 DEF WasRefused
  <2>3. \A n : AcceptedInHand(n) => n \in interrupted'
    BY <2>1 DEF AcceptedInHand, RefusedInHand, Decided, HalfHandled
  <2>4. \A n : RefusedInHand(n) /\ phase # "respond" => n \in interrupted'
    BY <2>1 DEF AcceptedInHand, RefusedInHand, Decided, HalfHandled
  <2>5. Attempted' = Attempted /\ Used' = Used
    BY <2>1 DEF Attempted, Used
  <2> QED
    BY <2>1, <2>2, <2>3, <2>4, <2>5 DEF RefusalInv
<1>7. CASE \/ DrainStart \/ PickRequest \/ WriteArchive \/ Unlink \/ LoopEnd \/ StopRun
           \/ Resume \/ UNCHANGED vars
  <2>1. /\ UNCHANGED <<creator, sent, responses, audit, status, interrupted>>
        /\ inbox' \subseteq inbox
        /\ phase' = "attempt" => phase = "attempt" /\ UNCHANGED decision
        /\ phase \in Decided =>
             \/ /\ phase' \in Decided /\ UNCHANGED <<cur, decision>>
                /\ phase' = "respond" => phase = "respond"
             \/ cur \notin inbox'
    BY <1>7 DEF DrainStart, PickRequest, WriteArchive, Unlink, LoopEnd, StopRun, Resume,
                DiskUnchanged, vars, Decided
  <2>2. inbox' \subseteq Nonces
    BY <2>1 DEF TypeInv, TypeOK, Used
  <2> QED
    BY <2>1, <2>2, QuietRefusal DEF Attempted, Used
<1> QED
  BY <1>1, <1>2, <1>3, <1>4, <1>5, <1>6, <1>7 DEF Next, Host, Terminated

\* Over any number of deaths and resumed runs, no attempt comes from a request
\* that was also refused, but for the requests that a supervisor had half
\* handled, with a trace on disk, at the instant it died.
THEOREM RefusalsAreFree == Spec => []RejectedConsumesNothing
<1>1. RefusalInv => RejectedConsumesNothing
  BY DEF RefusalInv, RejectedConsumesNothing
<1> QED
  BY <1>1, InitTypeInv, NextTypeInv, InitAdmission, NextAdmission, InitRecord,
     NextRecord, InitRefusal, NextRefusal, PTL DEF Spec

-----------------------------------------------------------------------------
(* The debug executions that the broker's host offers beside evaluations,   *)
(* for any requests, quota and crashes: module DebugRunner, whose state is  *)
(* disjoint from the broker's.  The quota needs only that whatever the host *)
(* collects or queues has a record of its own.  That close() answers        *)
(* everything needs the way of a request from the inbox to its response,    *)
(* which a crash may interrupt.                                             *)

\* What is executed, or about to be, has a record, and nothing is queued once
\* the host closes.
DbgRecordInv ==
  /\ \A n \in pending : record[n] # "none"
  /\ host \in {"publish", "last", "accept"} => current \in pending
  /\ host = "queue" => record[current] # "none"
  /\ host \in {"closing", "last", "closed"} => \A n \in DebugNonces : future[n] # "queued"

\* Until the first crash, a request in the inbox has no record but while the
\* host has it in hand, and a request with a record has been answered, is
\* pending, or is about to be.
DbgAnswerInv ==
  /\ \A n \in DebugNonces : shim[n] = "idle" => n \notin debugInbox /\ record[n] = "none"
  /\ \A n \in debugInbox :
       record[n] # "none" => n = current /\ host \in {"queue", "accept", "unlink"}
  /\ host = "reject" => record[current] = "none"
  /\ \A n \in Recorded :
       response[n] = "completed" \/ n \in pending \/ (host = "queue" /\ n = current)

DbgIInv ==
  /\ DebugTypeOK /\ crashes \in Nat
  /\ QuotaRespected /\ DbgRecordInv
  /\ crashes = 0 => DbgAnswerInv

LEMMA DbgRecordedFinite == IsFiniteSet(Recorded) /\ Cardinality(Recorded) \in Nat
  BY DebugAssumption, FS_Subset, FS_CardinalityType DEF Recorded

LEMMA DbgInitIInv == DebugInit => DbgIInv
<1> SUFFICES ASSUME DebugInit PROVE DbgIInv
  OBVIOUS
<1>1. Recorded = {}
  BY DEF DebugInit, Recorded
<1>2. QuotaRespected
  BY <1>1, DebugAssumption, FS_EmptySet DEF QuotaRespected
<1> QED
  BY <1>1, <1>2, DebugAssumption
  DEF DebugInit, DbgIInv, DebugTypeOK, DbgRecordInv, DbgAnswerInv, Executing

\* The types, which hold whatever the quota.
LEMMA DbgNextTypes ==
  ASSUME DebugTypeOK, DbgRecordInv, crashes \in Nat, [DebugNext]_debugVars
  PROVE  DebugTypeOK' /\ crashes' \in Nat
<1> USE DebugAssumption
    DEF DebugTypeOK, DbgRecordInv, Executing, Recorded, Finished, files
<1>1. ASSUME NEW n \in DebugNonces,
             Ask(n) \/ ReadAnswer(n) \/ Execute(n) \/ ExecutionEnds(n)
      PROVE  DebugTypeOK' /\ crashes' \in Nat
  BY <1>1 DEF Ask, ReadAnswer, Execute, ExecutionEnds
<1>2. CASE Poll
  BY <1>2 DEF Poll, Collect, Publish
<1>3. CASE Submit
  BY <1>3 DEF Submit, Admit, Queue, Respond, UnlinkRequest
<1>4. CASE Closing
  BY <1>4 DEF Closing, Collect, Publish, CloseEnds
<1>5. CASE Close \/ CrashHost
  BY <1>5 DEF Close, CrashHost
<1>6. CASE UNCHANGED debugVars
  BY <1>6 DEF debugVars
<1> QED
  BY <1>1, <1>2, <1>3, <1>4, <1>5, <1>6 DEF DebugNext, DebugHost

\* Steps that make no record keep the quota.
LEMMA DbgSameRecords ==
  ASSUME QuotaRespected, Recorded' = Recorded
  PROVE  QuotaRespected'
  BY DEF QuotaRespected

\* A request is admitted below the quota only.
LEMMA DbgAdmitQuota ==
  ASSUME QuotaRespected, DebugTypeOK, NEW n \in DebugNonces, Admit(n)
  PROVE  QuotaRespected'
<1>1. CASE Allowed(n)
  <2>1. Recorded' = Recorded \cup {n}
    BY <1>1 DEF Admit, Recorded, DebugTypeOK
  <2>2. Cardinality(Recorded \cup {n}) <= Cardinality(Recorded) + 1
    <3>1. \/ Cardinality(Recorded \cup {n}) = Cardinality(Recorded)
          \/ Cardinality(Recorded \cup {n}) = Cardinality(Recorded) + 1
      BY DbgRecordedFinite, FS_AddElement, Zenon
    <3> QED
      BY <3>1, DbgRecordedFinite
  <2> QED
    BY <1>1, <2>1, <2>2, DbgRecordedFinite, DebugAssumption, FS_CardinalityType, FS_Subset
    DEF Allowed, QuotaRespected, Recorded
<1>2. CASE ~ Allowed(n)
  BY <1>2, DbgSameRecords DEF Admit, Recorded
<1> QED
  BY <1>1, <1>2

LEMMA DbgNextIInv == DbgIInv /\ [DebugNext]_debugVars => DbgIInv'
<1> SUFFICES ASSUME DbgIInv, [DebugNext]_debugVars PROVE DbgIInv'
  OBVIOUS
<1>t. DebugTypeOK' /\ crashes' \in Nat
  BY DbgNextTypes DEF DbgIInv
<1>q. QuotaRespected'
  <2>1. ASSUME NEW n \in DebugNonces, Admit(n) PROVE QuotaRespected'
    BY <2>1, DbgAdmitQuota DEF DbgIInv
  <2>2. CASE ~ \E n \in DebugNonces : Admit(n)
    <3>1. Recorded' = Recorded
      BY <2>2 DEF DbgIInv, DebugTypeOK, DbgRecordInv, DebugNext, debugVars,
                  files, Recorded, DebugHost, Poll,
        Submit, Closing, Collect, Publish, Queue, Respond, UnlinkRequest,
        CloseEnds,
        Close, CrashHost, Ask, ReadAnswer, Execute, ExecutionEnds
    <3> QED
      BY <3>1, DbgSameRecords DEF DbgIInv
  <2> QED
    BY <2>1, <2>2
<1>r. DbgRecordInv' /\ (crashes' = 0 => DbgAnswerInv')
  <2> USE DEF DbgIInv, DebugTypeOK, DbgRecordInv, DbgAnswerInv, Recorded, files
  <2>1. ASSUME NEW n \in DebugNonces,
               Ask(n) \/ ReadAnswer(n) \/ Execute(n) \/ ExecutionEnds(n)
        PROVE  DbgRecordInv' /\ (crashes' = 0 => DbgAnswerInv')
    BY <2>1 DEF Ask, ReadAnswer, Execute, ExecutionEnds
  <2>2. CASE Poll
    BY <2>2 DEF Poll, Collect, Publish
  <2>3. ASSUME NEW n \in DebugNonces, Admit(n)
        PROVE  DbgRecordInv' /\ (crashes' = 0 => DbgAnswerInv')
    BY <2>3 DEF Admit, Allowed
  <2>4. CASE Queue
    BY <2>4 DEF Queue
  <2>5. CASE Respond
    BY <2>5 DEF Respond
  <2>6. CASE UnlinkRequest
    BY <2>6 DEF UnlinkRequest
  <2>7. CASE Closing
    BY <2>7 DEF Closing, Collect, Publish, CloseEnds
  <2>8. CASE Close \/ CrashHost
    BY <2>8 DEF Close, CrashHost
  <2>9. CASE UNCHANGED debugVars
    BY <2>9 DEF debugVars
  <2> QED
    BY <2>1, <2>2, <2>3, <2>4, <2>5, <2>6, <2>7, <2>8, <2>9 DEF DebugNext,
                                                                DebugHost,
                                                                Submit
<1> QED
  BY <1>t, <1>q, <1>r DEF DbgIInv

LEMMA DbgInductive == DebugSpec => []DbgIInv
  BY DbgInitIInv, DbgNextIInv, PTL DEF DebugSpec

\* For any quota and any number of crashes, a task never has more debug
\* requests on record than the quota (debug.py 40-47).
THEOREM QuotaHolds == DebugSpec => []QuotaRespected
<1>1. DbgIInv => QuotaRespected
  BY DEF DbgIInv
<1> QED
  BY <1>1, DbgInductive, PTL

\* A host that closes without having crashed has answered every request that
\* it admitted, those that it cancelled included (debug.py 101-124).
THEOREM CloseLeavesNothing == DebugSpec => []CloseAnswers
<1>1. DbgIInv => CloseAnswers
  BY DEF DbgIInv, DebugTypeOK, DbgAnswerInv, CloseAnswers
<1> QED
  BY <1>1, DbgInductive, PTL

=============================================================================
