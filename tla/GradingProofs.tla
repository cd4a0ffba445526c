--------------------------- MODULE GradingProofs ----------------------------
(***************************************************************************)
(* Proofs about CandidateSandbox and Grading, for any calls, evaluations,  *)
(* campaigns and failed docker commands.  First the sandbox by itself: its *)
(* inductive invariant says which contexts a call is in at each command,   *)
(* that an object nobody removes any more is recorded as broken, and how   *)
(* many failures a candidate has outlived.  Then that an evaluation drives *)
(* its sandboxes only as CandidateSandbox allows (no cleanup of a checkout *)
(* touches one), so that what is proved of sandboxes holds here.  Then     *)
(* that the seed's cache entry implements SeedMemo.  The inductive         *)
(* invariant is that of a lock: who executes the seed or has its score in  *)
(* hand owns the lock of the entry, and the entry is empty until the score *)
(* is stored.                                                              *)
(***************************************************************************)
EXTENDS Grading, FiniteSetTheorems, TLAPS

-----------------------------------------------------------------------------
(* The sandbox.                                                            *)

\* The contexts a call has entered, by the command it is at.
Contexts(c) ==
  /\ at[c] \in {"idle", "lease", "returned", "network", "dead"} => made[c] = {}
  /\ at[c] \in {"attach", "ready"} => "proxy" \in made[c]
  /\ at[c] = "holder" => "holder" \in made[c]
  /\ at[c] \in {"rm holder", "rm volume", "rm proxy", "rm network", "release"}
       => at[c] = Unwind(made[c])

\* Unless something broke, what exists is what a context will remove.
Owned(c) ==
  at[c] # "dead" /\ broken[c] = {} =>
    /\ objects[c] \cap Removed \subseteq made[c]
    /\ "link" \in objects[c] => "proxy" \in made[c]
    /\ "candidate" \in objects[c] => at[c] \in {"running", "reap", "reaped"}

\* The lease is held from the first command to the last, and a candidate
\* outlives its execution only for a failure per removal.
Outlived(c) ==
  /\ at[c] \in {"idle", "lease", "returned", "dead"} \/ lease[c]
  /\ at[c] \in SetupSteps \cup {"idle", "lease", "candidate"}
       => "candidate" \notin objects[c]
  /\ "candidate" \in objects[c] =>
       \/ at[c] \in {"running", "reap", "dead"}
       \/ at[c] = "reaped" /\ faults[c] >= 1
       \/ faults[c] >= 2

Tidy(c) == Contexts(c) /\ Owned(c) /\ Outlived(c)

SandboxIInv == SandboxTypeOK /\ \A c \in Calls : Tidy(c)

LEMMA InitSandboxIInv == SandboxInit => SandboxIInv
  BY DEF SandboxInit, SandboxIInv, SandboxTypeOK, Tidy, Contexts, Owned,
         Outlived, Steps, SetupSteps, Removed

\* Where a call goes that leaves its contexts.
LEMMA UnwindSteps ==
  ASSUME NEW S \in SUBSET Removed
  PROVE  /\ Unwind(S) \in {"rm holder", "rm volume", "rm proxy",
                           "rm network", "release"}
         /\ Unwind(S) = "rm holder" => "holder" \in S
         /\ Unwind(S) = "rm volume" => "volume" \in S /\ "holder" \notin S
         /\ Unwind(S) = "rm proxy" => S \subseteq {"proxy", "network"}
         /\ Unwind(S) = "rm network" => S = {"network"}
         /\ Unwind(S) = "release" => S = {}
  BY DEF Unwind, Removed

\* What the setup's tables say of each step.
LEMMA SetupTables ==
  ASSUME NEW c \in Calls
  PROVE  /\ Yields("network") = {"network"} /\ Enters("network") = {"network"}
         /\ Yields("proxy") = {"proxy"} /\ Enters("proxy") = {"proxy"}
         /\ Yields("attach") = {"link"} /\ Enters("attach") = {}
         /\ Yields("ready") = {} /\ Enters("ready") = {}
         /\ Yields("volume") = {"volume"}
         /\ Enters("volume") = {"volume", "holder"}
         /\ Yields("holder") = {"holder"} /\ Enters("holder") = {}
         /\ After(c, "network") = "proxy" /\ After(c, "proxy") = "attach"
         /\ After(c, "attach") = "ready" /\ After(c, "volume") = "holder"
         /\ After(c, "holder") = "candidate"
         /\ After(c, "ready") \in {"volume", "candidate"}
  BY DEF Yields, Enters, After, WithEgress

LEMMA SetupRanges ==
  ASSUME NEW c \in Calls, NEW step \in SetupSteps
  PROVE  /\ Yields(step) \in SUBSET Objects
         /\ Enters(step) \in SUBSET Removed
         /\ After(c, step) \in Steps
         /\ "candidate" \notin Yields(step)
<1>1. CASE step = "network"
  BY <1>1, SetupTables DEF Objects, Removed, Steps, SetupSteps
<1>2. CASE step = "proxy"
  BY <1>2, SetupTables DEF Objects, Removed, Steps, SetupSteps
<1>3. CASE step = "attach"
  BY <1>3, SetupTables DEF Objects, Removed, Steps, SetupSteps
<1>4. CASE step = "ready"
  BY <1>4, SetupTables DEF Objects, Removed, Steps, SetupSteps
<1>5. CASE step = "volume"
  BY <1>5, SetupTables DEF Objects, Removed, Steps, SetupSteps
<1>6. CASE step = "holder"
  BY <1>6, SetupTables DEF Objects, Removed, Steps, SetupSteps
<1> QED
  BY <1>1, <1>2, <1>3, <1>4, <1>5, <1>6 DEF SetupSteps

-----------------------------------------------------------------------------
\* A step of the setup keeps the invariant of its call.
LEMMA SetupTidy ==
  ASSUME SandboxTypeOK, NEW c \in Calls, Tidy(c),
         Call(c) \/ TakeLease(c) \/ SetupDone(c) \/ SetupFails(c)
  PROVE  SandboxTypeOK' /\ Tidy(c)'
<1> USE DEF Tidy
<1>1. CASE Call(c)
  BY <1>1 DEF Call, Goes, SandboxTypeOK, Steps, SetupSteps, Contexts, Owned,
              Outlived
<1>2. CASE TakeLease(c)
  <2>1. WithLease(c) \in {"network", "volume", "candidate"}
    BY DEF WithLease, WithEgress
  <2>2. /\ \/ /\ at' = [at EXCEPT ![c] = WithLease(c)]
              /\ lease' = [lease EXCEPT ![c] = TRUE] /\ UNCHANGED verdict
           \/ /\ at' = [at EXCEPT ![c] = "returned"]
              /\ verdict' = [verdict EXCEPT ![c] = "failure"]
              /\ UNCHANGED lease
        /\ UNCHANGED <<objects, made, ran, tries, faults, broken>>
        /\ at[c] = "lease"
    BY <1>2 DEF TakeLease, Goes, Fails
  <2>3. SandboxTypeOK'
    <3>1. {"network", "volume", "candidate", "returned"} \subseteq Steps
      BY DEF Steps, SetupSteps
    <3>2. at' \in [Calls -> Steps]
      BY <2>1, <2>2, <3>1 DEF SandboxTypeOK
    <3> QED
      BY <2>2, <3>2 DEF SandboxTypeOK
  <2>4. Tidy(c)'
    BY <2>1, <2>2 DEF SandboxTypeOK, Contexts, Owned, Outlived, SetupSteps
  <2> QED
    BY <2>3, <2>4
<1>3. CASE SetupDone(c)
  <2>1. /\ objects' = [objects EXCEPT ![c] = @ \cup Yields(at[c])]
        /\ made' = [made EXCEPT ![c] = @ \cup Enters(at[c])]
        /\ at' = [at EXCEPT ![c] = After(c, at[c])]
        /\ UNCHANGED <<lease, ran, verdict, tries, faults, broken>>
        /\ at[c] \in SetupSteps
    BY <1>3 DEF SetupDone, Goes, Gains
  <2>2. /\ Yields(at[c]) \in SUBSET Objects /\ Enters(at[c]) \in SUBSET Removed
        /\ After(c, at[c]) \in Steps
    BY <2>1, SetupRanges
  <2>3. SandboxTypeOK'
    BY <2>1, <2>2 DEF SandboxTypeOK
  <2>4. /\ objects'[c] = objects[c] \cup Yields(at[c])
        /\ made'[c] = made[c] \cup Enters(at[c])
        /\ at'[c] = After(c, at[c])
    BY <2>1 DEF SandboxTypeOK
  <2>5. Contexts(c)'
    BY <2>1, <2>4, SetupTables DEF Contexts, SetupSteps
  <2>6. Owned(c)'
    <3>1. CASE at[c] = "network"
      BY <2>1, <2>4, <3>1, SetupTables DEF Owned, Contexts, Removed
    <3>2. CASE at[c] = "proxy"
      BY <2>1, <2>4, <3>2, SetupTables DEF Owned, Contexts, Removed
    <3>3. CASE at[c] = "attach"
      BY <2>1, <2>4, <3>3, SetupTables DEF Owned, Contexts, Removed
    <3>4. CASE at[c] = "ready"
      BY <2>1, <2>4, <3>4, SetupTables DEF Owned, Contexts, Removed
    <3>5. CASE at[c] = "volume"
      BY <2>1, <2>4, <3>5, SetupTables DEF Owned, Contexts, Removed
    <3>6. CASE at[c] = "holder"
      BY <2>1, <2>4, <3>6, SetupTables DEF Owned, Contexts, Removed
    <3> QED
      BY <2>1, <3>1, <3>2, <3>3, <3>4, <3>5, <3>6 DEF SetupSteps
  <2>7. Outlived(c)'
    BY <2>1, <2>4, SetupTables DEF Outlived, SetupSteps
  <2> QED
    BY <2>3, <2>5, <2>6, <2>7
<1>4. CASE SetupFails(c)
  <2>1. /\ at' = [at EXCEPT ![c] = Unwind(made[c])]
        /\ verdict' = [verdict EXCEPT ![c] = "failure"]
        /\ faults' = [faults EXCEPT ![c] = @ + 1]
        /\ UNCHANGED <<made, lease, ran, tries>>
        /\ at[c] \in SetupSteps
        /\ \/ UNCHANGED <<objects, broken>>
           \/ /\ objects' = [objects EXCEPT ![c] = @ \cup Yields(at[c])]
              /\ broken' = [broken EXCEPT ![c] =
                              @ \cup (Yields(at[c]) \cap Enters(at[c]))]
    BY <1>4 DEF SetupFails, Goes, Fails, Fault, Gains, Breaks
  <2>2. Unwind(made[c]) \in {"rm holder", "rm volume", "rm proxy",
                            "rm network", "release"}
    <3>1. made[c] \in SUBSET Removed
      BY DEF SandboxTypeOK
    <3> QED
      BY <3>1, UnwindSteps
  <2>3. Yields(at[c]) \in SUBSET Objects /\ "candidate" \notin Yields(at[c])
    BY <2>1, SetupRanges
  <2>4. SandboxTypeOK'
    <3>1. Unwind(made[c]) \in Steps
      BY <2>2 DEF Steps
    <3> QED
      BY <2>1, <2>3, <3>1 DEF SandboxTypeOK
  <2>5. /\ at'[c] = Unwind(made[c]) /\ made'[c] = made[c]
        /\ faults'[c] = faults[c] + 1 /\ faults[c] \in Nat
        /\ \/ objects'[c] = objects[c] /\ broken'[c] = broken[c]
           \/ /\ objects'[c] = objects[c] \cup Yields(at[c])
              /\ broken'[c] = broken[c] \cup (Yields(at[c]) \cap Enters(at[c]))
    BY <2>1 DEF SandboxTypeOK
  <2>6. Contexts(c)'
    BY <2>1, <2>2, <2>5 DEF Contexts
  <2>7. Owned(c)'
    <3>a. /\ "candidate" \notin objects'[c]
          /\ broken'[c] = {} => /\ broken[c] = {}
                               /\ \/ objects'[c] = objects[c]
                                  \/ Yields(at[c]) \cap Enters(at[c]) = {}
      BY <2>1, <2>3, <2>5 DEF Outlived, SetupSteps
    <3>1. CASE at[c] = "network"
      BY <2>1, <2>2, <2>5, <3>1, <3>a, SetupTables
      DEF Owned, Contexts, Removed
    <3>2. CASE at[c] = "proxy"
      BY <2>1, <2>2, <2>5, <3>2, <3>a, SetupTables
      DEF Owned, Contexts, Removed
    <3>3. CASE at[c] = "attach"
      BY <2>1, <2>2, <2>5, <3>3, <3>a, SetupTables
      DEF Owned, Contexts, Removed
    <3>4. CASE at[c] = "ready"
      BY <2>1, <2>2, <2>5, <3>4, <3>a, SetupTables
      DEF Owned, Contexts, Removed
    <3>5. CASE at[c] = "volume"
      BY <2>1, <2>2, <2>5, <3>5, <3>a, SetupTables
      DEF Owned, Contexts, Removed
    <3>6. CASE at[c] = "holder"
      <4>1. /\ "holder" \in made[c] /\ at[c] # "dead"
            /\ objects'[c] \subseteq objects[c] \cup {"holder"}
        BY <2>5, <3>6, SetupTables DEF Contexts
      <4> QED
        BY <2>2, <2>5, <3>a, <4>1 DEF Owned, Removed
    <3> QED
      BY <2>1, <3>1, <3>2, <3>3, <3>4, <3>5, <3>6 DEF SetupSteps
  <2>8. Outlived(c)'
    BY <2>1, <2>2, <2>3, <2>5 DEF Outlived, SetupSteps
  <2> QED
    BY <2>4, <2>6, <2>7, <2>8
<1> QED
  BY <1>1, <1>2, <1>3, <1>4

LEMMA LeavingSteps ==
  ASSUME SandboxTypeOK, NEW c \in Calls, NEW S
  PROVE  /\ Unwind(made[c]) \in {"rm holder", "rm volume", "rm proxy",
                                 "rm network", "release"}
         /\ Unwind(made[c] \ S) \in {"rm holder", "rm volume", "rm proxy",
                                      "rm network", "release"}
         /\ Unwind(made[c]) \in Steps /\ Unwind(made[c] \ S) \in Steps
<1>1. made[c] \in SUBSET Removed /\ made[c] \ S \in SUBSET Removed
  BY DEF SandboxTypeOK
<1>2. {"rm holder", "rm volume", "rm proxy", "rm network", "release"}
        \subseteq Steps
  BY DEF Steps
<1>3. Unwind(made[c]) \in {"rm holder", "rm volume", "rm proxy",
                          "rm network", "release"}
  BY <1>1, UnwindSteps
<1>4. Unwind(made[c] \ S) \in {"rm holder", "rm volume", "rm proxy",
                               "rm network", "release"}
  BY <1>1, UnwindSteps
<1> QED
  BY <1>2, <1>3, <1>4

\* _exec keeps the invariant of its call.
LEMMA RunTidy ==
  ASSUME SandboxTypeOK, NEW c \in Calls, Tidy(c),
         \/ StartCandidate(c) \/ CandidateExits(c) \/ ClientExits(c)
         \/ TimesOut(c) \/ Reap(c) \/ ReapAgain(c) \/ Export(c)
  PROVE  SandboxTypeOK' /\ Tidy(c)'
<1> DEFINE to == Unwind(made[c])
<1>a. /\ to \in {"rm holder", "rm volume", "rm proxy", "rm network", "release"}
      /\ to \in Steps
  BY LeavingSteps
<1>b. {"running", "reap", "reaped", "export"} \subseteq Steps
  BY DEF Steps
<1> HIDE DEF to
<1>c. "candidate" \in Objects /\ "candidate" \notin Removed
  BY DEF Objects, Removed
<1> USE DEF Goes, Fails, Gains, Loses, Breaks, Fault, ForceRemove
<1>d. at[c] \in {"running", "reap", "reaped", "export"} =>
        lease[c] /\ at[c] \notin SetupSteps \cup {"idle", "lease", "candidate"}
  BY DEF Tidy, Outlived, SetupSteps
<1>1. CASE StartCandidate(c)
  <2>1. "candidate" \notin objects[c] /\ lease[c] /\ at[c] = "candidate"
    BY <1>1 DEF StartCandidate, Tidy, Outlived
  <2>2. CASE /\ Gains(c, {"candidate"}) /\ Goes(c, "running")
             /\ UNCHANGED <<ran, verdict, faults>>
    <3>1. SandboxTypeOK'
      BY <1>1, <1>b, <1>c, <2>2 DEF StartCandidate, SandboxTypeOK
    <3>2. Tidy(c)'
      BY <1>1, <1>c, <2>1, <2>2
      DEF StartCandidate, SandboxTypeOK, Tidy, Contexts, Owned, Outlived,
          SetupSteps
    <3> QED
      BY <3>1, <3>2
  <2>3. CASE /\ Fault(c) /\ ran' = [ran EXCEPT ![c] = "error"]
             /\ Goes(c, "reaped") /\ UNCHANGED <<objects, verdict>>
    <3>1. SandboxTypeOK'
      BY <1>1, <1>b, <2>3 DEF StartCandidate, SandboxTypeOK
    <3>2. Tidy(c)'
      BY <1>1, <2>1, <2>3
      DEF StartCandidate, SandboxTypeOK, Tidy, Contexts, Owned, Outlived
    <3> QED
      BY <3>1, <3>2
  <2>4. CASE /\ Fault(c) /\ Fails(c) /\ Goes(c, to)
             /\ UNCHANGED <<objects, ran>>
    <3>1. SandboxTypeOK'
      <4>1. at' \in [Calls -> Steps]
        BY <1>a, <2>4 DEF SandboxTypeOK
      <4> QED
        BY <1>1, <2>4, <4>1 DEF StartCandidate, SandboxTypeOK
    <3>2. Tidy(c)'
      BY <1>1, <1>a, <2>1, <2>4
      DEF to, StartCandidate, SandboxTypeOK, Tidy, Contexts, Owned, Outlived
    <3> QED
      BY <3>1, <3>2
  <2> QED
    BY <1>1, <2>2, <2>3, <2>4 DEF StartCandidate, to
<1>2. CASE CandidateExits(c)
  <2>1. SandboxTypeOK'
    BY <1>2, <1>b DEF CandidateExits, SandboxTypeOK
  <2>2. Tidy(c)'
    BY <1>2, <1>c, <1>d
    DEF CandidateExits, SandboxTypeOK, Tidy, Contexts, Owned, Outlived,
        SetupSteps
  <2> QED
    BY <2>1, <2>2
<1>3. CASE ClientExits(c)
  <2>1. SandboxTypeOK'
    BY <1>3, <1>b DEF ClientExits, SandboxTypeOK
  <2>2. Tidy(c)'
    BY <1>3, <1>d
    DEF ClientExits, SandboxTypeOK, Tidy, Contexts, Owned, Outlived, SetupSteps
  <2> QED
    BY <2>1, <2>2
<1>4. CASE TimesOut(c)
  <2>1. SandboxTypeOK'
    BY <1>4, <1>b DEF TimesOut, SandboxTypeOK
  <2>2. Tidy(c)'
    BY <1>4, <1>d
    DEF TimesOut, SandboxTypeOK, Tidy, Contexts, Owned, Outlived, SetupSteps
  <2> QED
    BY <2>1, <2>2
<1>5. CASE Reap(c)
  <2>1. SandboxTypeOK'
    BY <1>5, <1>b DEF Reap, SandboxTypeOK
  <2>2. Tidy(c)'
    BY <1>5, <1>c, <1>d
    DEF Reap, SandboxTypeOK, Tidy, Contexts, Owned, Outlived, SetupSteps
  <2> QED
    BY <2>1, <2>2
<1>6. CASE ReapAgain(c)
  <2>1. \/ at' = [at EXCEPT ![c] = "export"] /\ UNCHANGED verdict
        \/ /\ at' = [at EXCEPT ![c] = to]
           /\ \E v \in {"success", "failure"} :
                verdict' = [verdict EXCEPT ![c] = v]
    BY <1>6 DEF ReapAgain, to
  <2>2. /\ at[c] = "reaped"
        /\ \/ /\ objects' = [objects EXCEPT ![c] = @ \ {"candidate"}]
              /\ UNCHANGED faults
           \/ /\ faults' = [faults EXCEPT ![c] = @ + 1]
              /\ UNCHANGED objects
        /\ broken' = [broken EXCEPT ![c] = @ \cup (objects'[c] \cap {"candidate"})]
        /\ UNCHANGED <<made, lease, ran, tries>>
    BY <1>6 DEF ReapAgain
  <2>3. SandboxTypeOK'
    <3>1. at' \in [Calls -> Steps]
          /\ verdict' \in [Calls -> {"none", "success", "failure"}]
      BY <1>a, <1>b, <2>1 DEF SandboxTypeOK
    <3>2. /\ objects' \in [Calls -> SUBSET Objects]
          /\ faults' \in [Calls -> Nat]
          /\ broken' \in [Calls -> SUBSET Objects]
      BY <1>c, <2>2 DEF SandboxTypeOK
    <3> QED
      BY <2>2, <3>1, <3>2 DEF SandboxTypeOK
  <2>4. /\ at'[c] = "export" \/ at'[c] = to
        /\ made'[c] = made[c] /\ lease'[c] = lease[c] /\ lease[c]
        /\ objects'[c] \subseteq objects[c]
        /\ "candidate" \in objects'[c] => faults'[c] = faults[c] + 1
        /\ broken'[c] = broken[c] \cup (objects'[c] \cap {"candidate"})
        /\ faults[c] \in Nat
    BY <1>d, <2>1, <2>2 DEF SandboxTypeOK
  <2>5. Contexts(c)'
    BY <1>a, <2>4 DEF Contexts, to
  <2>6. Owned(c)'
    BY <2>2, <2>4 DEF Tidy, Owned
  <2>7. /\ at'[c] \notin SetupSteps \cup {"idle", "lease", "candidate"}
        /\ "candidate" \in objects'[c] => faults'[c] >= 2
    <3>1. at'[c] \notin SetupSteps \cup {"idle", "lease", "candidate"}
      BY <1>a, <2>4 DEF SetupSteps
    <3>2. "candidate" \in objects[c] => faults[c] >= 1
      BY <2>2, <2>4 DEF Tidy, Outlived
    <3> QED
      BY <2>4, <3>1, <3>2
  <2>8. Outlived(c)'
    BY <2>4, <2>7 DEF Outlived
  <2> QED
    BY <2>3, <2>5, <2>6, <2>8 DEF Tidy
<1>7. CASE Export(c)
  <2>1. /\ \E v \in {"success", "failure"} :
             verdict' = [verdict EXCEPT ![c] = v]
        /\ faults' = faults \/ faults' = [faults EXCEPT ![c] = @ + 1]
        /\ at[c] = "export" /\ at' = [at EXCEPT ![c] = to]
        /\ UNCHANGED <<objects, made, lease, ran, tries, broken>>
    BY <1>7 DEF Export, to
  <2>2. SandboxTypeOK'
    <3>1. at' \in [Calls -> Steps]
      BY <1>a, <2>1 DEF SandboxTypeOK
    <3> QED
      BY <2>1, <3>1 DEF SandboxTypeOK
  <2>3. /\ at'[c] = to /\ made'[c] = made[c] /\ lease'[c]
        /\ objects'[c] = objects[c] /\ broken'[c] = broken[c]
        /\ faults[c] \in Nat /\ faults'[c] \in Nat /\ faults'[c] >= faults[c]
    BY <1>d, <2>1 DEF SandboxTypeOK
  <2>4. Contexts(c)'
    BY <1>a, <2>3 DEF Contexts, to
  <2>5. Owned(c)' /\ Outlived(c)'
    <3>1. at'[c] \notin SetupSteps \cup {"idle", "lease", "candidate"}
      BY <1>a, <2>3 DEF SetupSteps
    <3>2. Owned(c)'
      BY <2>1, <2>3 DEF Tidy, Owned
    <3>3. Outlived(c)'
      BY <2>1, <2>3, <3>1 DEF Tidy, Outlived
    <3> QED
      BY <3>2, <3>3
  <2> QED
    BY <2>2, <2>4, <2>5 DEF Tidy
<1> QED
  BY <1>1, <1>2, <1>3, <1>4, <1>5, <1>6, <1>7

\* A removal: what the call stops owning is gone, or recorded as broken.
Withdraws(c, S) ==
  /\ at[c] \in {"rm holder", "rm volume", "rm proxy", "rm network"} /\ lease[c]
  /\ Leaves(c, S)
  /\ objects' \in [Calls -> SUBSET Objects] /\ objects'[c] \subseteq objects[c]
  /\ broken' \in [Calls -> SUBSET Objects] /\ broken[c] \subseteq broken'[c]
  /\ verdict' \in [Calls -> {"none", "success", "failure"}]
  /\ faults' \in [Calls -> Nat] /\ faults'[c] >= faults[c]
  /\ tries' \in [Calls -> Nat]
  /\ UNCHANGED <<lease, ran>>
  /\ broken'[c] = {} => /\ objects'[c] \cap S = {}
                        /\ "proxy" \in S => "link" \notin objects'[c]

LEMMA WithdrawsTidy ==
  ASSUME SandboxTypeOK, NEW c \in Calls, Tidy(c), NEW S, Withdraws(c, S)
  PROVE  SandboxTypeOK' /\ Tidy(c)'
<1> DEFINE to == Unwind(made[c] \ S)
<1>1. /\ made' = [made EXCEPT ![c] = @ \ S] /\ at' = [at EXCEPT ![c] = to]
  BY DEF Withdraws, Leaves, Goes
<1>2. /\ to \in {"rm holder", "rm volume", "rm proxy", "rm network", "release"}
      /\ to \in Steps
  BY LeavingSteps
<1> HIDE DEF to
<1>3. SandboxTypeOK'
  <2>1. at' \in [Calls -> Steps] /\ made' \in [Calls -> SUBSET Removed]
    BY <1>1, <1>2 DEF SandboxTypeOK
  <2> QED
    BY <2>1 DEF Withdraws, SandboxTypeOK
<1>4. at'[c] = to /\ made'[c] = made[c] \ S /\ lease'[c]
  BY <1>1 DEF Withdraws, SandboxTypeOK
<1>5. Contexts(c)'
  BY <1>2, <1>4 DEF Contexts, to
<1>6. Owned(c)'
  BY <1>4 DEF Withdraws, Tidy, Owned, Removed
<1>7. Outlived(c)'
  <2>1. to \notin SetupSteps \cup {"idle", "lease", "candidate"}
    BY <1>2 DEF SetupSteps
  <2>2. "candidate" \in objects'[c] => faults[c] >= 2
    BY DEF Withdraws, Tidy, Outlived
  <2>3. "candidate" \in objects'[c] => faults'[c] >= 2
    <3>1. faults[c] \in Nat /\ faults'[c] \in Nat /\ faults'[c] >= faults[c]
      BY DEF Withdraws, SandboxTypeOK
    <3>2. "candidate" \in objects'[c] => "candidate" \in objects[c]
      BY DEF Withdraws
    <3> QED
      BY <2>2, <3>1, <3>2
  <2> QED
    BY <1>4, <2>1, <2>3 DEF Outlived
<1> QED
  BY <1>3, <1>5, <1>6, <1>7 DEF Tidy

\* Leaving the contexts keeps the invariant of its call.
LEMMA LeaveTidy ==
  ASSUME SandboxTypeOK, NEW c \in Calls, Tidy(c),
         \/ RemoveHolder(c) \/ RemoveVolume(c) \/ RemoveProxy(c)
         \/ RemoveNetwork(c) \/ Release(c)
  PROVE  SandboxTypeOK' /\ Tidy(c)'
<1>a. {"holder", "volume", "proxy", "network"} \subseteq Objects
  BY DEF Objects
<1>b. at[c] \in {"rm holder", "rm volume", "rm proxy", "rm network"} => lease[c]
  BY DEF Tidy, Outlived
<1>c. /\ at[c] = "rm volume" => "holder" \notin made[c]
      /\ at[c] = "release" => made[c] = {}
  BY DEF SandboxTypeOK, Tidy, Contexts, Unwind, Removed
<1>h. faults \in [Calls -> Nat] /\ faults[c] >= faults[c]
  BY DEF SandboxTypeOK
\* What a failed command changes, and a removal that is carried out.
<1>d. ASSUME Fault(c)
      PROVE  faults' \in [Calls -> Nat] /\ faults'[c] >= faults[c]
  BY <1>d DEF Fault, SandboxTypeOK
<1>e. ASSUME NEW S, Loses(c, S)
      PROVE  /\ objects' \in [Calls -> SUBSET Objects]
             /\ objects'[c] = objects[c] \ S
  BY <1>e DEF Loses, SandboxTypeOK
<1>f. ASSUME NEW S \in SUBSET Objects, Breaks(c, S)
      PROVE  /\ broken' \in [Calls -> SUBSET Objects]
             /\ broken'[c] = broken[c] \cup S
  BY <1>f DEF Breaks, SandboxTypeOK
<1>g. ASSUME Fails(c)
      PROVE  verdict' \in [Calls -> {"none", "success", "failure"}]
  BY <1>g DEF Fails, SandboxTypeOK
<1>1. CASE RemoveHolder(c)
  <2>1. at[c] = "rm holder" /\ UNCHANGED <<lease, ran, tries>> /\ lease[c]
    BY <1>1, <1>b DEF RemoveHolder
  <2>2. CASE /\ Loses(c, {"holder"}) /\ Leaves(c, {"holder"})
             /\ UNCHANGED <<verdict, faults, broken>>
    <3>1. Withdraws(c, {"holder"})
      BY <1>e, <1>h, <2>1, <2>2 DEF Withdraws, SandboxTypeOK
    <3> QED
      BY <3>1, WithdrawsTidy
  <2>3. ASSUME NEW S, Leaves(c, S), Fault(c), Breaks(c, {"holder"}),
               UNCHANGED verdict \/ Fails(c),
               UNCHANGED objects \/ Loses(c, {"holder"})
        PROVE  SandboxTypeOK' /\ Tidy(c)'
    <3>1. "holder" \in broken'[c]
      BY <1>a, <1>f, <2>3
    <3>2. Withdraws(c, S)
      BY <1>a, <1>d, <1>e, <1>f, <1>g, <2>1, <2>3, <3>1
      DEF Withdraws, SandboxTypeOK
    <3> QED
      BY <3>2, WithdrawsTidy
  <2> QED
    BY <1>1, <2>2, <2>3 DEF RemoveHolder, MayLose
<1>2. CASE RemoveVolume(c)
  <2>1. /\ at[c] = "rm volume" /\ Leaves(c, {"volume"})
        /\ UNCHANGED <<lease, ran, tries>> /\ lease[c]
    BY <1>2, <1>b DEF RemoveVolume
  <2>2. CASE /\ IF objects[c] \cap {"holder", "candidate"} = {}
                  THEN Loses(c, {"volume"}) ELSE UNCHANGED objects
             /\ UNCHANGED <<verdict, faults, broken>>
    <3>1. broken[c] = {} => objects[c] \cap {"holder", "candidate"} = {}
      BY <1>c, <2>1 DEF Tidy, Owned, Removed
    <3>2. Withdraws(c, {"volume"})
      BY <1>e, <1>h, <2>1, <2>2, <3>1 DEF Withdraws, SandboxTypeOK
    <3> QED
      BY <3>2, WithdrawsTidy
  <2>3. CASE /\ Fault(c) /\ Breaks(c, {"volume"})
             /\ \/ UNCHANGED <<objects, verdict>>
                \/ Fails(c) /\ MayLose(c, {"volume"})
    <3>1. "volume" \in broken'[c]
      BY <1>a, <1>f, <2>3
    <3>2. Withdraws(c, {"volume"})
      BY <1>a, <1>d, <1>e, <1>f, <1>g, <2>1, <2>3, <3>1
      DEF Withdraws, MayLose, SandboxTypeOK
    <3> QED
      BY <3>2, WithdrawsTidy
  <2> QED
    BY <1>2, <2>2, <2>3 DEF RemoveVolume
<1>3. CASE RemoveProxy(c)
  <2>1. /\ at[c] = "rm proxy" /\ Leaves(c, {"proxy"})
        /\ UNCHANGED <<lease, ran, verdict, tries>> /\ lease[c]
    BY <1>3, <1>b DEF RemoveProxy
  <2>2. CASE Loses(c, {"proxy", "link"}) /\ UNCHANGED <<faults, broken>>
    <3>1. /\ objects'[c] \cap {"proxy"} = {} /\ "link" \notin objects'[c]
          /\ objects' \in [Calls -> SUBSET Objects]
          /\ objects'[c] \subseteq objects[c]
      BY <1>e, <2>2
    <3>2. Withdraws(c, {"proxy"})
      BY <1>h, <2>1, <2>2, <3>1 DEF Withdraws, SandboxTypeOK
    <3> QED
      BY <3>2, WithdrawsTidy
  <2>3. CASE Fault(c) /\ Breaks(c, {"proxy"}) /\ MayLose(c, {"proxy", "link"})
    <3>1. "proxy" \in broken'[c]
      BY <1>a, <1>f, <2>3
    <3>2. Withdraws(c, {"proxy"})
      BY <1>a, <1>d, <1>e, <1>f, <2>1, <2>3, <3>1
      DEF Withdraws, MayLose, SandboxTypeOK
    <3> QED
      BY <3>2, WithdrawsTidy
  <2> QED
    BY <1>3, <2>2, <2>3 DEF RemoveProxy
<1>4. CASE RemoveNetwork(c)
  <2>1. at[c] = "rm network" /\ UNCHANGED <<lease, ran, verdict>> /\ lease[c]
    BY <1>4, <1>b DEF RemoveNetwork
  <2>2. CASE /\ "network" \in objects[c] /\ ~InUse(c)
             /\ Loses(c, {"network"}) /\ Leaves(c, {"network"})
             /\ UNCHANGED <<tries, faults, broken>>
    <3>1. Withdraws(c, {"network"})
      BY <1>e, <1>h, <2>1, <2>2 DEF Withdraws, SandboxTypeOK
    <3> QED
      BY <3>1, WithdrawsTidy
  <2>3. ASSUME \/ UNCHANGED <<objects, faults>>
               \/ Fault(c) /\ MayLose(c, {"network"}),
               tries' = [tries EXCEPT ![c] = @ + 1]
        PROVE  /\ objects' \in [Calls -> SUBSET Objects]
               /\ objects'[c] \subseteq objects[c]
               /\ faults' \in [Calls -> Nat] /\ faults'[c] >= faults[c]
               /\ tries' \in [Calls -> Nat]
    <3>1. tries' \in [Calls -> Nat]
      BY <2>3 DEF SandboxTypeOK
    <3>2. /\ objects' \in [Calls -> SUBSET Objects]
          /\ objects'[c] \subseteq objects[c]
      BY <1>e, <2>3 DEF MayLose, SandboxTypeOK
    <3>3. faults' \in [Calls -> Nat] /\ faults'[c] >= faults[c]
      BY <1>d, <2>3 DEF SandboxTypeOK
    <3> QED
      BY <3>1, <3>2, <3>3
  <2>4. ASSUME \/ UNCHANGED <<objects, faults>>
               \/ Fault(c) /\ MayLose(c, {"network"}),
               tries' = [tries EXCEPT ![c] = @ + 1],
               UNCHANGED <<at, made, broken>>
        PROVE  SandboxTypeOK' /\ Tidy(c)'
    <3>1. SandboxTypeOK'
      BY <2>1, <2>3, <2>4 DEF SandboxTypeOK
    <3>2. Contexts(c)' /\ Owned(c)'
      BY <2>1, <2>3, <2>4 DEF Tidy, Contexts, Owned
    <3>3. "candidate" \in objects'[c] => faults'[c] >= 2
      <4>1. "candidate" \in objects'[c] => faults[c] >= 2
        BY <2>1, <2>3, <2>4 DEF Tidy, Outlived
      <4>2. faults[c] \in Nat /\ faults'[c] \in Nat
        BY <3>1 DEF SandboxTypeOK
      <4> QED
        BY <2>3, <2>4, <4>1, <4>2
    <3>4. Outlived(c)'
      BY <2>1, <2>4, <3>3 DEF Outlived, SetupSteps
    <3> QED
      BY <3>1, <3>2, <3>4 DEF Tidy
  <2>5. ASSUME \/ UNCHANGED <<objects, faults>>
               \/ Fault(c) /\ MayLose(c, {"network"}),
               tries' = [tries EXCEPT ![c] = @ + 1],
               Leaves(c, {"network"}),
               Breaks(c, objects'[c] \cap {"network"})
        PROVE  SandboxTypeOK' /\ Tidy(c)'
    <3>1. /\ broken' \in [Calls -> SUBSET Objects]
          /\ broken'[c] = broken[c] \cup (objects'[c] \cap {"network"})
      BY <1>a, <1>f, <2>5
    <3>2. Withdraws(c, {"network"})
      BY <2>1, <2>3, <2>5, <3>1 DEF Withdraws, SandboxTypeOK
    <3> QED
      BY <3>2, WithdrawsTidy
  <2> QED
    BY <1>4, <2>2, <2>4, <2>5 DEF RemoveNetwork
<1>5. CASE Release(c)
  <2>1. made[c] = {}
    BY <1>5, <1>c DEF Release
  <2>2. SandboxTypeOK'
    BY <1>5 DEF Release, Goes, SandboxTypeOK, Steps
  <2>3. /\ at[c] = "release" /\ at'[c] = "returned" /\ made'[c] = {}
        /\ UNCHANGED <<objects, made, faults, broken>>
    BY <1>5, <2>1 DEF Release, Goes, SandboxTypeOK
  <2>4. Contexts(c)' /\ Owned(c)'
    BY <2>1, <2>3 DEF Tidy, Contexts, Owned
  <2>5. Outlived(c)'
    BY <2>3 DEF Tidy, Outlived, SetupSteps
  <2> QED
    BY <2>2, <2>4, <2>5 DEF Tidy
<1> QED
  BY <1>1, <1>2, <1>3, <1>4, <1>5

\* So do the caller, its death and the end of an orphan.
LEMMA OtherTidy ==
  ASSUME SandboxTypeOK, NEW c \in Calls, Tidy(c),
         Answered(c) \/ Killed(c) \/ OrphanExits(c)
  PROVE  SandboxTypeOK' /\ Tidy(c)'
<1>1. CASE Answered(c)
  BY <1>1 DEF Answered, SandboxTypeOK, Tidy, Contexts, Owned, Outlived
<1>2. CASE Killed(c)
  BY <1>2 DEF Killed, Goes, SandboxTypeOK, Steps, Tidy, Contexts, Owned,
              Outlived, SetupSteps
<1>3. CASE OrphanExits(c)
  BY <1>3 DEF OrphanExits, Loses, SandboxTypeOK, Tidy, Contexts, Owned, Outlived
<1> QED
  BY <1>1, <1>2, <1>3

-----------------------------------------------------------------------------
CallStep(c) ==
  Call(c) \/ Work(c) \/ Answered(c) \/ Killed(c) \/ OrphanExits(c)

\* A call's step leaves the other calls alone.
LEMMA OthersAlone ==
  ASSUME SandboxTypeOK, NEW c \in Calls, CallStep(c),
         NEW d \in Calls, d # c
  PROVE  UNCHANGED <<at[d], objects[d], made[d], lease[d], faults[d], broken[d]>>
<1> USE DEF SandboxTypeOK, Goes, Fails, Gains, Loses, MayLose, Leaves, Breaks,
            Fault, ForceRemove
<1>1. CASE Call(c) \/ TakeLease(c) \/ SetupDone(c) \/ SetupFails(c)
  BY <1>1 DEF Call, TakeLease, SetupDone, SetupFails
<1>2. CASE StartCandidate(c) \/ CandidateExits(c) \/ ClientExits(c)
  BY <1>2 DEF StartCandidate, CandidateExits, ClientExits
<1>3. CASE TimesOut(c) \/ Reap(c) \/ ReapAgain(c) \/ Export(c)
  BY <1>3 DEF TimesOut, Reap, ReapAgain, Export
<1>4. CASE RemoveHolder(c) \/ RemoveVolume(c) \/ RemoveProxy(c)
  BY <1>4 DEF RemoveHolder, RemoveVolume, RemoveProxy
<1>5. CASE Release(c) \/ Answered(c)
  BY <1>5 DEF Release, Answered
<1>6. CASE Killed(c) \/ OrphanExits(c)
  BY <1>6 DEF Killed, OrphanExits
<1>7. CASE RemoveNetwork(c)
  <2>1. /\ UNCHANGED <<lease, ran, verdict>>
        /\ UNCHANGED objects \/ objects' = [objects EXCEPT ![c] = @ \ {"network"}]
        /\ UNCHANGED faults \/ faults' = [faults EXCEPT ![c] = @ + 1]
    BY <1>7 DEF RemoveNetwork
  <2>2. \/ UNCHANGED <<at, made>>
        \/ Leaves(c, {"network"})
    BY <1>7 DEF RemoveNetwork
  <2>3. \/ UNCHANGED broken
        \/ Breaks(c, objects'[c] \cap {"network"})
    BY <1>7 DEF RemoveNetwork
  <2> QED
    BY <2>1, <2>2, <2>3
<1> QED
  BY <1>1, <1>2, <1>3, <1>4, <1>5, <1>6, <1>7 DEF CallStep, Work

LEMMA OthersTidy ==
  ASSUME SandboxTypeOK, NEW c \in Calls, CallStep(c),
         NEW d \in Calls, d # c, Tidy(d)
  PROVE  Tidy(d)'
  BY OthersAlone DEF Tidy, Contexts, Owned, Outlived

LEMMA CallStepIInv ==
  ASSUME SandboxIInv, NEW c \in Calls, CallStep(c)
  PROVE  SandboxIInv'
<1>1. SandboxTypeOK /\ Tidy(c)
  BY DEF SandboxIInv
<1>2. SandboxTypeOK' /\ Tidy(c)'
  BY <1>1, SetupTidy, RunTidy, LeaveTidy, OtherTidy DEF CallStep, Work
<1>3. ASSUME NEW d \in Calls, d # c PROVE Tidy(d)'
  BY <1>1, <1>3, OthersTidy DEF SandboxIInv
<1> QED
  BY <1>2, <1>3 DEF SandboxIInv

LEMMA NextSandboxIInv == SandboxIInv /\ [SandboxNext]_sandbox => SandboxIInv'
<1>1. ASSUME SandboxIInv, UNCHANGED sandbox PROVE SandboxIInv'
  BY <1>1 DEF sandbox, SandboxIInv, SandboxTypeOK, Tidy, Contexts, Owned, Outlived
<1> QED
  BY <1>1, CallStepIInv DEF SandboxNext, CallStep

-----------------------------------------------------------------------------
\* Types.
THEOREM SandboxTypes == SandboxSpec => []SandboxTypeOK
<1>1. SandboxIInv => SandboxTypeOK
  BY DEF SandboxIInv
<1> QED
  BY <1>1, InitSandboxIInv, NextSandboxIInv, PTL DEF SandboxSpec

\* A call that returned, and about which nothing is recorded as broken, has
\* left no container, volume or network behind: whichever command of the setup
\* failed, and wherever the execution was when it ended.
THEOREM ReturnsClean == SandboxSpec => []NothingLeft
<1>1. SandboxIInv => NothingLeft
  <2> SUFFICES ASSUME SandboxIInv, NEW c \in Calls, at[c] = "returned",
                      broken[c] = {}
               PROVE  objects[c] = {}
    BY DEF NothingLeft
  <2>1. objects[c] \subseteq Removed \cup {"link", "candidate"}
    BY DEF SandboxIInv, SandboxTypeOK, Objects, Removed
  <2> QED
    BY <2>1 DEF SandboxIInv, Tidy, Contexts, Owned
<1> QED
  BY <1>1, InitSandboxIInv, NextSandboxIInv, PTL DEF SandboxSpec

\* CPUs and license slot are given back when the candidate is gone, unless two
\* docker commands failed.
THEOREM LeaseOutlivesCandidate == SandboxSpec => []CandidateGoneFirst
<1>1. SandboxIInv => CandidateGoneFirst
  BY DEF SandboxIInv, Tidy, Outlived, SetupSteps, CandidateGoneFirst
<1> QED
  BY <1>1, InitSandboxIInv, NextSandboxIInv, PTL DEF SandboxSpec

-----------------------------------------------------------------------------
(* The evaluations.                                                        *)

EvalTypeOK ==
  /\ campaign \in Campaigns
  /\ stage \in [Evals -> Stages]
  /\ phase \in [Evals -> {"idle", "open", "locked", "running", "judged",
                          "stored", "ended", "killed"}]
  /\ record \in [Calls -> {"none", "running", "completed", "failed"}]
  /\ score \in [Calls -> Scores \cup {None}]
  /\ lock \in [Stages -> Evals \cup {None}]
  /\ cache \in [Stages -> Scores \cup {None}]
  /\ coord \in [Graded -> {"queued", "grading", "cleaning", "final"}]
  /\ cleaned \subseteq Graded
  /\ kills \in Nat

LEMMA CallOf == \A e \in Evals, s \in Stages : <<e, s>> \in Calls
  BY GradingAssumption

LEMMA InCampaign == EvalTypeOK => campaign \subseteq Evals
  BY GradingAssumption DEF EvalTypeOK

LEMMA InitEvalTypeOK == Init => EvalTypeOK
  BY DEF Init, EvalTypeOK, Stages

\* Every step keeps the types of an evaluation's variables.
LEMMA NextEvalTypeOK == EvalTypeOK /\ [Next]_vars => EvalTypeOK'
<1> SUFFICES ASSUME EvalTypeOK, [Next]_vars PROVE EvalTypeOK'
  OBVIOUS
<1> USE CallOf
<1>1. ASSUME NEW e \in Evals, Evaluate(e) PROVE EvalTypeOK'
  <2> USE DEF Enter, Current, EvalTypeOK
  <2>0. Current(e) \in Calls
    OBVIOUS
  <2>1. CASE Begin(e)
    BY <2>0, <2>1 DEF Begin, grader
  <2>2. CASE Acquire(e)
    BY <2>2 DEF Acquire, grader
  <2>3. CASE Hit(e)
    BY <2>0, <2>3 DEF Hit, grader
  <2>4. CASE Miss(e)
    BY <2>4 DEF Miss, grader
  <2>5. CASE Execute(e)
    BY <2>5 DEF Execute, evaluation, grader
  <2>6. CASE Judge(e)
    BY <2>0, <2>6 DEF Judge, grader
  <2>7. CASE Raise(e)
    BY <2>0, <2>7 DEF Raise, Freed, grader
  <2>8. CASE Store(e)
    BY <2>0, <2>8 DEF Store, grader
  <2>9. CASE Complete(e)
    BY <2>0, <2>9 DEF Complete, Freed, grader, Stages
  <2> QED
    BY <1>1, <2>1, <2>2, <2>3, <2>4, <2>5, <2>6, <2>7, <2>8, <2>9 DEF Evaluate
<1>2. ASSUME NEW e \in Evals, Kill(e) \/ GradingTimesOut(e) PROVE EvalTypeOK'
  BY <1>2 DEF Kill, GradingTimesOut, Dies, Freed, Enter, EvalTypeOK
<1>3. ASSUME NEW e \in Graded, Coordinate(e) PROVE EvalTypeOK'
  BY <1>3
  DEF Coordinate, GradeNext, WorkerReturns, CleanupCheckout, evaluation,
      EvalTypeOK
<1>4. CASE Orphans \/ Ended \/ UNCHANGED vars
  BY <1>4 DEF Orphans, Ended, vars, evaluation, grader, EvalTypeOK
<1> QED
  BY <1>1, <1>2, <1>3, <1>4, InCampaign DEF Next

-----------------------------------------------------------------------------
(* The sandboxes of an evaluation.                                         *)

\* The cleanup of a checkout finds no container: it looks for another mount.
LEMMA NoContainerOfCheckout == \A e \in Evals : CheckoutContainers(e) = {}
  BY DEF CheckoutContainers, CodeMount, CheckoutCode

LEMMA SandboxStep ==
  EvalTypeOK /\ SandboxTypeOK /\ [Next]_vars => [SandboxNext]_sandbox
<1> SUFFICES ASSUME EvalTypeOK, SandboxTypeOK, [Next]_vars
             PROVE  [SandboxNext]_sandbox
  OBVIOUS
<1>a. ASSUME NEW e \in Evals PROVE Current(e) \in Calls
  BY CallOf DEF Current, EvalTypeOK
<1>1. ASSUME NEW e \in Evals, Evaluate(e) PROVE [SandboxNext]_sandbox
  BY <1>1, <1>a
  DEF Evaluate, Begin, Acquire, Hit, Miss, Execute, Judge, Raise, Store,
      Complete, SandboxNext
<1>2. ASSUME NEW e \in Evals, Kill(e) \/ GradingTimesOut(e)
      PROVE  [SandboxNext]_sandbox
  BY <1>2, <1>a DEF Kill, GradingTimesOut, Dies, SandboxNext
<1>3. ASSUME NEW e \in Evals, Coordinate(e) PROVE UNCHANGED sandbox
  <2>1. CASE GradeNext(e) \/ WorkerReturns(e)
    BY <2>1 DEF GradeNext, WorkerReturns
  <2>2. CASE CleanupCheckout(e)
    <3>1. UNCHANGED <<at, made, lease, ran, verdict, tries, faults, broken>>
      BY <2>2 DEF CleanupCheckout
    <3>2. objects' = objects
      BY <2>2, NoContainerOfCheckout DEF CleanupCheckout, SandboxTypeOK
    <3> QED
      BY <3>1, <3>2 DEF sandbox
  <2> QED
    BY <1>3, <2>1, <2>2 DEF Coordinate
<1>4. CASE Orphans \/ Ended \/ UNCHANGED vars
  BY <1>4 DEF Orphans, Ended, vars, SandboxNext
<1> QED
  BY <1>1, <1>2, <1>3, <1>4, InCampaign DEF Next

\* An evaluation drives its sandboxes only as CandidateSandbox allows, whoever
\* is killed or cleaned up after.
THEOREM RunsSandboxes == Spec => SandboxSpec
<1>1. Init => SandboxInit /\ EvalTypeOK /\ SandboxTypeOK
  BY InitEvalTypeOK, InitSandboxIInv DEF Init, SandboxIInv
<1>2. SandboxIInv /\ EvalTypeOK /\ [Next]_vars => [SandboxNext]_sandbox
  BY SandboxStep DEF SandboxIInv
<1>3. Init => SandboxIInv
  BY InitSandboxIInv DEF Init
<1>4. SandboxIInv /\ EvalTypeOK /\ [Next]_vars => SandboxIInv' /\ EvalTypeOK'
  BY <1>2, NextSandboxIInv, NextEvalTypeOK
<1> QED
  BY <1>1, <1>2, <1>3, <1>4, PTL DEF Spec, SandboxSpec

\* Types.
THEOREM GradingTypes == Spec => []TypeOK
<1>1. EvalTypeOK /\ SandboxTypeOK => TypeOK
  BY DEF EvalTypeOK, TypeOK
<1> QED
  BY <1>1, RunsSandboxes, SandboxTypes, InitEvalTypeOK, NextEvalTypeOK, PTL
  DEF Spec

\* Hence what is proved of a sandbox holds of every evaluation.
THEOREM EvaluationsLeaveNothing == Spec => [](NothingLeft /\ CandidateGoneFirst)
  BY RunsSandboxes, ReturnsClean, LeaseOutlivesCandidate, PTL

-----------------------------------------------------------------------------
(* The seed's cache entry.                                                 *)

\* Who is at the entry of its stage, and what is in it then.
EntryInv ==
  \A e \in Seeds :
    /\ phase[e] \in {"locked", "running", "judged", "stored"}
         => lock[stage[e]] = e
    /\ phase[e] \in {"running", "judged"} => cache[stage[e]] = None
    /\ phase[e] = "judged" => score[<<e, stage[e]>>] # None
    /\ phase[e] = "stored" => /\ cache[stage[e]] # None
                              /\ score[<<e, stage[e]>>] = cache[stage[e]]

\* A completed evaluation has the score of the entry, and is past its stage.
DoneInv ==
  \A e \in Seeds, s \in Stages :
    record[<<e, s>>] = "completed" =>
      /\ cache[s] # None /\ score[<<e, s>>] = cache[s]
      /\ \/ s < stage[e]
         \/ s = stage[e] /\ phase[e] \in {"ended", "killed"}

CacheInv == EvalTypeOK /\ EntryInv /\ DoneInv

LEMMA InitCacheInv == Init => CacheInv
<1> SUFFICES ASSUME Init PROVE CacheInv
  OBVIOUS
<1>1. EvalTypeOK
  BY InitEvalTypeOK
<1>2. EntryInv
  BY GradingAssumption DEF Init, EntryInv
<1>3. DoneInv
  BY CallOf, GradingAssumption DEF Init, DoneInv
<1> QED
  BY <1>1, <1>2, <1>3 DEF CacheInv

\* Completing a stage keeps the invariant.
LEMMA CompleteCacheInv ==
  ASSUME CacheInv, NEW e \in Evals, Complete(e)
  PROVE  EntryInv' /\ DoneInv'
<1>0. /\ EvalTypeOK /\ EntryInv /\ DoneInv
      /\ <<e, stage[e]>> \in Calls /\ stage[e] \in Stages
  BY CallOf DEF CacheInv, EvalTypeOK
<1>1. /\ record' = [record EXCEPT ![<<e, stage[e]>>] = "completed"]
      /\ lock' = Freed(e) /\ UNCHANGED <<score, cache>>
      /\ e \in Seeds => phase[e] = "stored"
      /\ \/ /\ stage[e] = 1 /\ stage' = [stage EXCEPT ![e] = 2]
            /\ phase' = [phase EXCEPT ![e] = "idle"]
         \/ /\ stage' = stage
            /\ phase' = [phase EXCEPT ![e] = "ended"]
  BY DEF Complete, Enter, Current
<1>2. \A d \in Evals \ {e} : phase'[d] = phase[d] /\ stage'[d] = stage[d]
  BY <1>0, <1>1 DEF EvalTypeOK
<1>3. \/ stage[e] = 1 /\ stage'[e] = 2
      \/ stage'[e] = stage[e] /\ phase'[e] = "ended"
  BY <1>0, <1>1 DEF EvalTypeOK
<1>4. phase'[e] \in {"idle", "ended"}
  BY <1>0, <1>1 DEF EvalTypeOK
<1>5. \A d \in Evals \ {e}, s \in Stages : lock[s] = d => lock'[s] = d
  BY <1>1 DEF Freed
<1>6. EntryInv'
  <2> SUFFICES ASSUME NEW d \in Seeds
               PROVE  /\ phase'[d] \in {"locked", "running", "judged", "stored"}
                           => lock'[stage'[d]] = d
                      /\ phase'[d] \in {"running", "judged"}
                           => cache'[stage'[d]] = None
                      /\ phase'[d] = "judged"
                           => score'[<<d, stage'[d]>>] # None
                      /\ phase'[d] = "stored"
                           => /\ cache'[stage'[d]] # None
                              /\ score'[<<d, stage'[d]>>] = cache'[stage'[d]]
    BY DEF EntryInv
  <2>1. CASE d = e
    BY <1>4, <2>1
  <2>2. CASE d # e
    <3>1. /\ d \in Evals \ {e} /\ stage[d] \in Stages
      BY <1>0, <2>2, GradingAssumption DEF EvalTypeOK
    <3>2. /\ phase'[d] = phase[d] /\ stage'[d] = stage[d]
          /\ lock[stage[d]] = d => lock'[stage[d]] = d
      BY <1>2, <1>5, <3>1
    <3> QED
      BY <1>0, <1>1, <3>2 DEF EntryInv
  <2> QED
    BY <2>1, <2>2
<1>7. DoneInv'
  <2> SUFFICES ASSUME NEW d \in Seeds, NEW s \in Stages,
                      record'[<<d, s>>] = "completed"
               PROVE  /\ cache'[s] # None /\ score'[<<d, s>>] = cache'[s]
                      /\ \/ s < stage'[d]
                         \/ s = stage'[d] /\ phase'[d] \in {"ended", "killed"}
    BY DEF DoneInv
  <2>0. d \in Evals /\ <<d, s>> \in Calls
    BY CallOf, GradingAssumption
  <2>1. CASE d = e /\ s = stage[e]
    <3>1. /\ cache[s] # None /\ score[<<d, s>>] = cache[s]
      BY <1>0, <1>1, <2>1 DEF EntryInv
    <3>2. s < stage'[d] \/ (s = stage'[d] /\ phase'[d] = "ended")
      <4>1. CASE stage[e] = 1 /\ stage'[e] = 2
        BY <2>1, <4>1
      <4>2. CASE stage'[e] = stage[e] /\ phase'[e] = "ended"
        BY <2>1, <4>2
      <4> QED
        BY <1>3, <4>1, <4>2
    <3> QED
      BY <1>1, <3>1, <3>2
  <2>2. CASE <<d, s>> # <<e, stage[e]>>
    <3>1. record[<<d, s>>] = "completed"
      BY <1>0, <1>1, <2>0, <2>2 DEF EvalTypeOK
    <3>2. /\ cache[s] # None /\ score[<<d, s>>] = cache[s]
          /\ \/ s < stage[d]
             \/ s = stage[d] /\ phase[d] \in {"ended", "killed"}
      BY <1>0, <3>1 DEF DoneInv
    <3>3. CASE d = e
      BY <1>0, <1>1, <1>3, <2>2, <3>2, <3>3 DEF Stages
    <3>4. CASE d # e
      BY <1>1, <1>2, <2>0, <3>2, <3>4
    <3> QED
      BY <3>3, <3>4
  <2> QED
    BY <2>1, <2>2
<1> QED
  BY <1>6, <1>7

\* A step of one evaluation keeps the invariant.
LEMMA EvaluateCacheInv ==
  ASSUME CacheInv, NEW e \in Evals, Evaluate(e)
  PROVE  EntryInv' /\ DoneInv'
<1> USE CallOf, GradingAssumption
    DEF Enter, Current, CacheInv, EvalTypeOK, EntryInv, DoneInv
<1>0. Current(e) \in Calls /\ stage[e] \in Stages
  OBVIOUS
<1>1. CASE Begin(e)
  BY <1>0, <1>1 DEF Begin
<1>2. CASE Acquire(e)
  BY <1>2 DEF Acquire
<1>3. CASE Hit(e)
  BY <1>0, <1>3 DEF Hit
<1>4. CASE Miss(e)
  BY <1>4 DEF Miss
<1>5. CASE Execute(e)
  BY <1>5 DEF Execute, evaluation
<1>6. CASE Judge(e)
  BY <1>0, <1>6 DEF Judge, Scores, None
<1>7. CASE Raise(e)
  BY <1>0, <1>7 DEF Raise, Freed
<1>8. CASE Store(e)
  BY <1>0, <1>8 DEF Store
<1>9. CASE Complete(e)
  BY <1>9, CompleteCacheInv
<1> QED
  BY <1>1, <1>2, <1>3, <1>4, <1>5, <1>6, <1>7, <1>8, <1>9 DEF Evaluate

LEMMA NextCacheInv == CacheInv /\ [Next]_vars => CacheInv'
<1> SUFFICES ASSUME CacheInv, [Next]_vars PROVE EntryInv' /\ DoneInv'
  BY NextEvalTypeOK DEF CacheInv
<1>1. ASSUME NEW e \in Evals, Kill(e) \/ GradingTimesOut(e)
      PROVE  EntryInv' /\ DoneInv'
  BY <1>1, CallOf, GradingAssumption
  DEF Kill, GradingTimesOut, Dies, Freed, Enter, CacheInv, EvalTypeOK, EntryInv,
      DoneInv
<1>2. ASSUME NEW e \in Evals, Coordinate(e) PROVE UNCHANGED evaluation
  BY <1>2 DEF Coordinate, GradeNext, WorkerReturns, CleanupCheckout
<1>3. CASE Orphans \/ Ended \/ UNCHANGED vars
  BY <1>3 DEF Orphans, Ended, vars, evaluation, EntryInv, DoneInv, CacheInv
<1>4. ASSUME UNCHANGED evaluation PROVE EntryInv' /\ DoneInv'
  BY <1>4 DEF evaluation, EntryInv, DoneInv, CacheInv
<1> QED
  BY <1>1, <1>2, <1>3, <1>4, EvaluateCacheInv, InCampaign DEF Next, CacheInv

\* Completing a stage shows in the answers of that evaluation and stage.
LEMMA AnswersStep ==
  ASSUME NEW e \in Seeds, NEW s \in Stages, EvalTypeOK,
         record[<<e, s>>] # "completed",
         record' = [record EXCEPT ![<<e, s>>] = "completed"], score' = score
  PROVE  /\ Answers[e][s] = None
         /\ Answers' = [Answers EXCEPT ![e][s] = score[<<e, s>>]]
<1>1. <<e, s>> \in Calls
  BY CallOf, GradingAssumption
<1>2. Answers[e][s] = None
  BY DEF Answers
<1>3. ASSUME NEW d \in Seeds, NEW t \in Stages
      PROVE  record'[<<d, t>>] = IF d = e /\ t = s THEN "completed"
                                                  ELSE record[<<d, t>>]
  <2>1. <<d, t>> \in Calls
    BY CallOf, GradingAssumption
  <2> QED
    BY <1>1, <2>1 DEF EvalTypeOK
<1>4. Answers' = [d \in Seeds |-> [t \in Stages |->
                   IF d = e /\ t = s THEN score[<<e, s>>] ELSE Answers[d][t]]]
  BY <1>3 DEF Answers
<1>5. Answers = [d \in Seeds |-> [t \in Stages |-> Answers[d][t]]]
  BY DEF Answers
<1>6. [Answers EXCEPT ![e][s] = score[<<e, s>>]] =
        [d \in Seeds |-> [t \in Stages |->
          IF d = e /\ t = s THEN score[<<e, s>>] ELSE Answers[d][t]]]
  BY <1>5
<1> QED
  BY <1>2, <1>4, <1>6

\* A step of the evaluations is a step of the memo: the entry is filled once,
\* and whoever completes has the score that is in it.
LEMMA MemoStep ==
  ASSUME CacheInv, [Next]_vars
  PROVE  [Memo!MemoNext]_<<cache, Answers>>
<1>a. ASSUME UNCHANGED <<record, score>> PROVE UNCHANGED Answers
  BY <1>a DEF Answers
\* What an evaluation does to the record or the score of a stage it has not
\* completed is not seen in its answers, unless it completes it.
<1>b. ASSUME NEW e \in Evals, e \in Seeds => record[Current(e)] # "completed",
             \/ UNCHANGED record
             \/ record' = [record EXCEPT ![Current(e)] = "running"]
             \/ record' = [record EXCEPT ![Current(e)] = "failed"],
             \/ UNCHANGED score
             \/ \E v \in Scores \cup {None} :
                  score' = [score EXCEPT ![Current(e)] = v]
      PROVE  UNCHANGED Answers
  <2>1. ASSUME NEW d \in Seeds, NEW s \in Stages
        PROVE  /\ record'[<<d, s>>] = "completed"
                    <=> record[<<d, s>>] = "completed"
               /\ record[<<d, s>>] = "completed"
                    => score'[<<d, s>>] = score[<<d, s>>]
    <3>1. <<d, s>> \in Calls
      BY CallOf, GradingAssumption
    <3>2. CASE <<d, s>> = Current(e)
      <4>1. record[<<d, s>>] # "completed"
        BY <1>b, <3>2 DEF Current
      <4>2. record'[<<d, s>>] # "completed"
        BY <1>b, <3>1, <3>2, <4>1 DEF CacheInv, EvalTypeOK
      <4> QED
        BY <4>1, <4>2
    <3>3. CASE <<d, s>> # Current(e)
      BY <1>b, <3>1, <3>3 DEF CacheInv, EvalTypeOK
    <3> QED
      BY <3>2, <3>3
  <2> QED
    BY <2>1 DEF Answers
<1> USE CallOf, GradingAssumption DEF Current, CacheInv, EvalTypeOK
<1>c. ASSUME NEW e \in Evals, phase[e] \notin {"ended", "killed"}, e \in Seeds
      PROVE  record[Current(e)] # "completed"
  <2>1. stage[e] \in Nat /\ ~(stage[e] < stage[e])
    BY DEF Stages
  <2>2. e \in Seeds /\ stage[e] \in Stages
    BY <1>c
  <2> QED
    BY <1>c, <2>1, <2>2 DEF DoneInv
<1>1. ASSUME NEW e \in Evals, Evaluate(e)
      PROVE  [Memo!MemoNext]_<<cache, Answers>>
  <2>0. Current(e) \in Calls /\ stage[e] \in Stages
    OBVIOUS
  <2>1. CASE Begin(e)
    <3>1. /\ record' = [record EXCEPT ![Current(e)] = "running"]
          /\ score' = score
          /\ cache' = cache /\ phase[e] = "idle"
      BY <2>1 DEF Begin
    <3>2. e \in Seeds => record[Current(e)] # "completed"
      BY <1>c, <3>1
    <3>3. UNCHANGED Answers
      BY <1>b, <3>1, <3>2
    <3> QED
      BY <3>1, <3>3
  <2>2. CASE Hit(e) \/ Judge(e)
    <3>1. \E v \in Scores \cup {None} :
            score' = [score EXCEPT ![Current(e)] = v]
      BY <2>0, <2>2 DEF Hit, Judge
    <3>2. /\ record' = record /\ cache' = cache
          /\ phase[e] \in {"locked", "running"}
      BY <2>2 DEF Hit, Judge
    <3> QED
      BY <1>b, <1>c, <2>0, <3>1, <3>2
  <2>3. CASE Raise(e)
    <3>1. /\ record' = [record EXCEPT ![Current(e)] = "failed"]
          /\ score' = score
          /\ cache' = cache /\ phase[e] = "running"
      BY <2>3 DEF Raise
    <3>2. e \in Seeds => record[Current(e)] # "completed"
      BY <1>c, <3>1
    <3>3. UNCHANGED Answers
      BY <1>b, <3>1, <3>2
    <3> QED
      BY <3>1, <3>3
  <2>4. CASE Acquire(e) \/ Miss(e) \/ Execute(e)
    BY <1>a, <2>4 DEF Acquire, Miss, Execute, evaluation
  <2>5. CASE Store(e)
    <3>1. /\ cache[stage[e]] = None /\ score[Current(e)] \in Scores
          /\ cache' = [cache EXCEPT ![stage[e]] = score[Current(e)]]
      BY <2>0, <2>5 DEF Store, EntryInv
    <3>2. UNCHANGED Answers
      BY <1>a, <2>5 DEF Store
    <3> QED
      BY <2>0, <3>1, <3>2 DEF Memo!MemoNext, Memo!Fill
  <2>6. CASE Complete(e) /\ e \in Seeds
    <3>1. /\ record' = [record EXCEPT ![Current(e)] = "completed"]
          /\ UNCHANGED <<score, cache>> /\ phase[e] = "stored"
      BY <2>6 DEF Complete
    <3>2. /\ cache[stage[e]] # None /\ score[Current(e)] = cache[stage[e]]
          /\ record[Current(e)] # "completed"
      BY <1>c, <2>6, <3>1 DEF EntryInv
    <3>3. /\ Answers[e][stage[e]] = None
          /\ Answers' = [Answers EXCEPT ![e][stage[e]] = cache[stage[e]]]
      <4> HIDE DEF EvalTypeOK
      <4>1. /\ EvalTypeOK /\ record[<<e, stage[e]>>] # "completed"
            /\ record' = [record EXCEPT ![<<e, stage[e]>>] = "completed"]
            /\ score' = score /\ score[<<e, stage[e]>>] = cache[stage[e]]
        BY <3>1, <3>2
      <4> QED
        BY ONLY <2>0, <2>6, <4>1, AnswersStep
    <3> QED
      BY <2>0, <2>6, <3>1, <3>2, <3>3 DEF Memo!MemoNext, Memo!Answer
  <2>7. CASE Complete(e) /\ e \notin Seeds
    <3>1. ASSUME NEW d \in Seeds, NEW s \in Stages
          PROVE  record'[<<d, s>>] = record[<<d, s>>] /\ score' = score
      BY <2>7 DEF Complete
    <3>2. cache' = cache
      BY <2>7 DEF Complete
    <3> QED
      BY <3>1, <3>2 DEF Answers
  <2> QED
    BY <1>1, <2>1, <2>2, <2>3, <2>4, <2>5, <2>6, <2>7 DEF Evaluate
<1>2. ASSUME NEW e \in Evals, Kill(e) \/ GradingTimesOut(e) \/ Coordinate(e)
      PROVE  UNCHANGED <<record, score, cache>>
  BY <1>2 DEF Kill, GradingTimesOut, Dies, Coordinate, GradeNext, WorkerReturns,
              CleanupCheckout, evaluation
<1>3. CASE Orphans \/ Ended \/ UNCHANGED vars
  BY <1>a, <1>3 DEF Orphans, Ended, vars, evaluation
<1> QED
  BY <1>a, <1>1, <1>2, <1>3, InCampaign DEF Next

\* However the runs that share the seed meet at its cache entry, the entry is
\* filled once per stage, and every evaluation of the seed that completes has
\* the score that is in it.
THEOREM CacheIsMemo == Spec => MemoSpec
<1>1. Init => Memo!MemoInit
  BY CallOf, GradingAssumption DEF Init, Memo!MemoInit, Answers, None
<1> QED
  BY <1>1, InitCacheInv, NextCacheInv, MemoStep, PTL
  DEF Spec, MemoSpec, Memo!MemoSpec

-----------------------------------------------------------------------------
(* The seed is executed once.                                              *)

Executed(e, s) == at[<<e, s>>] # "idle" /\ record[<<e, s>>] # "failed"

Ahead(e, s) ==
  \/ stage[e] < s
  \/ stage[e] = s /\ phase[e] \in {"idle", "open", "locked"}

\* A stage that is not reached yet has not been executed; one that has been is
\* under way or completed, and has been by one evaluation.
ExecutedInv ==
  /\ \A e \in Seeds, s \in Stages : Ahead(e, s) => at[<<e, s>>] = "idle"
  /\ \A e \in Seeds : phase[e] \notin {"idle", "ended", "killed"}
                        => record[<<e, stage[e]>>] = "running"
  /\ kills = 0 =>
       \A e \in Seeds, s \in Stages : Executed(e, s) =>
         /\ \/ stage[e] = s /\ phase[e] \in {"running", "judged", "stored"}
            \/ record[<<e, s>>] = "completed"
         /\ \A d \in Seeds : Executed(d, s) => d = e

OnceInv == CacheInv /\ SandboxIInv /\ ExecutedInv

LEMMA InitOnceInv == Init => OnceInv
<1> SUFFICES ASSUME Init PROVE OnceInv
  OBVIOUS
<1>1. \A e \in Seeds, s \in Stages : at[<<e, s>>] = "idle"
  BY CallOf, GradingAssumption DEF Init, SandboxInit
<1> QED
  BY <1>1, InitCacheInv, InitSandboxIInv, GradingAssumption
  DEF Init, OnceInv, ExecutedInv, Executed

\* What a step of an evaluation leaves alone: other evaluations, and its own
\* other stages.
LEMMA ElsewhereAlone ==
  ASSUME OnceInv, NEW e \in Evals, Evaluate(e),
         NEW d \in Evals, NEW s \in Stages, <<d, s>> # Current(e)
  PROVE  /\ at'[<<d, s>>] = at[<<d, s>>] /\ record'[<<d, s>>] = record[<<d, s>>]
         /\ d # e => phase'[d] = phase[d] /\ stage'[d] = stage[d]
<1>1. /\ Current(e) \in Calls /\ <<d, s>> \in Calls /\ SandboxTypeOK
      /\ EvalTypeOK
  BY CallOf DEF Current, OnceInv, CacheInv, EvalTypeOK, SandboxIInv
<1>2. UNCHANGED sandbox \/ CallStep(Current(e))
  BY DEF Evaluate, Begin, Acquire, Hit, Miss, Execute, Judge, Raise, Store,
         Complete, CallStep
<1>3. at'[<<d, s>>] = at[<<d, s>>]
  <2>1. CASE UNCHANGED sandbox
    BY <2>1 DEF sandbox
  <2>2. CASE CallStep(Current(e))
    BY <1>1, <2>2, OthersAlone
  <2> QED
    BY <1>2, <2>1, <2>2
<1>4. \/ record' = record
      \/ \E r \in {"running", "failed", "completed"} :
           record' = [record EXCEPT ![Current(e)] = r]
  BY DEF Evaluate, Begin, Acquire, Hit, Miss, Execute, Judge, Raise, Store,
         Complete, evaluation
<1>5. record'[<<d, s>>] = record[<<d, s>>]
  BY <1>1, <1>4 DEF EvalTypeOK
<1>6. /\ phase' = phase \/ \E p : phase' = [phase EXCEPT ![e] = p]
      /\ stage' = stage \/ stage' = [stage EXCEPT ![e] = 2]
  BY DEF Evaluate, Begin, Acquire, Hit, Miss, Execute, Judge, Raise, Store,
         Complete, evaluation, Enter
<1>7. d # e => phase'[d] = phase[d] /\ stage'[d] = stage[d]
  BY <1>1, <1>6 DEF EvalTypeOK
<1> QED
  BY <1>3, <1>5, <1>7

\* What it does to the stage it is at: only a miss begins an execution.
LEMMA HereExecuted ==
  ASSUME OnceInv, NEW e \in Seeds, Evaluate(e)
  PROVE  /\ \/ stage'[e] = stage[e]
            \/ stage[e] = 1 /\ stage'[e] = 2 /\ phase'[e] = "idle"
         /\ phase'[e] \in {"idle", "open", "locked"}
              => stage'[e] # stage[e] \/ at'[Current(e)] = "idle"
         /\ phase'[e] \notin {"idle", "ended", "killed"}
              => stage'[e] = stage[e] /\ record'[Current(e)] = "running"
         /\ at'[Current(e)] # "idle" /\ record'[Current(e)] # "failed" =>
              /\ Executed(e, stage[e]) \/ Miss(e)
              /\ \/ /\ stage'[e] = stage[e]
                    /\ phase'[e] \in {"running", "judged", "stored"}
                 \/ record'[Current(e)] = "completed"
<1>0. /\ EvalTypeOK /\ SandboxTypeOK /\ e \in Evals /\ Current(e) \in Calls
      /\ phase[e] \in {"idle", "open", "locked"} => at[Current(e)] = "idle"
      /\ phase[e] \notin {"idle", "ended", "killed"} => record[Current(e)] = "running"
  BY CallOf, GradingAssumption
  DEF Current, Ahead, OnceInv, CacheInv, EvalTypeOK, SandboxIInv, ExecutedInv
<1> USE <1>0 DEF Enter, Executed, EvalTypeOK
<1>1. CASE Begin(e)
  BY <1>1 DEF Begin, sandbox
<1>2. CASE Acquire(e)
  BY <1>2 DEF Acquire, sandbox, Current
<1>3. CASE Hit(e)
  BY <1>3 DEF Hit, sandbox, Current
<1>4. CASE Miss(e)
  BY <1>4 DEF Miss, Current
<1>5. CASE Execute(e)
  <2>1. at[Current(e)] # "idle"
    BY <1>5
    DEF Execute, Work, TakeLease, SetupDone, SetupFails, StartCandidate,
        CandidateExits, ClientExits, TimesOut, Reap, ReapAgain, Export,
        RemoveHolder, RemoveVolume, RemoveProxy, RemoveNetwork, Release,
        SetupSteps
  <2> QED
    BY <1>5, <2>1 DEF Execute, evaluation, Current
<1>6. CASE Judge(e)
  BY <1>6 DEF Judge, Answered, Current
<1>7. CASE Raise(e)
  BY <1>7 DEF Raise, Answered
<1>8. CASE Store(e)
  BY <1>8 DEF Store, sandbox, Current
<1>9. CASE Complete(e)
  BY <1>9 DEF Complete, sandbox, Current
<1> QED
  BY <1>1, <1>2, <1>3, <1>4, <1>5, <1>6, <1>7, <1>8, <1>9 DEF Evaluate

LEMMA ExecutedEvaluate ==
  ASSUME OnceInv, NEW e \in Evals, Evaluate(e)
  PROVE  ExecutedInv'
<1>0. /\ EvalTypeOK /\ EntryInv /\ DoneInv /\ ExecutedInv
      /\ kills' = kills
  BY DEF OnceInv, CacheInv, Evaluate, Begin, Acquire, Hit, Miss, Execute, Judge,
         Raise, Store, Complete, grader
<1>s. \A d \in Seeds : d \in Evals /\ stage[d] \in Stages
  BY <1>0, GradingAssumption DEF EvalTypeOK
<1>a. ASSUME NEW d \in Seeds, NEW s \in Stages, <<d, s>> # Current(e)
      PROVE  /\ at'[<<d, s>>] = at[<<d, s>>]
             /\ record'[<<d, s>>] = record[<<d, s>>]
  BY <1>s, <1>a, ElsewhereAlone
<1>b. ASSUME NEW d \in Seeds, d # e
      PROVE  phase'[d] = phase[d] /\ stage'[d] = stage[d]
  BY <1>s, <1>b, ElsewhereAlone DEF Current
<1>1. ASSUME NEW d \in Seeds, NEW s \in Stages, Ahead(d, s)'
      PROVE  at'[<<d, s>>] = "idle"
  <2>1. CASE d # e
    <3>1. Ahead(d, s)
      BY <1>1, <1>b, <2>1 DEF Ahead
    <3> QED
      BY <1>0, <1>a, <2>1, <3>1 DEF ExecutedInv, Current
  <2>2. CASE d = e /\ s = stage[e]
    <3>1. stage'[e] = stage[e] /\ phase'[e] \in {"idle", "open", "locked"}
      BY <1>1, <2>2, HereExecuted DEF Ahead, Stages
    <3> QED
      BY <2>2, <3>1, HereExecuted DEF Current
  <2>3. CASE d = e /\ s # stage[e]
    <3>1. stage[e] < s
      BY <1>1, <1>s, <2>3, HereExecuted DEF Ahead, Stages
    <3> QED
      BY <1>0, <1>a, <2>3, <3>1 DEF ExecutedInv, Current, Ahead
  <2> QED
    BY <2>1, <2>2, <2>3
<1>2. ASSUME NEW d \in Seeds, phase'[d] \notin {"idle", "ended", "killed"}
      PROVE  record'[<<d, stage'[d]>>] = "running"
  <2>1. CASE d = e
    BY <1>2, <2>1, HereExecuted DEF Current
  <2>2. CASE d # e
    BY <1>0, <1>2, <1>a, <1>b, <1>s, <2>2 DEF ExecutedInv, Current
  <2> QED
    BY <2>1, <2>2
<1>3. ASSUME kills = 0, NEW d \in Seeds, NEW s \in Stages, Executed(d, s)'
      PROVE  /\ \/ stage'[d] = s /\ phase'[d] \in {"running", "judged", "stored"}
                \/ record'[<<d, s>>] = "completed"
             /\ Executed(d, s) \/ (d = e /\ s = stage[e] /\ Miss(e))
  <2>1. CASE <<d, s>> # Current(e)
    <3>1. Executed(d, s) /\ record'[<<d, s>>] = record[<<d, s>>]
      BY <1>3, <1>a, <2>1 DEF Executed
    <3>2. \/ stage[d] = s /\ phase[d] \in {"running", "judged", "stored"}
          \/ record[<<d, s>>] = "completed"
      BY <1>0, <1>3, <3>1 DEF ExecutedInv
    <3> QED
      BY <1>b, <2>1, <3>1, <3>2 DEF Current
  <2>2. CASE d = e /\ s = stage[e]
    BY <1>3, <2>2, HereExecuted DEF Executed, Current
  <2> QED
    BY <2>1, <2>2 DEF Current
<1>4. ASSUME kills = 0, NEW s \in Stages, NEW d \in Seeds, d # e,
             Executed(d, s), e \in Seeds, s = stage[e], Miss(e)
      PROVE  FALSE
  <2>1. phase[e] = "locked" /\ cache[s] = None
    BY <1>4 DEF Miss
  <2>2. lock[s] = e
    BY <1>0, <1>4, <2>1 DEF EntryInv
  <2>3. \/ stage[d] = s /\ phase[d] \in {"running", "judged", "stored"}
        \/ record[<<d, s>>] = "completed"
    BY <1>0, <1>4 DEF ExecutedInv
  <2> QED
    BY <1>0, <1>4, <2>1, <2>2, <2>3 DEF EntryInv, DoneInv
<1>5. ASSUME kills = 0, NEW s \in Stages, NEW c \in Seeds, NEW d \in Seeds,
             Executed(c, s)', Executed(d, s)'
      PROVE  c = d
  <2>1. CASE Executed(c, s) /\ Executed(d, s)
    BY <1>0, <1>5, <2>1 DEF ExecutedInv
  <2>2. CASE ~Executed(c, s)
    BY <1>3, <1>4, <1>5, <2>2
  <2>3. CASE ~Executed(d, s)
    BY <1>3, <1>4, <1>5, <2>3
  <2> QED
    BY <2>1, <2>2, <2>3
<1> QED
  BY <1>0, <1>1, <1>2, <1>3, <1>5 DEF ExecutedInv

LEMMA NextOnceInv == OnceInv /\ [Next]_vars => OnceInv'
<1> SUFFICES ASSUME OnceInv, [Next]_vars PROVE ExecutedInv'
  BY NextCacheInv, SandboxStep, NextSandboxIInv
  DEF OnceInv, CacheInv, SandboxIInv
<1>0. EvalTypeOK /\ ExecutedInv /\ SandboxTypeOK
  BY DEF OnceInv, CacheInv, SandboxIInv
<1>1. ASSUME UNCHANGED <<at, stage, phase, record, kills>> PROVE ExecutedInv'
  BY <1>0, <1>1 DEF ExecutedInv, Executed, Ahead
<1>2. ASSUME NEW e \in Evals, Coordinate(e) PROVE ExecutedInv'
  BY <1>1, <1>2
  DEF Coordinate, GradeNext, WorkerReturns, CleanupCheckout, evaluation, sandbox
<1>3. CASE Orphans \/ Ended \/ UNCHANGED vars
  BY <1>1, <1>3
  DEF Orphans, OrphanExits, Ended, vars, sandbox, evaluation, grader
\* The death of an evaluation: of one that shares the seed, or of a graded one.
<1>4. ASSUME NEW e \in Evals, Dies(e)
      PROVE  /\ UNCHANGED <<stage, record>>
             /\ \A d \in Evals : phase'[d] = IF d = e THEN "killed" ELSE phase[d]
             /\ \A d \in Evals, s \in Stages :
                  d # e \/ at[<<d, s>>] = "idle"
                    => at'[<<d, s>>] = at[<<d, s>>]
  <2>1. Current(e) \in Calls
    BY <1>0, CallOf DEF Current, EvalTypeOK
  <2>2. ASSUME NEW d \in Evals, NEW s \in Stages, d # e \/ at[<<d, s>>] = "idle"
        PROVE  at'[<<d, s>>] = at[<<d, s>>]
    BY <1>0, <1>4, <2>1, <2>2, CallOf
    DEF Dies, Killed, Goes, Current, sandbox, SandboxTypeOK
  <2> QED
    BY <1>0, <1>4, <2>2 DEF Dies, Enter, EvalTypeOK
<1>5. ASSUME NEW e \in Evals, Kill(e) PROVE ExecutedInv'
  <2>1. kills' # 0 /\ Dies(e)
    BY <1>0, <1>5 DEF Kill, EvalTypeOK
  <2> QED
    BY <1>0, <1>4, <2>1, GradingAssumption DEF ExecutedInv, Ahead
<1>6. ASSUME NEW e \in Graded, GradingTimesOut(e) PROVE ExecutedInv'
  <2>1. kills' = kills /\ Dies(e) /\ e \in Evals /\ e \notin Seeds
    BY <1>6, GradingAssumption DEF GradingTimesOut
  <2> QED
    BY <1>0, <1>4, <2>1, GradingAssumption DEF ExecutedInv, Executed, Ahead
<1> QED
  BY <1>0, <1>2, <1>3, <1>5, <1>6, ExecutedEvaluate, InCampaign DEF Next

\* While nobody is killed, no two evaluations of the seed execute the same
\* stage, at the same time or one after the other, unless one of them raised.
THEOREM SeedExecutedOnce == Spec => []SeedRunsOnce
<1>1. OnceInv => SeedRunsOnce
  <2> SUFFICES ASSUME OnceInv, kills = 0, NEW s \in Stages
               PROVE  Cardinality({e \in Seeds : Executed(e, s)}) <= 1
    BY DEF SeedRunsOnce, Executed
  <2> DEFINE S == {e \in Seeds : Executed(e, s)}
  <2>1. ASSUME NEW d \in S PROVE S = {d}
    <3>1. \A e \in Seeds : Executed(e, s) => e = d
      BY <2>1 DEF OnceInv, ExecutedInv
    <3> QED
      BY <3>1
  <2>2. CASE S = {}
    BY <2>2, FS_EmptySet
  <2>3. CASE S # {}
    <3>1. PICK d : S = {d}
      BY <2>1, <2>3
    <3>2. Cardinality(S) = 1
      BY <3>1, FS_Singleton
    <3>3. Cardinality(S) <= 1
      BY <3>2
    <3> QED
      BY <3>3
  <2> QED
    BY <2>2, <2>3
<1> QED
  BY <1>1, InitOnceInv, NextOnceInv, PTL DEF Spec

=============================================================================
