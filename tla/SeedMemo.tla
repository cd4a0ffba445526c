------------------------------ MODULE SeedMemo ------------------------------
(***************************************************************************)
(* What the seed-fitness cache promises the runs that share it: the seed   *)
(* is scored once per stage, the score stays, and it is the answer of      *)
(* every evaluation of the seed that completes.                            *)
(***************************************************************************)
CONSTANTS Users, Stages, Scores, NoScore

VARIABLES
  memo,    \* per stage: the score of the seed
  answer   \* per user and stage: the score its evaluation returned

MemoInit ==
  /\ memo = [s \in Stages |-> NoScore]
  /\ answer = [u \in Users |-> [s \in Stages |-> NoScore]]

Fill(s) ==
  /\ memo[s] = NoScore
  /\ \E v \in Scores : memo' = [memo EXCEPT ![s] = v]
  /\ UNCHANGED answer

Answer(u, s) ==
  /\ memo[s] # NoScore /\ answer[u][s] = NoScore
  /\ answer' = [answer EXCEPT ![u][s] = memo[s]]
  /\ UNCHANGED memo

MemoNext == \E s \in Stages : Fill(s) \/ \E u \in Users : Answer(u, s)

MemoSpec == MemoInit /\ [][MemoNext]_<<memo, answer>>

=============================================================================
