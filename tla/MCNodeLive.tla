----------------------------- MODULE MCNodeLive -----------------------------
(* Do all calls of the node end?  The locks promise no turn to a thread that *)
(* waits while others keep coming, so the threads start Budget calls in all; *)
(* the only fairness is that a thread that can go on with its call does.     *)
EXTENDS MCNode

CONSTANT Budget

VARIABLE budget

LiveInit == Init /\ budget = Budget

Spend == budget > 0 /\ budget' = budget - 1

LiveNext ==
  \/ \E t \in Thread : Call(t) /\ Spend
  \/ \E t \in Thread : Step(t) /\ UNCHANGED budget
  \/ onNewConnection /\ UNCHANGED budget

LiveSpec ==
  /\ LiveInit
  /\ [][LiveNext]_<<vars, budget>>
  /\ \A t \in Thread : WF_<<vars, budget>>(Step(t) /\ UNCHANGED budget)

=============================================================================
