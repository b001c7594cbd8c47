--------------------------- MODULE MCJobQueueTimed ---------------------------
(* Instances of JobQueueTimed for the model checker.                       *)
EXTENDS JobQueueConfigured, TLC

\* The limit -1 is one that a request may ask for.
MCThreeAttempts == [j \in Jobs |-> 3]
MCMaxAttempts == [j \in Jobs |-> IF j = 1 THEN 2 ELSE -1]
MCPriority == [j \in Jobs |-> IF j = 1 THEN 100 ELSE 25]
\* Two processes, one of them a tick behind the other.
MCOneSlowClock ==
  [p \in Procs |-> IF p = CHOOSE q \in Procs : TRUE THEN 0 ELSE 1]
MCSameClocks == [p \in Procs |-> 0]
=============================================================================
