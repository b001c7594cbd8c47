-------------------------- MODULE MCJobQueueClaims --------------------------
(* Instances of JobQueueClaims for the model checker.                       *)
EXTENDS JobQueueClaims, TLC

MCMaxAttempts == [j \in Jobs |-> 1]
MCMoreAttempts == [j \in Jobs |-> 2]
MCPriority == [j \in Jobs |-> 100]
MCSameClocks == [p \in Procs |-> 0]
=============================================================================
