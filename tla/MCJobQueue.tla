----------------------------- MODULE MCJobQueue -----------------------------
(* Instances of JobQueue for the model checker.                            *)
EXTENDS JobQueue, TLC

\* Job 1 may be tried twice, any other once; all are as urgent.
MCMaxAttempts == [j \in Jobs |-> IF j = 1 THEN 2 ELSE 1]
MCPriority == [j \in Jobs |-> 100]
MCSameClocks == [p \in Procs |-> 0]

Symmetry == Permutations(Procs) \cup Permutations(Slots)
=============================================================================
