-------------------------- MODULE MCTaskScheduler --------------------------
(* Instances of TaskScheduler for TLC.                                     *)
EXTENDS TaskScheduler, TLC

CONSTANTS t1, t2, t3, a1, a2

(* Two tasks of one agent.                                                 *)
TwoTasks   == {t1, t2}
OneAgent   == [t \in Task |-> a1]
TwoRanks   == t1 :> 1 @@ t2 :> 2

(* Two tasks of one agent, one of another.                                 *)
ThreeTasks == {t1, t2, t3}
TwoAgents  == [t \in Task |-> IF t = t3 THEN a2 ELSE a1]
ThreeRanks == t1 :> 1 @@ t2 :> 2 @@ t3 :> 3

ProcSymmetry == Permutations(Proc)

=============================================================================
