-------------------------- MODULE MCTaskLifecycle --------------------------
(* The instance of TaskLifecycle that TLC checks.                          *)
EXTENDS TaskLifecycle

CONSTANTS a, b

MCAgentOf == [t \in Task |-> IF t = 1 THEN a ELSE b]
MCRank == [t \in Task |-> t]

=============================================================================
