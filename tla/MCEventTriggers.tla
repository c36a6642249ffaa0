-------------------------- MODULE MCEventTriggers --------------------------
EXTENDS EventTriggers

CONSTANTS a1, a2, f1, none

OneAgent == {a1}
TwoAgents == {a1, a2}
NoAgent == {}
UrgentOne == {a2}
ThreeTasks == 1..3
TwoTasks == 1..2
OneFlusher == {f1}
=============================================================================
