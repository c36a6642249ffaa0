--------------------------- MODULE MCCostTracker ---------------------------
EXTENDS CostTracker

CONSTANTS c1, c2, op, none

TwoCallers == {c1, c2}
=============================================================================
