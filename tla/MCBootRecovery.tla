--------------------------- MODULE MCBootRecovery ---------------------------
EXTENDS BootRecovery

CONSTANTS t1, t2, none

OneTask == {t1}
TwoSlots == {1, 2}
=============================================================================
