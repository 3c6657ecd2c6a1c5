------------------------- MODULE MCOrphanCollector -------------------------
EXTENDS OrphanCollector

CONSTANTS t1, t2, a1, a2

TwoTasks == {t1, t2}
TwoAttempts == {a1, a2}
=============================================================================
