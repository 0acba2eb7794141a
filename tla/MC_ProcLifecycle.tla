-------------------------- MODULE MC_ProcLifecycle --------------------------
EXTENDS ProcLifecycle

CONSTANTS t1, t2, t3, r0, r1, r2, r3

MC_TIds == {t1, t2, t3}
MC_Records == {r0, r1, r2, r3}
=============================================================================
