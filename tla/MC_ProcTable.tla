---------------------------- MODULE MC_ProcTable ----------------------------
EXTENDS ProcTable, TLC

CONSTANTS t1, t2, r0, r1, r2, r3

MC_Threads == {t1, t2}
MC_Records == {r0, r1, r2, r3}
=============================================================================
