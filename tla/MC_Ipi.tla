------------------------------- MODULE MC_Ipi -------------------------------
(* Two CPUs, two mappings, a shootdown buffer of two entries and a        *)
(* three-bit c_numshootdown whose all-ones value is TLBSHOOTDOWN_ALL.     *)
EXTENDS Ipi

CONSTANTS m1, m2

MC_Mappings == {m1, m2}
=============================================================================
