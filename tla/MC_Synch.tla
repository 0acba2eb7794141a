------------------------------ MODULE MC_Synch ------------------------------
(* Model-checking instance of Synch: three threads, as model values,      *)
(* sharing one semaphore, one lock and one condition variable; beside    *)
(* them, independently, the start-up of one secondary CPU (Boot) on its  *)
(* own instance of the semaphore.                                         *)
EXTENDS Synch, TLC

CONSTANTS t1, t2, t3, b0, h1

VARIABLES sem_pc, csem_count, csem_lock, csem_wc, csem_wc_lock,
          boot_pc, i, hatch_pc, sem_live, no_lock

MC_Threads == {t1, t2, t3}

Startup == INSTANCE Boot WITH BootThread <- b0, HatchThreads <- {h1}

bootAll == <<sem_pc, csem_count, csem_lock, csem_wc, csem_wc_lock,
            boot_pc, i, hatch_pc, sem_live, no_lock>>

MC_Init == Init /\ Startup!BootInit

(* The two systems side by side: a step is a step of one of them, and     *)
(* each keeps its own fairness.                                           *)
MC_Spec ==
    /\ MC_Init
    /\ [][(Next /\ UNCHANGED bootAll) \/ (Startup!BootNext /\ UNCHANGED vars)]_<<vars, bootAll>>
    /\ \A t \in Threads : WF_vars(Progress(t))
    /\ WF_bootAll(Startup!BootStep)
    /\ \A h \in {h1} : WF_bootAll(Startup!HatchStep(h))
    /\ \A t \in {b0, h1} : WF_bootAll(Startup!SemStep(t))

StartupSemQuiet == Startup!StartupSemQuiet

BootCompletes == Startup!BootCompletes
=============================================================================
