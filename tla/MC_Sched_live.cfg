\* A ready thread eventually runs: two CPUs, three threads, timer fairness.
\* No symmetry: it is unsound for liveness.
CONSTANTS
    th0 = th0
    th1 = th1
    th2 = th2
    th3 = th3
    NULL = NULL
    NCPU = 2
    Threads <- MC_Threads3
    BootThread <- MC_BootThread
SPECIFICATION FairSpec
PROPERTY ReadyRuns
