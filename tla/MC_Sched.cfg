\* Safety of the scheduler: two CPUs, four threads.
CONSTANTS
    th0 = th0
    th1 = th1
    th2 = th2
    th3 = th3
    NULL = NULL
    NCPU = 2
    Threads <- MC_Threads
    BootThread <- MC_BootThread
SPECIFICATION Spec
SYMMETRY MC_Symmetry
INVARIANT TypeOK
INVARIANT ThreadPlacement
INVARIANT CpuConsistent
INVARIANT CurthreadNotShared
