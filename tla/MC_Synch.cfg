\* Three threads sharing one semaphore, one lock and one condition variable,
\* under FairSpec's fairness: the safety invariants and progress in one run.
\* Beside them, interleaved, the start-up of one secondary CPU (Boot), whose
\* cpu_startup_sem is a second instance of Synch.  No symmetry: it is unsound for liveness.
\* Every thread may end up asleep with nobody left to wake it (all in P,
\* or all in cv_wait): the code has no timeout, so the system may stop.
CONSTANTS
    t1 = t1
    t2 = t2
    t3 = t3
    b0 = b0
    h1 = h1
    NULL = NULL
    Threads <- MC_Threads
    MaxCount = 2
    InitCount = 0
SPECIFICATION MC_Spec
INVARIANT TypeOK
INVARIANT LockMutex
INVARIANT NoLostWakeup
INVARIANT CvSignalNotLost
INVARIANT StartupSemQuiet
PROPERTY LockProgress
PROPERTY SemProgress
PROPERTY BootCompletes
CHECK_DEADLOCK FALSE
