\* Every IPI path: UNIDLE from thread_make_runnable, PANIC and OFFLINE
\* broadcasts, and enough shootdowns to overflow the buffer and write past it.
\* A CPU halted by PANIC or OFFLINE stops for good, so the system may stop.
CONSTANTS
    m1 = m1
    m2 = m2
    NULL = NULL
    NCPU = 2
    Mappings <- MC_Mappings
    TLBSHOOTDOWN_MAX = 2
    TLBSHOOTDOWN_ALL = 7
    ShootdownBits = 3
    Broadcasts = {"PANIC", "OFFLINE"}
    MaxShootdowns = 4
SPECIFICATION Spec
CHECK_DEADLOCK FALSE
INVARIANT ShootdownCoveredUntilOverrun
