\* Three thread structures and a table of four slots: kproc, the first user
\* process and room for two more, so that a process, its child and its
\* grandchild coexist, the table fills and ENPROC is returned, the cursor
\* wraps, and slots and proc structures are reused after a reap.  Any
\* allocation of proc_create or sys_fork may fail.  Six system calls in all
\* reach every path.  FairSpec: the invariants, the allocator's action
\* property and WaitReturns in one run, without symmetry (unsound for
\* liveness).
CONSTANTS
    t1 = t1
    t2 = t2
    t3 = t3
    r0 = r0
    r1 = r1
    r2 = r2
    r3 = r3
    NULL = NULL
    TIds <- MC_TIds
    Records <- MC_Records
    KProc = r0
    Init1 = r1
    Init1Thread = t1
    MaxProcesses = 4
    CanFail = TRUE
    WNOHANG = 1
    WUNTRACED = 2
    ExitCodes = {7}
    MaxCalls = 6
SPECIFICATION FairSpec
INVARIANT TypeOK
INVARIANT ExitHandshake
INVARIANT NoLeakedProc
INVARIANT ExitStatusDelivered
PROPERTY AllocFailsOnlyWhenFull
PROPERTY WaitReturns
\* Every process may have exited and the call budget be spent: the system then stops.
CHECK_DEADLOCK FALSE
