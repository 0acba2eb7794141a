\* Three thread structures and a table of four slots: kproc, the first user
\* process and room for two more, so that a process, its child and its
\* grandchild coexist, the table fills, and slots and proc structures are
\* reused after a reap.
CONSTANTS
    t1 = t1
    t2 = t2
    t3 = t3
    r0 = r0
    r1 = r1
    r2 = r2
    r3 = r3
    NULL = NULL
    TIds <- MC_TIds
    Records <- MC_Records
    KProc = r0
    Init1 = r1
    Init1Thread = t1
    MaxProcesses = 4
    CanFail = FALSE
    WNOHANG = 1
    WUNTRACED = 2
    ExitCodes = {7}
    MaxCalls = 7
SPECIFICATION Spec
INVARIANT WaitOnlyOwnChildren
CHECK_DEADLOCK FALSE
