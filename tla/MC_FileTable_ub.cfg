\* Every call keeps to live memory.  Only descriptors inside the table are
\* passed, so that the counterexample is not the off-by-one range check
\* but sys_close destroying fd_lk; no allocation fails, and a table of
\* three keeps the double vfs_close of a full-table open one call further.
\* execv is not called: its overruns of karg and kargbuf are one call deep.
CONSTANTS
    f1 = f1
    f2 = f2
    f3 = f3
    v1 = v1
    v2 = v2
    a1 = a1
    a2 = a2
    AddrSpaces <- MC_AddrSpaces
    KARG_SIZE = 24
    USERSTACK = 1000
    Argvs = {}
    NULL = NULL
    Files <- MC_Files
    Vnodes <- MC_Vnodes
    OPEN_MAX = 3
    FdArgs = {0, 1, 2}
    OpenFlags = {0, 1}
    Whences = {0}
    CanFail = FALSE
    MaxCalls = 4
SPECIFICATION ProcSpec
SYMMETRY MC_Symmetry
INVARIANT SyscallsDefined
CHECK_DEADLOCK FALSE
