\* A table of three descriptors, three struct files and two vnodes: dup2
\* shares a file between slots or overwrites an open one, the table fills
\* and the kmalloc of a fourth struct file fails, two files share a vnode,
\* and files and vnodes are freed and reused.  Open flags O_RDONLY,
\* O_WRONLY, O_WRONLY|O_APPEND and an invalid mode; whence SEEK_SET and an
\* invalid one.  Descriptors 0 to 5: the table, the two slots past it that
\* the range check of read, write and close lets through, and one more.
\* Any allocation or VOP_STAT may fail.  Six calls reach sys_exit after
\* every combination of three opens, a dup2 and a close, and two execs
\* around open files (an empty string copies out a byte of a longer one
\* still in karg).
\* The argument vectors of MC_Argvs reach every return of copy_args with
\* karg and kargbuf of 24 bytes (two short strings fit, three overrun).
CONSTANTS
    f1 = f1
    f2 = f2
    f3 = f3
    v1 = v1
    v2 = v2
    a1 = a1
    a2 = a2
    AddrSpaces <- MC_AddrSpaces
    KARG_SIZE = 24
    USERSTACK = 1000
    Argvs <- MC_Argvs
    NULL = NULL
    Files <- MC_Files
    Vnodes <- MC_Vnodes
    OPEN_MAX = 3
    FdArgs = {0, 1, 2, 3, 4, 5}
    OpenFlags = {0, 1, 33, 3}
    Whences = {0, 7}
    CanFail = TRUE
    MaxCalls = 6
SPECIFICATION ProcSpec
SYMMETRY MC_Symmetry
INVARIANT ProcTypeOK
INVARIANT ExitLeavesTableEmpty
INVARIANT ArgvDelivered
PROPERTY ExecUnwinds
\* The process stops after sys_exit, after a fault, or when its calls are spent.
CHECK_DEADLOCK FALSE
