\* Two threads creating and destroying processes over a table of three
\* slots (kproc in slot 0), with allocation failures.  Each thread runs one
\* proc_create or proc_destroy at a time; with three non-kproc records
\* the table fills and ENPROC is returned.
CONSTANTS
    t1 = t1
    t2 = t2
    r0 = r0
    r1 = r1
    r2 = r2
    r3 = r3
    NULL = NULL
    Threads <- MC_Threads
    Records <- MC_Records
    KProc = r0
    MaxProcesses = 3
    CanFail = FALSE
SPECIFICATION Spec
INVARIANT PidUnique
