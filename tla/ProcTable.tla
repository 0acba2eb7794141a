----------------------------- MODULE ProcTable -----------------------------
(***************************************************************************)
(* The process table and pid allocator of kern/proc/proc.c: p_table,     *)
(* next_pid, proc_alloc_pid, proc_add_to_allproc, proc_dealloc_pid, and   *)
(* the two callers that allocate and free slots, proc_create and          *)
(* proc_destroy.                                                           *)
(*                                                                         *)
(* Every critical section under lk_allproc is one atomic step.  A proc    *)
(* structure is a member of Records (kmalloc'd memory); live is the set   *)
(* of structures allocated and not yet freed.  Each thread is a client    *)
(* that creates processes (as sys_fork does through proc_copy) and later  *)
(* destroys one it created (as ___waitpid or sys_exit do).                 *)
(* The initial state is the one proc_bootstrap leaves: kproc in slot 0.   *)
(***************************************************************************)
EXTENDS Naturals, FiniteSetsExt

CONSTANTS Threads,       \* threads calling proc_create / proc_destroy
          Records,       \* the memory a struct proc can be kmalloc'd in
          KProc,         \* the record of kproc
          NULL,
          MaxProcesses,  \* MAX_PROCESSES
          CanFail        \* whether kmalloc/fd_create/lock_create/sem_create may fail

ASSUME /\ KProc \in Records
       /\ NULL \notin Records \cup Threads
       /\ MaxProcesses \in Nat \ {0, 1}
       /\ CanFail \in BOOLEAN

Pids == 0..MaxProcesses - 1

Errs == {"OK", "ENPROC", "ENOMEM"}

VARIABLES p_table,   \* p_table[pid]: the proc registered under pid, or NULL
          next_pid,  \* the allocation cursor
          live,      \* proc structures allocated and not freed
          rec_pid,   \* p->p_pid of each live proc structure
          pc,        \* where each thread resumes
          cur_pid,   \* the pid local of proc_create / proc_destroy
          cur_rec,   \* the proc local of proc_create
          owned,     \* the processes each client created and may destroy
          err,       \* the value proc_create last returned to each client
          lk_allproc \* the thread holding lk_allproc across a blocking step, or NULL

tableVars == <<p_table, next_pid, live, rec_pid, lk_allproc>>
threadVars == <<pc, cur_pid, cur_rec, owned, err>>
vars == <<tableVars, threadVars>>

-----------------------------------------------------------------------------
(* The scan of proc_alloc_pid, starting at the cursor and wrapping once:  *)
(* the free slots at or after the cursor, then the free slots before it.  *)
ScanStart == IF next_pid >= MaxProcesses THEN 0 ELSE next_pid

FreeFrom(lo, hi) == {i \in lo..hi : p_table[i] = NULL}

(* Fault-injected variant: the wrapped loop stops one slot early.          *)
FreeBefore_short(start) == FreeFrom(0, start - 2)

FreeBefore(start) == FreeFrom(0, start - 1)

(* proc_found_spot: *pid = spot, the cursor moves just past it; the slot  *)
(* itself stays NULL until proc_add_to_allproc.                           *)
proc_found_spot(t, spot) ==
    /\ next_pid' = spot + 1
    /\ cur_pid' = [cur_pid EXCEPT ![t] = spot]
    /\ pc' = [pc EXCEPT ![t] = "create_init"]
    /\ UNCHANGED err

(* proc_alloc_pid, called by proc_create: under lk_allproc reset the      *)
(* cursor if it ran off the end, take the first free slot in scan order   *)
(* and hand it out, or return ENPROC.                                      *)
proc_alloc_pid(t) ==
    LET start == ScanStart
        after == FreeFrom(start, MaxProcesses - 1)
        before == FreeBefore(start)
    IN /\ pc[t] = "idle"
       /\ lk_allproc = NULL
       /\ \/ /\ after \cup before # {}
             /\ proc_found_spot(t, IF after # {} THEN Min(after) ELSE Min(before))
          \/ /\ after \cup before = {}
             /\ next_pid' = start
             /\ err' = [err EXCEPT ![t] = "ENPROC"]
             /\ UNCHANGED <<cur_pid, pc>>
       /\ UNCHANGED <<p_table, live, rec_pid, lk_allproc, cur_rec, owned>>

(* proc_create after the pid: kmalloc the proc, fd_create, lock_create,   *)
(* sem_create, initialise the fields.                                      *)
proc_create_init(t) ==
    /\ pc[t] = "create_init"
    /\ \E r \in Records \ live :
          /\ live' = live \cup {r}
          /\ rec_pid' = [rec_pid EXCEPT ![r] = cur_pid[t]]
          /\ cur_rec' = [cur_rec EXCEPT ![t] = r]
    /\ pc' = [pc EXCEPT ![t] = "create_add"]
    /\ UNCHANGED <<p_table, next_pid, lk_allproc, cur_pid, owned, err>>

(* proc_dealloc_pid: under lk_allproc, clear the slot.                     *)
proc_dealloc_pid(pid) ==
    /\ lk_allproc = NULL
    /\ p_table' = [p_table EXCEPT ![pid] = NULL]

(* proc_create when one of its allocations fails: free what was built and *)
(* proc_dealloc_pid(pid), return ENOMEM.                                   *)
proc_create_fail(t) ==
    /\ pc[t] = "create_init"
    /\ CanFail \/ Records \subseteq live
    /\ proc_dealloc_pid(cur_pid[t])
    /\ err' = [err EXCEPT ![t] = "ENOMEM"]
    /\ pc' = [pc EXCEPT ![t] = "idle"]
    /\ cur_pid' = [cur_pid EXCEPT ![t] = NULL]
    /\ UNCHANGED <<next_pid, live, rec_pid, lk_allproc, cur_rec, owned>>

(* proc_add_to_allproc: under lk_allproc, p_table[pid] = p.  proc_create  *)
(* returns 0 with the new process.                                         *)
proc_add_to_allproc(t) ==
    /\ pc[t] = "create_add"
    /\ lk_allproc = NULL
    /\ p_table' = [p_table EXCEPT ![cur_pid[t]] = cur_rec[t]]
    /\ owned' = [owned EXCEPT ![t] = @ \cup {cur_rec[t]}]
    /\ err' = [err EXCEPT ![t] = "OK"]
    /\ pc' = [pc EXCEPT ![t] = "idle"]
    /\ cur_pid' = [cur_pid EXCEPT ![t] = NULL]
    /\ cur_rec' = [cur_rec EXCEPT ![t] = NULL]
    /\ UNCHANGED <<next_pid, live, rec_pid, lk_allproc>>

(* proc_destroy(r): remember the pid, then sem_destroy, lock_destroy,     *)
(* fd_destroy and kfree the structure.                                     *)
proc_destroy(t, r) ==
    /\ pc[t] = "idle"
    /\ cur_pid' = [cur_pid EXCEPT ![t] = rec_pid[r]]
    /\ live' = live \ {r}
    /\ rec_pid' = [rec_pid EXCEPT ![r] = NULL]
    /\ owned' = [u \in Threads |-> owned[u] \ {r}]
    /\ pc' = [pc EXCEPT ![t] = "destroy_dealloc"]
    /\ UNCHANGED <<p_table, next_pid, lk_allproc, cur_rec, err>>

(* proc_destroy ends with proc_dealloc_pid(pid).                           *)
proc_destroy_dealloc(t) ==
    /\ pc[t] = "destroy_dealloc"
    /\ proc_dealloc_pid(cur_pid[t])
    /\ pc' = [pc EXCEPT ![t] = "idle"]
    /\ cur_pid' = [cur_pid EXCEPT ![t] = NULL]
    /\ UNCHANGED <<next_pid, live, rec_pid, lk_allproc, cur_rec, owned, err>>

-----------------------------------------------------------------------------

Init ==
    /\ p_table = [i \in Pids |-> IF i = 0 THEN KProc ELSE NULL]
    /\ next_pid = 1
    /\ live = {KProc}
    /\ rec_pid = [r \in Records |-> IF r = KProc THEN 0 ELSE NULL]
    /\ pc = [t \in Threads |-> "idle"]
    /\ cur_pid = [t \in Threads |-> NULL]
    /\ cur_rec = [t \in Threads |-> NULL]
    /\ owned = [t \in Threads |-> {}]
    /\ err = [t \in Threads |-> "OK"]
    /\ lk_allproc = NULL

Next ==
    \E t \in Threads :
        \/ proc_alloc_pid(t) \/ proc_create_init(t) \/ proc_create_fail(t)
        \/ proc_add_to_allproc(t) \/ proc_destroy_dealloc(t)
        \/ \E r \in owned[t] : proc_destroy(t, r)

Spec == Init /\ [][Next]_vars

-----------------------------------------------------------------------------
(* Properties.                                                               *)

TypeOK ==
    /\ p_table \in [Pids -> Records \cup {NULL}]
    /\ next_pid \in 0..MaxProcesses
    /\ live \subseteq Records
    /\ rec_pid \in [Records -> Pids \cup {NULL}]
    /\ pc \in [Threads -> {"idle", "create_init", "create_add", "destroy_dealloc"}]
    /\ cur_pid \in [Threads -> Pids \cup {NULL}]
    /\ cur_rec \in [Threads -> Records \cup {NULL}]
    /\ owned \in [Threads -> SUBSET Records]
    /\ err \in [Threads -> Errs]
    /\ lk_allproc \in Threads \cup {NULL}

(* proc_create returns ENPROC only when every slot of the table is in use *)
(* (the scan from the cursor, wrapping once, misses no free slot).        *)
AllocFailsOnlyWhenFull ==
    [][\A t \in Threads :
         (proc_alloc_pid(t) /\ pc'[t] = "idle")
            => \A i \in Pids : p_table[i] # NULL
      ]_vars

(* A pid is never held by two live processes at once: a pid is handed out *)
(* again only after the process that had it has been destroyed.           *)
PidUnique ==
    \A r1, r2 \in live : r1 # r2 => rec_pid[r1] # rec_pid[r2]
=============================================================================
