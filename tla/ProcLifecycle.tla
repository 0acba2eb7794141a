--------------------------- MODULE ProcLifecycle ---------------------------
(***************************************************************************)
(* fork, exit and waitpid of kern/syscall/fork.c over the process table   *)
(* of ProcTable (kern/proc/proc.c).                                        *)
(*                                                                         *)
(* A process has one thread (sys_fork starts exactly one thread in the    *)
(* new process).  TIds are the thread structures; th_proc[t] is           *)
(* t->td_proc.  Per process the model keeps the fields the handshake      *)
(* uses: p_is_dead, p_retval, p_proc (the parent pointer), the count of  *)
(* p_sem and the holder of p->lock, and the status ___waitpid encodes.    *)
(* Locks and semaphores are taken atomically, blocking while             *)
(* unavailable; Synch shows the primitives implement that.  The           *)
(* trapframe, the address space and the descriptor table are data the     *)
(* properties do not tell apart.                                           *)
(*                                                                         *)
(* Init is the state once the first user process (Init1, created by       *)
(* proc_create with no parent) runs on thread Init1Thread, kproc holding  *)
(* slot 0.                                                                 *)
(***************************************************************************)
EXTENDS Naturals

CONSTANTS TIds, Records, KProc, Init1, Init1Thread, NULL, MaxProcesses,
          CanFail,
          WNOHANG,
          WUNTRACED, \* an option ___waitpid rejects
          ExitCodes, \* the codes user processes pass to _exit
          MaxCalls   \* the number of system calls the user processes make in all

ASSUME /\ {KProc, Init1} \subseteq Records /\ KProc # Init1
       /\ Init1Thread \in TIds
       /\ MaxProcesses >= 3
       /\ ExitCodes \subseteq 0..2^29 - 1   \* _MKWVAL(x) fits an int

VARIABLES p_table, next_pid, live, rec_pid, lk_allproc,  \* ProcTable
          pc, cur_pid, cur_rec, owned, err,              \* ProcTable's per-thread locals
          th_pc,      \* where each thread is in the system-call code
          th_proc,    \* t->td_proc
          p_local,    \* the struct proc * local of sys_fork (p_new) and ___waitpid (p)
          p_is_dead,
          p_retval,
          p_proc,     \* p->p_proc: the parent
          p_sem,      \* count of p->p_sem
          p_lock,     \* holder of p->lock
          wp_status,  \* kstatus of sys_waitpid: what ___waitpid stored in *retval
          forked_by,  \* history: the live process whose sys_fork created p
          exited_with, \* history: the code p's thread passed to sys_exit
          calls       \* system calls made so far

Tbl == INSTANCE ProcTable WITH Threads <- TIds

tblVars == <<p_table, next_pid, live, rec_pid, lk_allproc, pc, cur_pid, cur_rec, owned, err>>
lcVars == <<th_pc, th_proc, p_local, p_is_dead, p_retval, p_proc, p_sem, p_lock,
            wp_status, forked_by, exited_with>>
vars == <<tblVars, lcVars, calls>>

Pids == 0..MaxProcesses - 1

Options == {0, WNOHANG}

ThPCs == {"free", "user", "fault",
          "fork_alloc", "fork_create", "fork_add", "fork_link", "fork_spawn",
          "fork_unwind", "fork_unwind_dealloc",
          "exit_unlock", "exit_destroy", "exit_dealloc",
          "wp_lock", "wp_check", "wp_P", "wp_relock", "wp_read",
          "wp_destroy", "wp_dealloc"}

Me(t) == th_proc[t]

(* The wait-status encoding of kern/fork.h: _MKWAIT_EXIT(x) is           *)
(* (x << 2) | __WEXITED, with __WEXITED = 0.                               *)
MKWAIT_EXIT(x) == x * 4 + 0

Goto(t, l) == th_pc' = [th_pc EXCEPT ![t] = l]

-----------------------------------------------------------------------------
(* The two halves of proc_destroy(p), as called from sys_exit, ___waitpid *)
(* and sys_fork's unwind paths.  kfree ends every child's history link.   *)
DestroyFree(t, r, next) ==
    /\ Tbl!proc_destroy(t, r)
    /\ forked_by' = [c \in Records |-> IF c = r \/ forked_by[c] = r THEN NULL ELSE forked_by[c]]
    /\ Goto(t, next)
    /\ UNCHANGED <<th_proc, p_local, p_is_dead, p_proc, p_sem, p_lock, p_retval, exited_with, wp_status>>

DestroyDealloc(t, next) ==
    /\ Tbl!proc_destroy_dealloc(t)
    /\ Goto(t, next)
    /\ UNCHANGED <<th_proc, p_local, p_is_dead, p_proc, p_sem, p_lock, forked_by, p_retval, exited_with>>

-----------------------------------------------------------------------------
(* sys_fork.                                                                 *)

(* sys_fork calls proc_copy -> proc_create -> proc_alloc_pid.  On ENPROC  *)
(* proc_copy returns the error, p_new stays NULL and sys_fork reads       *)
(* p_new->p_pid: the kernel faults.                                        *)
sys_fork(t) ==
    /\ th_pc[t] = "user"
    /\ Tbl!proc_alloc_pid(t)
    /\ Goto(t, IF pc'[t] = "create_init" THEN "fork_create" ELSE "fault")
    /\ UNCHANGED <<th_proc, p_local, p_is_dead, p_proc, p_sem, p_lock, forked_by, p_retval, wp_status, exited_with>>

(* proc_create builds the proc (p_is_dead false, p_retval 0, p_proc NULL, *)
(* p_sem 0, a fresh lock), or one of its allocations fails: proc_dealloc_pid's      *)
(* KASSERT on the still-empty slot panics.                                 *)
ForkCreate(t) ==
    /\ th_pc[t] = "fork_create"
    /\ \/ /\ Tbl!proc_create_init(t)
          /\ LET r == cur_rec'[t]
             IN /\ p_is_dead' = [p_is_dead EXCEPT ![r] = FALSE]
                /\ p_proc' = [p_proc EXCEPT ![r] = NULL]
                /\ p_sem' = [p_sem EXCEPT ![r] = 0]
                /\ p_lock' = [p_lock EXCEPT ![r] = NULL]
                /\ p_retval' = [p_retval EXCEPT ![r] = 0]
                /\ exited_with' = [exited_with EXCEPT ![r] = NULL]
          /\ Goto(t, "fork_add")
       \/ /\ Tbl!proc_create_fail(t)
          /\ Goto(t, "fault")
          /\ UNCHANGED <<p_is_dead, p_proc, p_sem, p_lock, p_retval, exited_with>>
    /\ UNCHANGED <<th_proc, p_local, forked_by, wp_status>>

(* proc_add_to_allproc publishes p_new; proc_copy then copies the file    *)
(* table and returns p_new.                                                *)
ForkAdd(t) ==
    /\ th_pc[t] = "fork_add"
    /\ Tbl!proc_add_to_allproc(t)
    /\ p_local' = [p_local EXCEPT ![t] = cur_rec[t]]
    /\ Goto(t, "fork_link")
    /\ UNCHANGED <<th_proc, p_is_dead, p_proc, p_sem, p_lock, forked_by, p_retval, wp_status, exited_with>>

(* p_new->p_proc = curthread->td_proc.                                     *)
ForkLink(t) ==
    /\ th_pc[t] = "fork_link"
    /\ p_proc' = [p_proc EXCEPT ![p_local[t]] = Me(t)]
    /\ forked_by' = [forked_by EXCEPT ![p_local[t]] = Me(t)]
    /\ Goto(t, "fork_spawn")
    /\ UNCHANGED <<tblVars, th_proc, p_local, p_is_dead, p_sem, p_lock, p_retval, wp_status, exited_with>>

(* Fault-injected variant: a failure after proc_copy returns the error    *)
(* without destroying p_new.                                               *)
ForkSpawn_noUnwind(t) ==
    /\ th_pc[t] = "fork_spawn"
    /\ \/ \E c \in TIds :
             /\ th_pc[c] = "free"
             /\ th_pc' = [th_pc EXCEPT ![t] = "user", ![c] = "user"]
             /\ th_proc' = [th_proc EXCEPT ![c] = p_local[t]]
       \/ /\ CanFail \/ \A c \in TIds : th_pc[c] # "free"
          /\ Goto(t, "user")
          /\ UNCHANGED th_proc
    /\ p_local' = [p_local EXCEPT ![t] = NULL]
    /\ UNCHANGED <<tblVars, p_is_dead, p_proc, p_sem, p_lock, forked_by, p_retval, wp_status, exited_with>>

(* trapframe_copy, the args kmalloc, as_copy and thread_fork: the child   *)
(* thread starts in fork_child_return with td_proc = p_new and sys_fork   *)
(* returns the pid; or one of them fails and sys_fork unwinds.            *)
ForkSpawn(t) ==
    /\ th_pc[t] = "fork_spawn"
    /\ \/ \E c \in TIds :
             /\ th_pc[c] = "free"
             /\ th_pc' = [th_pc EXCEPT ![t] = "user", ![c] = "user"]
             /\ th_proc' = [th_proc EXCEPT ![c] = p_local[t]]
             /\ p_local' = [p_local EXCEPT ![t] = NULL]
       \/ /\ CanFail \/ \A c \in TIds : th_pc[c] # "free"
          /\ Goto(t, "fork_unwind")
          /\ UNCHANGED <<th_proc, p_local>>
    /\ UNCHANGED <<tblVars, p_is_dead, p_proc, p_sem, p_lock, forked_by, p_retval, wp_status, exited_with>>

(* The unwind: close_all_f(p_new) and proc_destroy(p_new).                 *)
ForkUnwind(t) ==
    /\ th_pc[t] = "fork_unwind"
    /\ DestroyFree(t, p_local[t], "fork_unwind_dealloc")

ForkUnwindDealloc(t) ==
    /\ th_pc[t] = "fork_unwind_dealloc"
    /\ DestroyDealloc(t, "user")
    /\ UNCHANGED wp_status

-----------------------------------------------------------------------------
(* sys_exit.                                                                 *)

(* Fault-injected variant: the child marks itself dead but never V()s.    *)
sys_exit_noV(t, exitcode) ==
    /\ th_pc[t] = "user"
    /\ p_lock[Me(t)] = NULL
    /\ p_retval' = [p_retval EXCEPT ![Me(t)] = exitcode]
    /\ exited_with' = [exited_with EXCEPT ![Me(t)] = exitcode]
    /\ p_is_dead' = [p_is_dead EXCEPT ![Me(t)] = TRUE]
    /\ \/ /\ p_proc[Me(t)] = NULL
          /\ Goto(t, "exit_destroy")
          /\ UNCHANGED <<p_sem, p_lock>>
       \/ /\ p_proc[Me(t)] # NULL
          /\ p_lock' = [p_lock EXCEPT ![Me(t)] = t]
          /\ Goto(t, "exit_unlock")
          /\ UNCHANGED p_sem
    /\ UNCHANGED <<tblVars, th_proc, p_local, p_proc, forked_by, wp_status>>

(* Fault-injected variant: the exit code is never stored in p_retval.     *)
sys_exit_noRetval(t, exitcode) ==
    /\ th_pc[t] = "user"
    /\ p_lock[Me(t)] = NULL
    /\ exited_with' = [exited_with EXCEPT ![Me(t)] = exitcode]
    /\ p_is_dead' = [p_is_dead EXCEPT ![Me(t)] = TRUE]
    /\ \/ /\ p_proc[Me(t)] = NULL
          /\ Goto(t, "exit_destroy")
          /\ UNCHANGED <<p_sem, p_lock>>
       \/ /\ p_proc[Me(t)] # NULL
          /\ p_sem' = [p_sem EXCEPT ![Me(t)] = @ + 1]
          /\ p_lock' = [p_lock EXCEPT ![Me(t)] = t]
          /\ Goto(t, "exit_unlock")
    /\ UNCHANGED <<tblVars, th_proc, p_local, p_proc, forked_by, p_retval, wp_status>>

(* close_all_f, then under p->lock set p_retval and p_is_dead; a process *)
(* with no parent releases the lock and destroys itself, one with a      *)
(* parent does V(p_sem) still holding the lock.                            *)
sys_exit(t, exitcode) ==
    /\ th_pc[t] = "user"
    /\ p_lock[Me(t)] = NULL
    /\ p_retval' = [p_retval EXCEPT ![Me(t)] = exitcode]
    /\ exited_with' = [exited_with EXCEPT ![Me(t)] = exitcode]
    /\ p_is_dead' = [p_is_dead EXCEPT ![Me(t)] = TRUE]
    /\ \/ /\ p_proc[Me(t)] = NULL
          /\ Goto(t, "exit_destroy")
          /\ UNCHANGED <<p_sem, p_lock>>
       \/ /\ p_proc[Me(t)] # NULL
          /\ p_sem' = [p_sem EXCEPT ![Me(t)] = @ + 1]
          /\ p_lock' = [p_lock EXCEPT ![Me(t)] = t]
          /\ Goto(t, "exit_unlock")
    /\ UNCHANGED <<tblVars, th_proc, p_local, p_proc, forked_by, wp_status>>

(* lock_release(p->lock), then thread_exit: the thread becomes a zombie   *)
(* and its structure is reclaimed.                                         *)
ExitUnlock(t) ==
    /\ th_pc[t] = "exit_unlock"
    /\ p_lock' = [p_lock EXCEPT ![Me(t)] = NULL]
    /\ Goto(t, "free")
    /\ th_proc' = [th_proc EXCEPT ![t] = NULL]
    /\ UNCHANGED <<tblVars, p_local, p_is_dead, p_proc, p_sem, forked_by, p_retval, wp_status, exited_with>>

ExitDestroy(t) ==
    /\ th_pc[t] = "exit_destroy"
    /\ DestroyFree(t, Me(t), "exit_dealloc")

(* proc_destroy's proc_dealloc_pid, then thread_exit.                      *)
ExitDealloc(t) ==
    /\ th_pc[t] = "exit_dealloc"
    /\ Tbl!proc_destroy_dealloc(t)
    /\ Goto(t, "free")
    /\ th_proc' = [th_proc EXCEPT ![t] = NULL]
    /\ UNCHANGED <<p_local, p_is_dead, p_proc, p_sem, p_lock, forked_by, p_retval, wp_status, exited_with>>

-----------------------------------------------------------------------------
(* ___waitpid.                                                               *)

(* Options other than 0 and WNOHANG are EINVAL.  proc_get: a pid outside *)
(* 1..MAX_PROCESSES-1 is EINVAL; under lk_allproc, an empty slot is       *)
(* ESRCH; otherwise go on to lock the proc, still holding lk_allproc.  A  *)
(* valid options value is read again only at the WNOHANG test, so        *)
(* WaitCheck chooses it there.                                             *)
waitpid(t, pid, options) ==
    /\ th_pc[t] = "user"
    /\ \/ /\ options \notin Options \/ pid \notin 1..MaxProcesses - 1
          /\ UNCHANGED <<lk_allproc, th_pc, p_local>>
       \/ /\ options \in Options /\ pid \in 1..MaxProcesses - 1
          /\ lk_allproc = NULL
          /\ p_table[pid] = NULL
          /\ UNCHANGED <<lk_allproc, th_pc, p_local>>
       \/ /\ options \in Options /\ pid \in 1..MaxProcesses - 1
          /\ lk_allproc = NULL
          /\ p_table[pid] # NULL
          /\ lk_allproc' = t
          /\ p_local' = [p_local EXCEPT ![t] = p_table[pid]]
          /\ Goto(t, "wp_lock")
    /\ UNCHANGED <<p_table, next_pid, live, rec_pid, pc, cur_pid, cur_rec, owned, err>>
    /\ UNCHANGED <<th_proc, p_is_dead, p_proc, p_sem, p_lock, forked_by, p_retval, wp_status, exited_with>>

(* proc_get: lock_acquire(p->lock), then release lk_allproc.               *)
WaitLock(t) ==
    /\ th_pc[t] = "wp_lock"
    /\ p_lock[p_local[t]] = NULL
    /\ p_lock' = [p_lock EXCEPT ![p_local[t]] = t]
    /\ lk_allproc' = NULL
    /\ Goto(t, "wp_check")
    /\ UNCHANGED <<p_table, next_pid, live, rec_pid, pc, cur_pid, cur_rec, owned, err>>
    /\ UNCHANGED <<th_proc, p_local, p_is_dead, p_proc, p_sem, forked_by, p_retval, wp_status, exited_with>>

(* Fault-injected variant: the blocking path skips P(p_sem).               *)
WaitCheck_noP(t) ==
    /\ th_pc[t] = "wp_check"
    /\ p_lock' = [p_lock EXCEPT ![p_local[t]] = NULL]
    /\ \E options \in Options :
          LET p == p_local[t]
              returns == p_proc[p] # Me(t) \/ (~p_is_dead[p] /\ options = WNOHANG)
          IN Goto(t, IF returns THEN "user" ELSE "wp_relock")
    /\ UNCHANGED <<tblVars, th_proc, p_local, p_is_dead, p_proc, p_sem, forked_by, p_retval, wp_status, exited_with>>

(* Not the caller's child: ECHILD.  WNOHANG and not dead: return 0.       *)
(* Otherwise release p->lock and go to P(p->p_sem).  Every branch        *)
(* releases p->lock.                                                       *)
WaitCheck(t) ==
    /\ th_pc[t] = "wp_check"
    /\ p_lock' = [p_lock EXCEPT ![p_local[t]] = NULL]
    /\ \E options \in Options :
          LET p == p_local[t]
              returns == p_proc[p] # Me(t) \/ (~p_is_dead[p] /\ options = WNOHANG)
          IN Goto(t, IF returns THEN "user" ELSE "wp_P")
    /\ UNCHANGED <<tblVars, th_proc, p_local, p_is_dead, p_proc, p_sem, forked_by, p_retval, wp_status, exited_with>>

(* Fault-injected variant: P does not wait for a positive count.          *)
WaitP_nowait(t) ==
    /\ th_pc[t] = "wp_P"
    /\ p_sem' = [p_sem EXCEPT ![p_local[t]] = @ - 1]
    /\ Goto(t, "wp_relock")
    /\ UNCHANGED <<tblVars, th_proc, p_local, p_is_dead, p_proc, p_lock, forked_by, p_retval, wp_status, exited_with>>

(* P(p->p_sem).                                                              *)
WaitP(t) ==
    /\ th_pc[t] = "wp_P"
    /\ p_sem[p_local[t]] > 0
    /\ p_sem' = [p_sem EXCEPT ![p_local[t]] = @ - 1]
    /\ Goto(t, "wp_relock")
    /\ UNCHANGED <<tblVars, th_proc, p_local, p_is_dead, p_proc, p_lock, forked_by, p_retval, wp_status, exited_with>>

(* lock_acquire(p->lock); KASSERT(p->p_is_dead); *retval =               *)
(* _MKWAIT_EXIT(p->p_retval); lock_release(p->lock).                      *)
WaitRelock(t) ==
    /\ th_pc[t] = "wp_relock"
    /\ p_lock[p_local[t]] = NULL
    /\ wp_status' = [wp_status EXCEPT ![t] = MKWAIT_EXIT(p_retval[p_local[t]])]
    /\ Goto(t, "wp_destroy")
    /\ UNCHANGED <<tblVars, th_proc, p_local, p_is_dead, p_proc, p_sem, p_lock, forked_by, p_retval, exited_with>>

(* proc_destroy(p).                                                          *)
WaitDestroy(t) ==
    /\ th_pc[t] = "wp_destroy"
    /\ DestroyFree(t, p_local[t], "wp_dealloc")

(* proc_dealloc_pid; back in sys_waitpid, copyout(kstatus) and          *)
(* *retval = pid: the locals go out of scope.                              *)
WaitDealloc(t) ==
    /\ th_pc[t] = "wp_dealloc"
    /\ DestroyDealloc(t, "user")
    /\ wp_status' = [wp_status EXCEPT ![t] = NULL]

-----------------------------------------------------------------------------

Init ==
    /\ p_table = [i \in Pids |-> CASE i = 0 -> KProc [] i = 1 -> Init1 [] OTHER -> NULL]
    /\ next_pid = 2
    /\ live = {KProc, Init1}
    /\ rec_pid = [r \in Records |-> CASE r = KProc -> 0 [] r = Init1 -> 1 [] OTHER -> NULL]
    /\ lk_allproc = NULL
    /\ pc = [t \in TIds |-> "idle"]
    /\ cur_pid = [t \in TIds |-> NULL]
    /\ cur_rec = [t \in TIds |-> NULL]
    /\ owned = [t \in TIds |-> {}]
    /\ err = [t \in TIds |-> "OK"]
    /\ th_pc = [t \in TIds |-> IF t = Init1Thread THEN "user" ELSE "free"]
    /\ th_proc = [t \in TIds |-> IF t = Init1Thread THEN Init1 ELSE NULL]
    /\ p_local = [t \in TIds |-> NULL]
    /\ p_is_dead = [r \in Records |-> FALSE]
    /\ p_retval = [r \in Records |-> 0]
    /\ wp_status = [t \in TIds |-> NULL]
    /\ exited_with = [r \in Records |-> NULL]
    /\ p_proc = [r \in Records |-> NULL]
    /\ p_sem = [r \in Records |-> 0]
    /\ p_lock = [r \in Records |-> NULL]
    /\ forked_by = [r \in Records |-> NULL]
    /\ calls = 0

(* The system calls a user thread may make.                                *)
Call(t) ==
    \/ sys_fork(t)
    \/ \E exitcode \in ExitCodes : sys_exit(t, exitcode)
    \/ \E pid \in 0..MaxProcesses, options \in Options \cup {WUNTRACED} :
          waitpid(t, pid, options)

(* The steps of a system call in progress.                                 *)
Step(t) ==
    \/ ForkCreate(t) \/ ForkAdd(t) \/ ForkLink(t) \/ ForkSpawn(t)
    \/ ForkUnwind(t) \/ ForkUnwindDealloc(t)
    \/ ExitUnlock(t) \/ ExitDestroy(t) \/ ExitDealloc(t)
    \/ WaitLock(t) \/ WaitCheck(t) \/ WaitP(t) \/ WaitRelock(t)
    \/ WaitDestroy(t) \/ WaitDealloc(t)

Next ==
    \E t \in TIds :
        \/ calls < MaxCalls /\ Call(t) /\ calls' = calls + 1
        \/ Step(t) /\ UNCHANGED calls

Spec == Init /\ [][Next]_vars

FairSpec == Spec /\ \A t \in TIds : WF_vars(Step(t) /\ UNCHANGED calls)
-----------------------------------------------------------------------------
(* Properties.                                                               *)

TypeOK ==
    /\ Tbl!TypeOK
    /\ th_pc \in [TIds -> ThPCs]
    /\ th_proc \in [TIds -> Records \cup {NULL}]
    /\ p_local \in [TIds -> Records \cup {NULL}]
    /\ p_is_dead \in [Records -> BOOLEAN]
    /\ p_retval \in [Records -> ExitCodes \cup {0}]
    /\ wp_status \in [TIds -> {MKWAIT_EXIT(c) : c \in ExitCodes \cup {0}} \cup {NULL}]
    /\ exited_with \in [Records -> ExitCodes \cup {NULL}]
    /\ p_proc \in [Records -> Records \cup {NULL}]
    /\ p_sem \in [Records -> Nat]
    /\ p_lock \in [Records -> TIds \cup {NULL}]
    /\ forked_by \in [Records -> Records \cup {NULL}]
    /\ calls \in 0..MaxCalls

(* The exit handshake is exactly-once: a process's p_sem is signalled at  *)
(* most once and only after sys_exit has marked it dead, and the waiter   *)
(* that got past P(p_sem) finds the child dead (___waitpid's              *)
(* KASSERT(p->p_is_dead)) and has consumed the only signal.               *)
ExitHandshake ==
    /\ \A r \in live : p_sem[r] <= 1 /\ (p_sem[r] = 1 => p_is_dead[r])
    /\ \A t \in TIds :
          th_pc[t] \in {"wp_relock", "wp_destroy"}
             => p_is_dead[p_local[t]] /\ p_sem[p_local[t]] = 0

(* Scenario B of the exit/wait contract: a blocking ___waitpid that has  *)
(* reaped its child holds a status that, decoded with kern/fork.h's      *)
(* WIFEXITED and WEXITSTATUS, says the child exited normally with the     *)
(* very code its thread passed to sys_exit.  The code travels from       *)
(* sys_exit to the parent through p_retval under p->lock and the p_sem    *)
(* handshake.                                                              *)
WIFEXITED(x) == x % 4 = 0
WEXITSTATUS(x) == x \div 4

ExitStatusDelivered ==
    \A t \in TIds :
        th_pc[t] = "wp_destroy"
           => /\ WIFEXITED(wp_status[t])
              /\ WEXITSTATUS(wp_status[t]) = exited_with[p_local[t]]

(* No partial process survives: every allocated proc other than kproc is  *)
(* being built or torn down by a system call, runs a thread, or has       *)
(* exited and waits to be reaped; in particular a failed sys_fork unwinds *)
(* the process it published.                                               *)
NoLeakedProc ==
    \A r \in live \ {KProc} :
        \/ p_is_dead[r]
        \/ \E t \in TIds : r \in {th_proc[t], p_local[t], cur_rec[t]}

(* proc_alloc_pid, as sys_fork reaches it through proc_copy, returns      *)
(* ENPROC only when every slot of the table is in use: the scan from the  *)
(* cursor, wrapping once, misses no slot that an exit and reap freed.     *)
AllocFailsOnlyWhenFull == Tbl!AllocFailsOnlyWhenFull

(* A parent blocked in ___waitpid on an allocated child that has exited  *)
(* returns from the call, having reaped the child.  (A waiter on a freed  *)
(* proc is WaitTargetLive's concern.)                                      *)
WaitReturns ==
    \A t \in TIds :
        (th_pc[t] = "wp_P" /\ p_local[t] \in live /\ p_is_dead[p_local[t]])
            ~> (th_pc[t] = "user")

(* ___waitpid reaps only a child the caller forked: once it gets past the *)
(* p->p_proc check, the process it waits for was created by the caller's *)
(* own sys_fork.                                                           *)
WaitOnlyOwnChildren ==
    \A t \in TIds :
        th_pc[t] \in {"wp_P", "wp_relock", "wp_destroy"}
           => forked_by[p_local[t]] = Me(t)

(* ___waitpid never works on freed memory: from proc_get to proc_destroy  *)
(* the proc it locked is allocated.                                        *)
WaitTargetLive ==
    \A t \in TIds :
        th_pc[t] \in {"wp_lock", "wp_check", "wp_P", "wp_relock", "wp_destroy"}
           => p_local[t] \in live
=============================================================================
