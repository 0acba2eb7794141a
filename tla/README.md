# TLA+ models of the polito-os161 kernel

This directory holds TLA+ models of the concurrent parts of the kernel under
`src/os161/src/kern`, plus the TLC configurations that check them.
`PROJECT.json` lists the following:
- the components;
- the runs;
- the mutants that show each property can fail;
- the map from each definition to the lines of C it translates;
- the findings;
- the hazards.

## The system

| Part | Source | Shared state | Operations |
|------|--------|--------------|------------|
| Wait channels | `thread/thread.c` 603-736 | `wc_threads`, `wc_lock` | `wchan_lock`, `wchan_sleep`, `wchan_wakeone`, `wchan_wakeall` |
| Semaphores, locks, CVs | `thread/synch.c` | `sem_count`, `lk_holder`, spinlocks | `P`, `V`, `lock_acquire`, `lock_release`, `cv_wait`, `cv_signal`, `cv_broadcast` |
| Scheduler | `thread/thread.c` 276-593 | per-CPU run queues, `c_isidle`, zombies | `thread_make_runnable`, `thread_switch`, `thread_exit`, `thread_consider_migration` |
| IPIs | `thread/thread.c` 747-847 | `c_ipi_pending`, `c_shootdown` | `ipi_send`, `ipi_broadcast`, `ipi_tlbshootdown`, `interprocessor_interrupt` |
| Process table | `proc/proc.c` | `p_table`, `next_pid`, `lk_allproc` | `proc_create`, `proc_destroy`, `proc_get` |
| fork/exit/waitpid | `syscall/fork.c`, `sys_waitpid` of `syscall/file_syscall.c` | `p_is_dead`, `p_retval`, `p_sem`, `p_proc` | `sys_fork`, `sys_exit`, `___waitpid`, `sys_waitpid` |
| File syscalls | `syscall/file_syscall.c`, `io/file.c` | `fd_ofiles`, `fd_lk`, `f_refcount` | `sys_open`, `sys_dup2`, `sys_read`, `sys_write`, `sys_close`, `sys_lseek`, `close_all_f` |
| Vnode counts | `vfs/vnode.c` | `vn_refcount` | `vnode_incref`, `vnode_decref`, `vnode_check` |
| CPU start-up | `thread/thread.c` 233-272 | `cpu_startup_sem` | `thread_start_cpus`, `cpu_hatch` |
| execv | `syscall/fork.c` 213-427 | `karg`, `kargbuf`, `lk_exec`, `t_addrspace` | `sys_execv`, `copy_args`, `align_arg`, `adjust_kargbuf` |

These parts interact as follows:
- Every blocking primitive sleeps on a wait channel.
- At boot, `thread_start_cpus` waits on a semaphore, `cpu_startup_sem`, for every secondary CPU's `cpu_hatch` to `V` it, then destroys it.
- `thread_switch` puts the sleeper on the channel. `wchan_wake*` puts it back on a run queue.
- The process layer uses a sleep lock, `lk_allproc`, for the table.
- Each process has a per-process lock plus a semaphore, `p_sem`. Exit and waitpid meet on that semaphore.
- `sys_exit` first closes every descriptor of the process (`close_all_f`). Each open file holds references to its vnode.
- `sys_execv` keeps the descriptor table, opens the program through the same vnode counts, and replaces the address space. It marshals argv through two static buffers shared by every process, under the global `lk_exec`.

## Modules

### `Synch`

`Synch` models one semaphore, one sleep lock and one condition variable, shared by a set of `Threads`.

**Steps.** Each step is one spinlock critical section of the code. `pc[t]` is the place in the code where thread `t` resumes.

**Spinning.** Spinning on a spinlock is a guard that is disabled. `sem_lock`, `lk_lock` and `wc_lock[w]` name the holder of each spinlock.

**Wait channels.** `wc_threads[w]` is a channel's queue:
- `wchan_sleep` appends the thread and unlocks the channel, as `thread_switch(S_SLEEP)` does;
- `wchan_wakeone` removes the head under the channel lock.

**Run queue.** The run queue is abstracted to "not on any channel".

**The while loops.** A woken thread goes back to the test (`P_retry`, `LA_retry`), so a barging thread may take the unit or the lock first, as in the code.

**Client calls.** Threads make any sequence of calls that the `KASSERT`s allow: `lock_release` and `cv_*` only by the holder.

### `Boot`

`Boot` models the start-up of the secondary CPUs:
- `thread_start_cpus`: `sem_create_startup`, `mainbus_start_cpus`, the loop `StartLoopP` (one `P` per secondary CPU, `StartLoopTest` is the `for` test) and `sem_destroy_startup`;
- `cpu_hatch(h)`: `V(cpu_startup_sem)`, then `hatch_exit` (`thread_exit`).

**The semaphore.** `cpu_startup_sem` is a second `INSTANCE Synch`, `StartupSem`, on variables of its own (`sem_pc`, `csem_count`, `csem_lock`, `csem_wc`, `csem_wc_lock`), with `MaxCount` the number of secondary CPUs. Its `P` and `V` are therefore exactly the steps that `synch` checks, sleep and wakeup included. The lock and condition variable of that instance are unused; both lock fields stand for one variable, `no_lock`, that stays `NULL`.

**Allocation.** `sem_live` is true between `sem_create` and `sem_destroy`. Before `sem_create` the fields hold the values `sem_create` gives them. A `sem_create` failure at boot is not modelled.

`MC_Synch` runs `Boot` beside the three `Synch` threads: a step is a step of one of them, and each keeps its own fairness.

### `ProcTable`

`ProcTable` models the pid allocator and table of `proc/proc.c`.

**Steps.** Each critical section under `lk_allproc` is one step:
- `proc_alloc_pid` does its two scan loops as one step, ending in `proc_found_spot` or `ENPROC`;
- `proc_dealloc_pid` is one step;
- `proc_add_to_allproc` is one step.

**Memory and pids.** A proc structure is a member of `Records`. `live` is what has been allocated and not freed, and `rec_pid[r]` is `p->p_pid`.

**Clients.** Client threads call `proc_create` (as `sys_fork` does) and `proc_destroy` on processes they created. `proc_create` has these steps:
- allocate the pid;
- build the structure (`proc_create_init`), or fail (`proc_create_fail`, its unwind paths);
- publish the structure (`proc_add_to_allproc`).

`proc_destroy` has two steps: free the structure, then deallocate the pid.

**Allocation failures.** An allocation fails when `CanFail` is TRUE or every record is in use (kmalloc returns NULL).

**Initial state.** `Init` is the state that `proc_bootstrap` leaves: kproc in slot 0 and `next_pid = 1`.

### `ProcLifecycle`

`ProcLifecycle` composes `ProcTable` (by `INSTANCE ProcTable`) with `sys_fork`, `sys_exit` and `___waitpid` of `syscall/fork.c`, `sys_waitpid` of `syscall/file_syscall.c` and `proc_get` of `proc/proc.c`.

**Processes.** A process has one thread, because `sys_fork` starts exactly one. `th_proc[t]` is `curthread->td_proc`.

**Per-process state.** The module keeps `p_is_dead`, `p_retval`, `p_proc` (the parent pointer), the count of `p_sem` and the holder of `p->lock`. Locks and semaphores are taken atomically; `Synch` shows the primitives behave like that.

**Exit status.** `sys_exit(t, exitcode)` stores the code in `p_retval` under `p->lock`. `WaitRelock` reads it into `wp_status[t]` (the `kstatus` local of `sys_waitpid`) through `MKWAIT_EXIT`, the `_MKWAIT_EXIT` macro of `include/kern/fork.h`. The history variable `exited_with` records the code each process passed to `sys_exit`, so the property can compare what the parent got with what the child sent. An `options` value other than 0 and `WNOHANG` returns `EINVAL` before `proc_get`, and so does a pid outside `1..MAX_PROCESSES-1` in `proc_get`; the calls pass pids 0 to `MAX_PROCESSES`. A valid one is next read at the `WNOHANG` test, so `WaitCheck` chooses it there.

**Steps.** Each C function is split at every lock, semaphore or table step. `th_pc[t]` is the place in the code:
- `sys_fork` → `ForkCreate` (`proc_copy`) → `ForkAdd` → `ForkLink` → `ForkSpawn`, or the unwind path;
- `sys_exit` → `ExitUnlock` → `ExitDestroy` → `ExitDealloc`;
- `waitpid` → `WaitLock` → `WaitCheck` → `WaitP` → `WaitRelock` → `WaitDestroy` → `WaitDealloc`.

**Budget.** `MaxCalls` bounds the number of system calls made in all.

### `Sched`

`Sched` models the scheduler of `thread/thread.c` on `NCPU` CPUs.

**State.** Per CPU:
- `runqueue[c]`, a sequence, with its spinlock `rq_lock[c]`;
- `curthread[c]`, `isidle[c]` and the `zombies` set;
- `cpc[c]`, where the CPU is in the code.

Per thread: `t_state` and `t_cpu`. One wait channel: `wc_threads` with `wc_lock`.

**`thread_switch`.** It is split where the code releases or takes the run queue lock:
- placement of the old thread under the lock (`thread_switch`);
- the pick (`SwitchPick`);
- the idle loop, which drops and retakes the lock (`SwitchIdle`);
- the resume with `exorcise` (`SwitchResume`), which `thread_destroy`s every zombie of the CPU (the operator `exorcise`).

A thread that is `DESTROYED` is a free thread structure that `thread_fork` may reuse: `thread_create` makes it `S_READY`.

**Waking.** `wchan_wakeone` and `wchan_wakeall` detach threads under the channel lock. They then call `thread_make_runnable` for each (`WakeMakeRunnable`).

**Migration.** `thread_consider_migration` is modelled pass by pass, each pass under the lock it takes:
- counting the queues (`MigCount`);
- the share and the early return (`MigDecide`);
- detaching the tail (`MigDetach`);
- moving to each CPU with the `curthread` skip (`MigGive`, `MigMove`, `MigMoveDone`);
- returning the leftovers (`MigReturn`).

**Timer.** The timer runs `thread_yield` or migration on a running CPU. It also runs migration inside `cpu_idle`; the early return on `c_isidle` at the top of `thread_switch` exists for that case. Inside `cpu_idle`, `curthread` is the thread that last ran, so it may already be back on the queue after a wakeup. The `curthread` skip in migration exists for this case.

**The `UNIDLE` IPI.** The IPI that `thread_make_runnable` sends is left to `Ipi`. The timer ends `cpu_idle` anyway, so the IPI only shortens latency.

### `Ipi`

`Ipi` models `ipi_send`, `ipi_broadcast`, `ipi_tlbshootdown` and `interprocessor_interrupt`, together with the two callers that hold a run queue lock around `ipi_send`.

**States of a CPU.** Each CPU is `run`, `idle` (inside `cpu_idle` with its run queue lock released), in one of those calls, or `halted`.

**The shootdown counter.** `c_numshootdown` is an unsigned integer of `ShootdownBits` bits. `requested[c]` is the set of mappings asked of `c` since its last handler run. `overrun[c]` records the out-of-bounds indexes written.

**Constants from outside `src/`.** `TLBSHOOTDOWN_MAX` and `TLBSHOOTDOWN_ALL` come from the machine headers. Upstream OS/161 defines ALL as `-1` on the unsigned counter, the all-ones word. The model uses 7 in 3 bits.

### `FileTable`

`FileTable` models the descriptor table of one process, the open files it points to, and the vnode counts they hold. It covers:
- `sys_open`/`k_open`, `sys_dup2`, `sys_read`, `sys_write`, `sys_close` and `sys_lseek` of `syscall/file_syscall.c`;
- `get_file`, `des_descriptor`, `des_file` and `close_all_f` of `io/file.c`;
- the counts of `vfs/vnode.c`.

**Steps.** A process runs one thread, because `sys_fork` starts exactly one, so nothing else touches its table. Each system call is one step. `sys_exit` starts `close_all_f`, and the loop takes one step per slot (`exit_i` is its index).

**Memory.**
- A `struct file` is a member of `Files`. `allocated` is what has been kmalloc'd and not freed, so freed memory is reused.
- `fd_lk` is `"live"` or `"freed"`.
- `vn_refcount[v] = 0` means the vnode is not in memory: `vnode_decref` of the last reference reclaims it through `vnode_cleanup`.

**Faults.** A step that touches freed memory or reads past `fd_ofiles` sets `fault`, and the process goes no further. This covers acquiring a destroyed lock, following a freed file, and a VOP on a reclaimed vnode (`vnode_check` panics).

**Failures.** With `CanFail`, `vfs_open`, `kmalloc`, `lock_create` and the `O_APPEND` `VOP_STAT` may fail. Every unwind path of `k_open` is an alternative of its own.

**Code outside the repository.** These are modelled by their contract:
- `vfs_open` returns the vnode with one more reference (`vnode_init` for a vnode not yet in memory);
- `vfs_close` is `VOP_DECREF`;
- `fd_attach` fills some free slot, or fails when none is free;
- `fd_detach` clears the slot;
- the table has `OPEN_MAX` slots.

**Abstracted.** Offsets, buffers and contents are left out: `sys_read`, `sys_write` and `sys_lseek` matter for the memory they reach. `file_copy` (the table copy of `sys_fork`) is not in the repository. So the model does not share open files between processes, and `ProcLifecycle` keeps the table abstract.

### `Execv`

`Execv` extends `FileTable` with `sys_execv` as one more system call of the same process (`ProcSpec`, `ProcNext`). The descriptor table survives an exec, and the program's vnode takes and drops its reference in the same `vn_refcount`.

**Steps.** `lk_exec` is held from before the name's `copyinstr` to after the `copyout`, and the process runs one thread. So one `execv` is one step: each failure point is an alternative, in the code's order.

**Failures and unwinds.**
- With `CanFail`, any of these may fail: the name's `copyinstr`, `vfs_open`, `as_create`, `load_elf`, `as_define_stack`, `copyout`.
- `ExecReturn` is the return after `vfs_open`: release `lk_exec` and `vfs_close`.
- `UnwindNew` is the return after the switch to `as_new`: also restore `as_old` and `as_destroy(as_new)`.
- `adjust_kargbuf` always returns 0, so its error branch is dead and has no alternative.

**Marshalling.** `copy_args` is translated byte for byte, over `karg` and `kargbuf` of `KARG_SIZE` bytes (64 KiB in the code):
- `FirstPass` copyinstr's each string and sums `buflen` (`BufLen`, a `FoldLeft`);
- `SecondPass` (RECURSIVE) computes each offset, pads with `align_arg`, stores the offset least-significant byte first, and `memcpy`s the padded string behind the pointer array;
- `adjust_kargbuf` reads each offset back and writes `stack_ptr + offset` in the big-endian order of `memcpy` on MIPS;
- a user argv is the strings up to where the copyin of the pointer array stopped, plus how it stopped: a NULL, or a failing copyin.

**State.**
- `karg` is state, because a byte `align_arg` skips is copied out with the next argument.
- `kargbuf` is not state: `copyout` reads exactly the bytes `copy_args` has just written.
- `as_cur` and `as_live` are the current and the undestroyed address spaces.
- `ustack` is the block the last successful execv copied out, with its argc. `exec_args` is what that execv was given.

A write past either buffer is undefined behaviour and sets `fault = "out_of_bounds"`. `copy_args` depends only on the argv and `karg`, so `CopyArgsTable` tabulates it once over the `karg` values reachable (`KargValues`, a fixpoint). The action then looks the result up.

**Contracts.** `copyinstr` copies the string and its NUL, or fills the buffer and fails with `ENAMETOOLONG`. `load_elf`, `as_define_stack` and `copyout` succeed or fail.

## Runs

| Run | Checks | Result |
|-----|--------|--------|
| `synch` (`MC_Synch.cfg`) | `TypeOK`, `LockMutex`, `NoLostWakeup`, `CvSignalNotLost`, `LockProgress`, `SemProgress` under `FairSpec`; `StartupSemQuiet`, `BootCompletes` of `Boot` beside them | pass |
| `proctable_pid_unique` | `PidUnique` | violated: two live processes share a pid |
| `lifecycle` (`MC_ProcLifecycle.cfg`) | `TypeOK`, `ExitHandshake`, `NoLeakedProc`, `ExitStatusDelivered`, `AllocFailsOnlyWhenFull`, `WaitReturns` under `FairSpec` | pass |
| `lifecycle_stale_parent` | `WaitOnlyOwnChildren` | violated: a reused parent pointer passes the check |
| `lifecycle_wait_freed` | `WaitTargetLive` | violated: waiting on a process that frees itself |
| `sched` (`MC_Sched.cfg`) | `TypeOK`, `ThreadPlacement`, `CpuConsistent`, `CurthreadNotShared` | pass |
| `sched_live` (`MC_Sched_live.cfg`) | `ReadyRuns` under `FairSpec` | pass |
| `ipi` (`MC_Ipi.cfg`) | `ShootdownCoveredUntilOverrun` | pass |
| `ipi_shootdown_lost` (`MC_Ipi_covered.cfg`) | `ShootdownCovered` | violated: the full flush is lost |
| `ipi_offline_cycle` (`MC_Ipi_spin.cfg`) | `NoSpinCycle` | violated: two CPUs spin on each other's locks |
| `ft` (`MC_FileTable.cfg`) | `ProcTypeOK`, `ExitLeavesTableEmpty`, `ArgvDelivered`, `ExecUnwinds` over `ProcSpec` | pass |
| `ft_ub` (`MC_FileTable_ub.cfg`) | `SyscallsDefined` | violated: `sys_close` destroys the table's lock |

`ProcTable`'s allocator property `AllocFailsOnlyWhenFull` is checked in the `lifecycle` run. That run drives `ProcTable`'s actions through `INSTANCE ProcTable`, with the table full, the cursor wrapping and allocations failing. `MC_ProcTable` runs the duplicate-pid finding on the table alone.

What the properties state:
- **`NoLostWakeup`.** While sleepers are queued, there are enough runnable threads on their way to take the semaphore's units, and a free lock has a runnable contender.
- **`CvSignalNotLost`.** No thread may signal while another is between `lock_release` and its sleep in `cv_wait`.
- **`StartupSemQuiet`.** Once `cpu_startup_sem` is destroyed (and before it is created), no thread is inside its `P` or `V`, its spinlock is free, nobody sleeps on its wait channel (`wchan_destroy` asserts that) and no secondary CPU has yet to make its `V`. The mutant ends the loop one `P` short.
- **`BootCompletes`.** Boot eventually gets past `thread_start_cpus`, and every secondary CPU's thread exits, whatever the order of the `V` and the `P`. The mutant is `V` without its wakeup.
- **`ExitHandshake`.** `p_sem` never exceeds 1 and is positive only once `p_is_dead` is set. A waiter past its `P` finds the child dead and the unit consumed.
- **`AllocFailsOnlyWhenFull`.** `proc_alloc_pid` returns ENPROC only when every slot is in use.
- **`WaitReturns`.** A parent blocked in `___waitpid` on an allocated child that has exited returns.
- **`ExitStatusDelivered`.** A blocking `waitpid` that has reaped its child holds a status that `WIFEXITED` and `WEXITSTATUS` of `kern/fork.h` decode as a normal exit with the code the child passed to `sys_exit` (scenario B of the contract). The mutant drops the store into `p_retval`.
- **`NoLeakedProc`.** Every allocated proc other than kproc is being built or torn down, runs a thread, or is dead and waiting to be reaped. In particular, a failed fork leaves nothing behind.
- **`ThreadPlacement`.** A live thread is in exactly one place: running on a CPU, on one run queue, on the wait channel, in a wakeup or migration in flight, or a zombie. A destroyed thread is in none.
- **`CpuConsistent`.** A thread queued on CPU `c`, or running on it, has `t_cpu = c`.
- **`CurthreadNotShared`.** No two CPUs have the same `curthread`.
- **`ReadyRuns`.** A thread on a run queue eventually runs.
- **`ShootdownCoveredUntilOverrun`.** Until a CPU's buffer is written past its end, every mapping requested of it is either stored in `c_shootdown` or covered by `TLBSHOOTDOWN_ALL`. `ShootdownCovered` drops the "until".
- **`NoSpinCycle`.** The waits-for relation between CPUs spinning on spinlocks has no cycle.
- **`ExitLeavesTableEmpty`.** When `close_all_f` returns to `sys_exit`, every slot is empty: the loop reaches the last slot while each `des_descriptor` clears and frees behind it. A fault stops the loop where it is.
- **`SyscallsDefined`.** No call of the file layer touches freed memory or reads past `fd_ofiles`.
- **`ArgvDelivered`.** After a successful `execv`, the new program reads its argv from the stack: pointers in machine order up to a NULL, each to a NUL-terminated string. That argv is exactly the strings `execv` was given, and `argc` is their number. The reference decoding (`UArgv`, `UString`, `UWord`) is written independently of `copy_args`.
- **`ExecUnwinds`.** Every `execv` step leaves the vnode counts as they were, and leaves the process owning exactly its current address space. Every return must therefore `vfs_close`, and destroy `as_new` on failure or `as_old` on success.

### Bounds

**Synch: three threads and `MaxCount = 2`.** This is enough for the following cases:
- a sleeper;
- a waker;
- a third thread that barges in;
- two units outstanding.

`MaxCount` bounds `V` by a guard; the code has no bound.

**Boot: one secondary CPU (two CPUs), run in the same model as the three `Synch` threads.** The `V` may come before or after the boot thread's `P`, and while the boot thread sleeps. The boot thread's `P` must wait for the `V` to release `sem_lock`. With two secondary CPUs the product with the three threads has 582k states and takes about five and a half minutes, over the time a run may take, so the run uses one; it then finishes in about 50 s.

**ProcTable: `MAX_PROCESSES = 3` (kproc plus two), two threads and four records.** With these bounds:
- the cursor wraps;
- the table fills, so `ENPROC` is returned;
- structures are reused after being freed;
- the two threads can race for one slot.

**ProcLifecycle: three threads, four slots, four records, `MaxCalls = 6`, any allocation may fail.** This is enough for:
- a process, its child and its grandchild to coexist;
- the table to fill;
- a structure to be reused after a reap.

Processes exit with code 7. It differs from the 0 that `proc_create` leaves in `p_retval`, so a status read from an unset `p_retval` is told apart. A second code would only double the exits. The options are 0, `WNOHANG` and `WUNTRACED` (`EINVAL`).

**Sched: two CPUs, four threads, with symmetry on the two non-boot threads.** This is enough for:
- a queue long enough that migration moves one thread and returns a leftover;
- the `curthread` skip to fire;
- a fork and an exit to reuse a structure.

The liveness run uses three threads and no symmetry, so that it finishes within minutes.

**Ipi: two CPUs, `TLBSHOOTDOWN_MAX = 2`, `MaxShootdowns = 4`.** Four shootdowns to one CPU fill its buffer, overflow it to ALL, and then write once past the end.

**FileTable and Execv: three slots, three struct files, two vnodes, two address spaces, six calls, any allocation may fail.** This is enough for the following cases:
- `dup2` shares a file between slots, or overwrites an open one;
- the table fills, and so does memory (a fourth kmalloc fails);
- two files share a vnode;
- files and vnodes are freed and reused.

The descriptors passed are 0 to 5: the slots, the two past the end that the range check lets through, and one beyond. The structs, the vnodes and the address spaces are each a symmetry set.

`KARG_SIZE = 24` scales both 64 KiB buffers down alike, and `USERSTACK = 1000` makes the relocated pointers two-byte values, so byte order matters. The five argument vectors reach every return of `copy_args`:
- two short strings, a 20-byte block that fits;
- an empty string and a five-byte one, ended by a failing copyin. The block of 24 bytes fills `kargbuf` exactly, and the empty string copies out a stale byte;
- a 21-byte string, whose padding writes `karg[24]`;
- a 24-byte string, which `copyinstr` refuses (the error return, which a bad `uargs` also takes);
- three strings whose 28-byte block overruns `kargbuf`.

With six calls, two execs can come between opens and closes. The run reaches 344k states in about a minute and a half.

`ft_ub` passes only descriptors inside the table and fails no allocation. Its shortest counterexample is therefore the `sys_close` bug, rather than the off-by-one, which is one call long.

### Fairness

**Synch and ProcLifecycle.** `FairSpec` gives weak fairness to every in-progress step of a thread (`Progress(t)` / `Step(t)`), but not to calls. This is justified because:
- a thread inside `P` or `lock_*` keeps running or spinning;
- the timer interrupt preempts, and the scheduler eventually runs every runnable thread.

Nobody is assumed to call `V` or `lock_release`. In `Boot` every step of the boot thread and of the secondary CPU is weakly fair: each CPU runs its thread until it blocks. The safety runs disable the deadlock check because every thread may legitimately sleep on a semaphore that nobody will `V`, or every process may have exited.

In `ProcLifecycle`, `MaxCalls` bounds calls in the run that checks `WaitReturns`. This keeps the other processes from starving a waiter of `p->lock` forever by calling again and again, a fairness among callers that the sleep lock does not give.

**Sched.** `FairSpec` gives strong fairness to:
- each CPU's in-progress steps;
- the idle loop's re-entry;
- the timer's `thread_yield`.

It must be strong because a step that waits for a spinlock is enabled only while the lock is free. The spinlock is released infinitely often, since the idle loop drops its lock around each `cpu_idle`. Weak fairness lets TLC starve one CPU on a lock, which the hardware does not do forever. The idle loop gets its own fairness because a migration pass may interrupt it at any time.

**FileTable.** There is no fairness and no liveness property: the process may stop calling at any time. The deadlock check is off because the process really stops after `sys_exit`, after a fault, or when its calls are spent.

## Findings

Each finding below is a violation run.

1. **Duplicate pids.** `proc_found_spot` releases `lk_allproc` while the slot is still NULL. After the cursor wraps, two concurrent `proc_create` calls can get the same pid.
2. **Stale parent pointer.** `p_proc` is never cleared. A process whose structure reuses a dead parent's memory may wait for, and reap, a process it never forked.
3. **Waiting on a process that frees itself.** `___waitpid` on a parentless process locks and sleeps on freed memory.
4. **Lost TLB flush.** A shootdown arriving when `c_numshootdown` is already `TLBSHOOTDOWN_ALL` writes `c_shootdown[ALL]`, past the array, and wraps the count to 0. The flush of everything is then lost (`thread.c:785-791`).
5. **Spinlock deadlock on `IPI_OFFLINE`.** The handler holds `c_ipi_lock` and takes `c_runqueue_lock` (`thread.c:817`). `thread_make_runnable` holds the target's `c_runqueue_lock` and takes `c_ipi_lock` in `ipi_send` (`thread.c:294`). An idle CPU going offline and another CPU waking a thread onto it spin forever.

6. **`sys_close` destroys the table's lock.** When a file's count reaches zero, `sys_close` calls `lock_destroy` on `p_fd->fd_lk`, the lock of the whole table, not on the file's `f_lk` (`file_syscall.c:210`). The next `dup2`, `read`, `write`, `close` or `lseek`, or the `close_all_f` of `sys_exit`, acquires a destroyed lock.

`SyscallsDefined` would also catch these bugs of the file layer and of `execv`. TLC reaches each of them as a fault in the `ft` run. They are listed as hazards in `PROJECT.json`:
- **`dup2` onto an open descriptor.** The code increments and then decrements the same (old) file (`file_syscall.c:131`, `:135`). The file `newfd` held leaks, and the shared file's count is one short of its slots. At exit, `close_all_f` frees the file at the first slot and follows the freed pointer at the second. The `else` branch that frees the whole table is unreachable.
- **Off-by-one range check.** `read`, `write` and `close` accept `fd = OPEN_MAX` and `OPEN_MAX + 1`, past the table (`:154`, `:179`, `:202`).
- **`lock_create` failure in `k_open`.** The code frees the struct, resets `err` to 0, and publishes the freed struct (`:81-86`).
- **Double `vfs_close`.** When the table is full, or the `O_APPEND` stat fails, `k_open` calls `vfs_close` and then `des_file`, which calls `vfs_close` again. A vnode opened only here is reclaimed and then released once more (`:105-106`, `:95-96`).
- **`karg` one byte too short.** `align_arg` starts zeroing two bytes past the last character. For a string of 65532 to 65534 bytes, which `copyinstr` accepts, it writes `karg[65536]` (`fork.c:228`).
- **`kargbuf` overrun.** `copy_args` never compares `buflen` with `sizeof(kargbuf)`. Arguments of more than 64 KiB in total are written past it (`fork.c:306`).
- **Vnode references of a `dup`.** `des_descriptor` drops a vnode reference per descriptor, but `dup2` takes none. Exiting with a dup'ed descriptor therefore reclaims the vnode before `des_file` closes it (`file.c:46`).

Two behaviours of `execv` break no property stated anywhere, and are listed as hazards:
- the byte after each argument's NUL is not zeroed, and carries a byte of an earlier argument onto the new stack (`fork.c:227`);
- a copyin of the argv array that fails after the first pointer ends the vector there, where `EFAULT` might be expected (`fork.c:281`).

Two behaviours of `waitpid` have no run:
- `WNOHANG` on a child that has not exited returns success with status 0, and `sys_waitpid` returns the child's pid (`fork.c:46-49`, `file_syscall.c:291`). The caller sees the child "exit with code 0". The contract says the call reports no state change. One unit test shows this, so it is not a hazard for the model checker.
- The `copyout` of the status can fail after the child is reaped and its pid freed (`file_syscall.c:286`). The status is lost, and a retry may wait for a different process that got the pid. This one is listed as a hazard.

Three hazards of the process code no longer have a run of their own. The run budget went to the file layer, and each of these is shown by a single test or another run:
- `proc_create`'s unwind trips `proc_dealloc_pid`'s `KASSERT` on the NULL slot (`proc.c:90`), so an ENOMEM fork panics;
- `sys_fork` ignores `proc_copy`'s error and dereferences NULL on a full table (`fork.c:128`);
- an orphan keeps its stale `p_proc` and is never reaped, the same stale pointer as finding 2.

`WaitTargetLive` also covers `proc_destroy` freeing the proc before clearing its slot (`proc.c:154`).

## Not modelled, and why

- **Open files shared between processes.** `file_copy`, `fd_create`, `fd_attach` and `fd_detach` are not in the repository. The file layer is modelled for one process, and the hand-off of a table at `sys_fork` is abstracted in `ProcLifecycle`.
- **`stdio_init` and `file_descriptor_exists`.** Nothing in the tree calls them.
- **The vnode leak of a failed `kmalloc` in `k_open` (`file_syscall.c:75`).** A leaked reference breaks no property that holds. A vnode-accounting invariant is also broken by `sys_close` (one reference of the two `k_open` takes), so it has no passing form to check.
- **Concurrent execs of several processes.** `karg` and `kargbuf` are shared by all processes, and `lk_exec` is held over every use of them, so the model runs `execv` for one process. The ELF loader and the VM layer are contracts.
- **`info_thread.c`.** It is a user-level demo.
- **The VM and VFS internals.** `vm_tlbshootdown` and `vfs_*` are the boundary of the models.
- **The rest of the boot path.** `thread_bootstrap` runs once, before anything else; `Init` states are the states it leaves. `cpu_identify`, `kprintf` and `spl0` in `thread_start_cpus` and `cpu_hatch` change no shared state. `sem_create`'s result is not checked at `thread.c:265`, but a failing allocation at boot is out of the model.
- **An abstract lock and counter for `Synch`.** Its lock half is `LockMutex` again and its counter half restates the guards of `P` and `V`, so no refinement is checked.
- **A type invariant for `Ipi`.** `c_numshootdown` is kept to its width by the `%` of its definition, as a C unsigned store is, so such an invariant could not fail.
- **`thread_panic`'s effect beyond halting CPUs.**
