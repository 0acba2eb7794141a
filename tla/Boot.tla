-------------------------------- MODULE Boot --------------------------------
(***************************************************************************)
(* The start-up of the secondary CPUs in kern/thread/thread.c.             *)
(*                                                                         *)
(* thread_start_cpus, on the boot CPU, creates cpu_startup_sem with count *)
(* 0, starts the other CPUs (mainbus_start_cpus), does P once per         *)
(* secondary CPU and destroys the semaphore.  Each secondary CPU runs     *)
(* cpu_hatch on its boot thread: V(cpu_startup_sem), then thread_exit.    *)
(*                                                                         *)
(* The semaphore is Synch's, step for step: a second instance of Synch    *)
(* on variables of its own, whose lock and condition variable nobody      *)
(* uses.  sem_live says cpu_startup_sem points at an allocated semaphore; *)
(* a P or V after sem_destroy would touch freed memory.                   *)
(***************************************************************************)
EXTENDS Naturals, FiniteSets

CONSTANTS BootThread,    \* the thread running boot() on CPU 0
          HatchThreads,  \* the boot thread of each secondary CPU
          NULL

ASSUME /\ BootThread \notin HatchThreads
       /\ NULL \notin HatchThreads \cup {BootThread}
       /\ HatchThreads # {}

BootThreads == {BootThread} \cup HatchThreads

(* cpuarray_num(&allcpus) - 1: the secondary CPUs.                         *)
NHatch == Cardinality(HatchThreads)

VARIABLES sem_pc,        \* where each thread is inside P or V
          csem_count,    \* cpu_startup_sem->sem_count
          csem_lock,     \* holder of cpu_startup_sem->sem_lock
          csem_wc,       \* the threads on the semaphore's wait channel
          csem_wc_lock,  \* holder of the wait channel's spinlock
          boot_pc,       \* where thread_start_cpus is
          i,             \* its loop counter
          hatch_pc,      \* where each cpu_hatch is
          sem_live,      \* cpu_startup_sem is allocated
          no_lock        \* stands for Synch's lock fields: always NULL here

semVars == <<sem_pc, csem_count, csem_lock, csem_wc, csem_wc_lock, no_lock>>
bootVars == <<boot_pc, i, hatch_pc, sem_live>>
allVars == <<semVars, bootVars>>

StartupSem == INSTANCE Synch
                WITH Threads <- BootThreads, MaxCount <- NHatch, InitCount <- 0,
                     pc <- sem_pc, sem_count <- csem_count, sem_lock <- csem_lock,
                     lk_holder <- no_lock, lk_lock <- no_lock,
                     wc_threads <- csem_wc, wc_lock <- csem_wc_lock

-----------------------------------------------------------------------------
(* thread_start_cpus.                                                        *)

(* cpu_startup_sem = sem_create("cpu_hatch", 0).                           *)
sem_create_startup ==
    /\ boot_pc = "create"
    /\ sem_live' = TRUE
    /\ boot_pc' = "start"
    /\ UNCHANGED <<semVars, i, hatch_pc>>

(* mainbus_start_cpus: every secondary CPU starts and will run cpu_hatch. *)
mainbus_start_cpus ==
    /\ boot_pc = "start"
    /\ hatch_pc' = [h \in HatchThreads |-> "hatch"]
    /\ boot_pc' = "loop"
    /\ i' = 0
    /\ UNCHANGED <<semVars, sem_live>>

(* Fault-injected variant: the loop stops one P short.                     *)
StartLoopTest_short == i < NHatch - 1

(* The test of for (i = 0; i < cpuarray_num(&allcpus) - 1; i++).          *)
StartLoopTest == i < NHatch

(* One turn of the loop: P(cpu_startup_sem).                               *)
StartLoopP ==
    /\ boot_pc = "loop"
    /\ StartLoopTest
    /\ StartupSem!P(BootThread)
    /\ i' = i + 1
    /\ UNCHANGED <<boot_pc, hatch_pc, sem_live>>

(* The loop is done: sem_destroy(cpu_startup_sem); cpu_startup_sem = NULL. *)
sem_destroy_startup ==
    /\ boot_pc = "loop"
    /\ sem_pc[BootThread] = "idle"
    /\ ~StartLoopTest
    /\ sem_live' = FALSE
    /\ boot_pc' = "done"
    /\ UNCHANGED <<semVars, i, hatch_pc>>

-----------------------------------------------------------------------------
(* cpu_hatch on a secondary CPU.                                             *)

(* spl0, cpu_identify, kprintf, then V(cpu_startup_sem).                   *)
cpu_hatch(h) ==
    /\ hatch_pc[h] = "hatch"
    /\ StartupSem!V(h)
    /\ hatch_pc' = [hatch_pc EXCEPT ![h] = "exit"]
    /\ UNCHANGED <<boot_pc, i, sem_live>>

(* V has returned: thread_exit.                                            *)
hatch_exit(h) ==
    /\ hatch_pc[h] = "exit"
    /\ sem_pc[h] = "idle"
    /\ hatch_pc' = [hatch_pc EXCEPT ![h] = "exited"]
    /\ UNCHANGED <<semVars, boot_pc, i, sem_live>>

-----------------------------------------------------------------------------

(* Before sem_create the semaphore's fields are those sem_create gives it. *)
BootInit ==
    /\ StartupSem!Init
    /\ boot_pc = "create"
    /\ i = 0
    /\ hatch_pc = [h \in HatchThreads |-> "off"]
    /\ sem_live = FALSE

BootStep == sem_create_startup \/ mainbus_start_cpus \/ StartLoopP \/ sem_destroy_startup

HatchStep(h) == cpu_hatch(h) \/ hatch_exit(h)

(* A P or V in progress: its spinlock, test, sleep and wakeup steps.       *)
SemStep(t) == StartupSem!Progress(t) /\ UNCHANGED bootVars

BootNext ==
    \/ BootStep
    \/ \E h \in HatchThreads : HatchStep(h)
    \/ \E t \in BootThreads : SemStep(t)

(* Every CPU runs its boot thread until it blocks: each thread's steps    *)
(* are weakly fair.                                                        *)
BootSpec ==
    /\ BootInit /\ [][BootNext]_allVars
    /\ WF_allVars(BootStep)
    /\ \A h \in HatchThreads : WF_allVars(HatchStep(h))
    /\ \A t \in BootThreads : WF_allVars(SemStep(t))

-----------------------------------------------------------------------------
(* Properties.                                                               *)

BootTypeOK ==
    /\ StartupSem!TypeOK
    /\ boot_pc \in {"create", "start", "loop", "done"}
    /\ i \in 0..NHatch
    /\ hatch_pc \in [HatchThreads -> {"off", "hatch", "exit", "exited"}]
    /\ sem_live \in BOOLEAN

(* cpu_startup_sem is never used while it is not allocated, and           *)
(* sem_destroy finds it quiet: once thread_start_cpus has destroyed it,   *)
(* no thread is inside P or V, its spinlock is free, nobody sleeps on its *)
(* wait channel (wchan_destroy asserts that), and every secondary CPU has *)
(* already made its V.  The P loop must count exactly one V per           *)
(* secondary CPU, and P may return only after the V has released          *)
(* sem_lock.                                                               *)
StartupSemQuiet ==
    ~sem_live =>
        /\ \A t \in BootThreads : sem_pc[t] = "idle"
        /\ csem_lock = NULL
        /\ csem_wc["sem"] = <<>>
        /\ \A h \in HatchThreads : hatch_pc[h] \in {"off", "exit", "exited"}

(* Boot gets past thread_start_cpus, and every secondary CPU's hatch      *)
(* thread exits: however the Vs and the Ps interleave, the boot thread    *)
(* asleep in P is woken.                                                   *)
BootCompletes ==
    <>(boot_pc = "done" /\ \A h \in HatchThreads : hatch_pc[h] = "exited")
=============================================================================
