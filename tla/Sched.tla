------------------------------- MODULE Sched -------------------------------
(***************************************************************************)
(* The per-CPU scheduler of kern/thread/thread.c: run queues, the idle    *)
(* loop of thread_switch, zombies and exorcise, thread_fork and           *)
(* thread_make_runnable, one wait channel (wchan_sleep, wchan_wakeone,    *)
(* wchan_wakeall) and thread_consider_migration.                           *)
(*                                                                         *)
(* The actor is a CPU: cpc[c] says where the code running on CPU c is.    *)
(* In "run" the current thread executes and may call thread_fork,         *)
(* thread_exit, wchan_lock/wchan_sleep, wchan_wakeone/wchan_wakeall; the  *)
(* timer interrupt may call thread_yield or thread_consider_migration.    *)
(* Every other cpc is a point inside one of those calls.  A step is what   *)
(* the code does under one spinlock (or between two of them); interrupts  *)
(* are off inside thread_switch, so no interrupt handler runs there.      *)
(* The UNIDLE IPI is not modelled: cpu_idle also returns on the next      *)
(* timer interrupt, so the idle loop re-checks its run queue in any case. *)
(***************************************************************************)
EXTENDS Naturals, Sequences, SequencesExt, FiniteSets

CONSTANTS NCPU,        \* number of CPUs; CPU i is allcpus[i]
          Threads,     \* the struct thread memory
          BootThread,  \* BootThread[c]: the thread cpu_create gives CPU c
          NULL

CPUs == 0..NCPU - 1

ASSUME /\ NCPU \in Nat \ {0}
       /\ BootThread \in [CPUs -> Threads]
       /\ \A c, d \in CPUs : c # d => BootThread[c] # BootThread[d]
       /\ NULL \notin Threads

(* t_state, plus DESTROYED for memory that holds no thread.               *)
States == {"S_RUN", "S_READY", "S_SLEEP", "S_ZOMBIE", "DESTROYED"}

VARIABLES cpc,        \* cpc[c]: where the code on CPU c is
          curthread,  \* c_curthread
          runqueue,   \* c_runqueue, a sequence of threads
          isidle,     \* c_isidle
          zombies,    \* c_zombies
          rq_lock,    \* holder (a CPU) of c_runqueue_lock, or NULL
          t_state,    \* t_state of each thread
          t_cpu,      \* t_cpu of each thread
          wc_threads, \* wc_threads of the wait channel
          wc_lock,    \* holder of wc_lock, or NULL
          wakelist,   \* the threads wchan_wakeone/wakeall on c still has to make runnable
          victims,    \* the victims list of thread_consider_migration on c
          mig,        \* the locals i, total_count, my_count, one_share, to_send
          intr        \* where the timer interrupt on c came in: "run" or "sw_idle"

cpuVars == <<cpc, curthread, runqueue, isidle, zombies, rq_lock>>
thVars == <<t_state, t_cpu>>
wcVars == <<wc_threads, wc_lock>>
localVars == <<wakelist, victims, mig, intr>>
vars == <<cpuVars, thVars, wcVars, localVars>>

MigInit == [i |-> 0, total |-> 0, my |-> 0, share |-> 0, send |-> 0]

-----------------------------------------------------------------------------
(* Fault-injected variant: the target goes to the head of the run queue. *)
thread_make_runnable_head(target, already_have_lock) ==
    LET tc == t_cpu[target] IN
    /\ already_have_lock \/ rq_lock[tc] = NULL
    /\ runqueue' = [runqueue EXCEPT ![tc] = <<target>> \o @]

(* thread_make_runnable(target, already_have_lock): add target to the     *)
(* tail of its t_cpu's run queue, taking that queue's lock unless the     *)
(* caller already holds it.                                                *)
thread_make_runnable(target, already_have_lock) ==
    LET tc == t_cpu[target] IN
    /\ already_have_lock \/ rq_lock[tc] = NULL
    /\ runqueue' = [runqueue EXCEPT ![tc] = Append(@, target)]

(* thread_create: a new thread structure (here a destroyed one, reused)  *)
(* in state S_READY; its other fields are data.                            *)
thread_create(n) == [t_state EXCEPT ![n] = "S_READY"]

(* thread_fork: thread_create, t_cpu = curthread->t_cpu, and              *)
(* thread_make_runnable(newthread, false).                                 *)
thread_fork(c) ==
    /\ cpc[c] = "run"
    /\ \E n \in Threads :
          /\ t_state[n] = "DESTROYED"
          /\ t_state' = thread_create(n)
          /\ t_cpu' = [t_cpu EXCEPT ![n] = c]
          /\ rq_lock[c] = NULL
          /\ runqueue' = [runqueue EXCEPT ![c] = Append(@, n)]
    /\ UNCHANGED <<cpc, curthread, isidle, zombies, rq_lock, wcVars, localVars>>

(* thread_switch up to the idle loop: take the run queue lock; return at  *)
(* once on a yield with nothing else to run; otherwise put the current    *)
(* thread where newstate says (own run queue, the wait channel, whose     *)
(* lock it then releases, or the zombie list), set t_state and c_isidle.  *)
thread_switch(c, newstate) ==
    LET cur == curthread[c] IN
    /\ rq_lock[c] = NULL
    /\ ~(newstate = "S_READY" /\ runqueue[c] = <<>>)
    /\ rq_lock' = [rq_lock EXCEPT ![c] = c]
    /\ CASE newstate = "S_READY" ->
              /\ thread_make_runnable(cur, TRUE)
              /\ UNCHANGED <<zombies, wcVars>>
         [] newstate = "S_SLEEP" ->
              /\ wc_threads' = Append(wc_threads, cur)
              /\ wc_lock' = NULL
              /\ UNCHANGED <<runqueue, zombies>>
         [] newstate = "S_ZOMBIE" ->
              /\ zombies' = [zombies EXCEPT ![c] = @ \cup {cur}]
              /\ UNCHANGED <<runqueue, wcVars>>
    /\ t_state' = [t_state EXCEPT ![cur] = newstate]
    /\ isidle' = [isidle EXCEPT ![c] = TRUE]
    /\ cpc' = [cpc EXCEPT ![c] = "sw_pick"]
    /\ UNCHANGED <<curthread, t_cpu, localVars>>

(* thread_yield, called from the timer interrupt.                          *)
thread_yield(c) ==
    /\ cpc[c] = "run"
    /\ thread_switch(c, "S_READY")

(* thread_exit: thread_switch(S_ZOMBIE).                                   *)
thread_exit(c) ==
    /\ cpc[c] = "run"
    /\ thread_switch(c, "S_ZOMBIE")

(* wchan_lock, as the primitives of synch.c do before wchan_sleep.         *)
wchan_lock(c) ==
    /\ cpc[c] = "run"
    /\ wc_lock = NULL
    /\ wc_lock' = c
    /\ cpc' = [cpc EXCEPT ![c] = "sleep_locked"]
    /\ UNCHANGED <<curthread, runqueue, isidle, zombies, rq_lock, thVars,
                   wc_threads, localVars>>

(* wchan_sleep: thread_switch(S_SLEEP, wc, lk).                             *)
wchan_sleep(c) ==
    /\ cpc[c] = "sleep_locked"
    /\ thread_switch(c, "S_SLEEP")

(* The idle loop of thread_switch, holding the run queue lock: take the   *)
(* head of the run queue and switch to it, or release the lock and idle.  *)
SwitchPick(c) ==
    /\ cpc[c] = "sw_pick"
    /\ \/ /\ runqueue[c] # <<>>
          /\ curthread' = [curthread EXCEPT ![c] = Head(runqueue[c])]
          /\ runqueue' = [runqueue EXCEPT ![c] = Tail(@)]
          /\ isidle' = [isidle EXCEPT ![c] = FALSE]
          /\ cpc' = [cpc EXCEPT ![c] = "sw_resume"]
          /\ UNCHANGED rq_lock
       \/ /\ runqueue[c] = <<>>
          /\ rq_lock' = [rq_lock EXCEPT ![c] = NULL]
          /\ cpc' = [cpc EXCEPT ![c] = "sw_idle"]
          /\ UNCHANGED <<curthread, runqueue, isidle>>
    /\ UNCHANGED <<zombies, thVars, wcVars, localVars>>

(* cpu_idle returns (on any interrupt) and the run queue lock is retaken. *)
SwitchIdle(c) ==
    /\ cpc[c] = "sw_idle"
    /\ rq_lock[c] = NULL
    /\ rq_lock' = [rq_lock EXCEPT ![c] = c]
    /\ cpc' = [cpc EXCEPT ![c] = "sw_pick"]
    /\ UNCHANGED <<curthread, runqueue, isidle, zombies, thVars, wcVars, localVars>>

(* exorcise: thread_destroy every thread on this CPU's zombie list (none  *)
(* of them is curthread, all are S_ZOMBIE).                                *)
exorcise(c) ==
    [t \in Threads |-> IF t \in zombies[c] THEN "DESTROYED" ELSE t_state[t]]

(* After switchframe_switch, running as the new thread (the tail of       *)
(* thread_switch, or thread_startup for a new one): t_state = S_RUN,      *)
(* release the run queue lock, exorcise.                                   *)
SwitchResume(c) ==
    /\ cpc[c] = "sw_resume"
    /\ t_state' = [exorcise(c) EXCEPT ![curthread[c]] = "S_RUN"]
    /\ rq_lock' = [rq_lock EXCEPT ![c] = NULL]
    /\ zombies' = [zombies EXCEPT ![c] = {}]
    /\ cpc' = [cpc EXCEPT ![c] = "run"]
    /\ UNCHANGED <<curthread, runqueue, isidle, t_cpu, wcVars, localVars>>

-----------------------------------------------------------------------------
(* wchan_wakeone / wchan_wakeall: under wc_lock move one / every sleeper  *)
(* to a private list; nobody asleep returns at once.                       *)
wchan_wake(c, all) ==
    /\ cpc[c] = "run"
    /\ wc_lock = NULL
    /\ wc_threads # <<>>
    /\ wakelist' = [wakelist EXCEPT ![c] =
                      IF all THEN wc_threads ELSE <<Head(wc_threads)>>]
    /\ wc_threads' = IF all THEN <<>> ELSE Tail(wc_threads)
    /\ cpc' = [cpc EXCEPT ![c] = "wake_mr"]
    /\ UNCHANGED <<curthread, runqueue, isidle, zombies, rq_lock, thVars,
                   wc_lock, victims, mig, intr>>

(* thread_make_runnable(target, false) for the next woken thread.          *)
WakeMakeRunnable(c) ==
    /\ cpc[c] = "wake_mr"
    /\ thread_make_runnable(Head(wakelist[c]), FALSE)
    /\ wakelist' = [wakelist EXCEPT ![c] = Tail(@)]
    /\ cpc' = [cpc EXCEPT ![c] = IF Tail(wakelist[c]) = <<>> THEN "run" ELSE "wake_mr"]
    /\ UNCHANGED <<curthread, isidle, zombies, rq_lock, thVars, wcVars, victims, mig, intr>>

-----------------------------------------------------------------------------
(* thread_consider_migration, from the timer interrupt on CPU c.           *)
thread_consider_migration(c) ==
    /\ cpc[c] \in {"run", "sw_idle"}
    /\ intr' = [intr EXCEPT ![c] = cpc[c]]
    /\ mig' = [mig EXCEPT ![c] = MigInit]
    /\ cpc' = [cpc EXCEPT ![c] = "mig_count"]
    /\ UNCHANGED <<curthread, runqueue, isidle, zombies, rq_lock, thVars, wcVars,
                   wakelist, victims>>

(* One pass of the counting loop: under CPU i's run queue lock add its    *)
(* length to total_count (and to my_count when i is this CPU).            *)
MigCount(c) ==
    LET m == mig[c] IN
    /\ cpc[c] = "mig_count"
    /\ m.i < NCPU
    /\ rq_lock[m.i] = NULL
    /\ mig' = [mig EXCEPT ![c].total = m.total + Len(runqueue[m.i]),
                          ![c].my = IF m.i = c THEN Len(runqueue[m.i]) ELSE m.my,
                          ![c].i = m.i + 1]
    /\ UNCHANGED <<cpc, cpuVars, thVars, wcVars, wakelist, victims, intr>>

(* Fault-injected variant: no early return when my_count < one_share.     *)
MigDecide_noReturn(c) ==
    LET m == mig[c]
        share == (m.total + NCPU - 1) \div NCPU
    IN /\ cpc[c] = "mig_count"
       /\ m.i = NCPU
       /\ mig' = [mig EXCEPT ![c] = [m EXCEPT !.share = share,
                                              !.send = m.my - share, !.i = 0]]
       /\ cpc' = [cpc EXCEPT ![c] = "mig_detach"]
       /\ UNCHANGED <<curthread, runqueue, isidle, zombies, rq_lock, thVars,
                      wcVars, wakelist, victims, intr>>

(* one_share = DIVROUNDUP(total_count, numcpus); return if my_count is    *)
(* below it, else to_send = my_count - one_share.                          *)
MigDecide(c) ==
    LET m == mig[c]
        share == (m.total + NCPU - 1) \div NCPU
    IN /\ cpc[c] = "mig_count"
       /\ m.i = NCPU
       /\ mig' = [mig EXCEPT ![c] = IF m.my < share THEN MigInit
                                    ELSE [m EXCEPT !.share = share,
                                                   !.send = m.my - share, !.i = 0]]
       /\ cpc' = [cpc EXCEPT ![c] = IF m.my < share THEN intr[c] ELSE "mig_detach"]
       /\ UNCHANGED <<curthread, runqueue, isidle, zombies, rq_lock, thVars,
                      wcVars, wakelist, victims, intr>>

(* Under the own run queue lock move to_send threads from the tail of the *)
(* run queue to the victims list, keeping their order.                     *)
MigDetach(c) ==
    LET q == runqueue[c]
        n == mig[c].send
    IN /\ cpc[c] = "mig_detach"
       /\ rq_lock[c] = NULL
       /\ n <= Len(q)
       /\ victims' = [victims EXCEPT ![c] = SubSeq(q, Len(q) - n + 1, Len(q))]
       /\ runqueue' = [runqueue EXCEPT ![c] = SubSeq(q, 1, Len(q) - n)]
       /\ cpc' = [cpc EXCEPT ![c] = "mig_give"]
       /\ UNCHANGED <<curthread, isidle, zombies, rq_lock, thVars, wcVars,
                      wakelist, mig, intr>>
-----------------------------------------------------------------------------
(* The distribution loop, for CPU i: skip this CPU, else take CPU i's run *)
(* queue lock.                                                             *)
MigGive(c) ==
    LET i == mig[c].i IN
    /\ cpc[c] = "mig_give"
    /\ i < NCPU /\ mig[c].send > 0
    /\ \/ /\ i = c
          /\ mig' = [mig EXCEPT ![c].i = i + 1]
          /\ UNCHANGED <<cpc, rq_lock>>
       \/ /\ i # c
          /\ rq_lock[i] = NULL
          /\ rq_lock' = [rq_lock EXCEPT ![i] = c]
          /\ cpc' = [cpc EXCEPT ![c] = "mig_move"]
          /\ UNCHANGED mig
    /\ UNCHANGED <<curthread, runqueue, isidle, zombies, thVars, wcVars,
                   wakelist, victims, intr>>

(* The condition of the inner while loop.                                  *)
MigRoom(c) == Len(runqueue[mig[c].i]) < mig[c].share /\ mig[c].send > 0

(* Fault-injected variant: the curthread test is missing.                  *)
MigMove_noSkip(c) ==
    LET i == mig[c].i
        t == Head(victims[c])
    IN /\ cpc[c] = "mig_move"
       /\ MigRoom(c)
       /\ t_cpu' = [t_cpu EXCEPT ![t] = i]
       /\ runqueue' = [runqueue EXCEPT ![i] = Append(@, t)]
       /\ victims' = [victims EXCEPT ![c] = Tail(@)]
       /\ mig' = [mig EXCEPT ![c].send = @ - 1]
       /\ UNCHANGED <<cpc, curthread, isidle, zombies, rq_lock, t_state, wcVars,
                      wakelist, intr>>

(* Fault-injected variant: the moved thread is not removed from victims.  *)
MigMove_keep(c) ==
    LET i == mig[c].i
        t == Head(victims[c])
    IN /\ cpc[c] = "mig_move"
       /\ MigRoom(c)
       /\ t # curthread[c]
       /\ t_cpu' = [t_cpu EXCEPT ![t] = i]
       /\ runqueue' = [runqueue EXCEPT ![i] = Append(@, t)]
       /\ mig' = [mig EXCEPT ![c].send = @ - 1]
       /\ UNCHANGED <<cpc, curthread, isidle, zombies, rq_lock, t_state, wcVars,
                      wakelist, victims, intr>>

(* Fault-injected variant: t->t_cpu is not updated.                      *)
MigMove_noCpu(c) ==
    LET i == mig[c].i
        t == Head(victims[c])
    IN /\ cpc[c] = "mig_move"
       /\ MigRoom(c)
       /\ t # curthread[c]
       /\ runqueue' = [runqueue EXCEPT ![i] = Append(@, t)]
       /\ victims' = [victims EXCEPT ![c] = Tail(@)]
       /\ mig' = [mig EXCEPT ![c].send = @ - 1]
       /\ UNCHANGED <<cpc, curthread, isidle, zombies, rq_lock, thVars, wcVars,
                      wakelist, intr>>

(* One pass of the inner loop, holding CPU i's lock: the head victim is   *)
(* moved to CPU i (t->t_cpu = c, addtail), unless it is curthread, which  *)
(* goes back to the tail of victims; to_send goes down either way.        *)
MigMove(c) ==
    LET i == mig[c].i
        t == Head(victims[c])
    IN /\ cpc[c] = "mig_move"
       /\ MigRoom(c)
       /\ \/ /\ t = curthread[c]
             /\ victims' = [victims EXCEPT ![c] = Tail(@) \o <<t>>]
             /\ UNCHANGED <<runqueue, t_cpu>>
          \/ /\ t # curthread[c]
             /\ t_cpu' = [t_cpu EXCEPT ![t] = i]
             /\ runqueue' = [runqueue EXCEPT ![i] = Append(@, t)]
             /\ victims' = [victims EXCEPT ![c] = Tail(@)]
       /\ mig' = [mig EXCEPT ![c].send = @ - 1]
       /\ UNCHANGED <<cpc, curthread, isidle, zombies, rq_lock, t_state, wcVars,
                      wakelist, intr>>

(* The inner loop is over: release CPU i's lock and go on with i + 1.     *)
MigMoveDone(c) ==
    /\ cpc[c] = "mig_move"
    /\ ~MigRoom(c)
    /\ rq_lock' = [rq_lock EXCEPT ![mig[c].i] = NULL]
    /\ mig' = [mig EXCEPT ![c].i = @ + 1]
    /\ cpc' = [cpc EXCEPT ![c] = "mig_give"]
    /\ UNCHANGED <<curthread, runqueue, isidle, zombies, thVars, wcVars,
                   wakelist, victims, intr>>

(* The loop is over: put leftover victims back on the own run queue and   *)
(* return from the interrupt.  (The locals die with the call; mig is      *)
(* reset so that states differ only in what is live.)                     *)
MigReturn(c) ==
    /\ cpc[c] = "mig_give"
    /\ mig[c].i = NCPU \/ mig[c].send = 0
    /\ \/ /\ victims[c] # <<>>
          /\ rq_lock[c] = NULL
          /\ runqueue' = [runqueue EXCEPT ![c] = @ \o victims[c]]
       \/ /\ victims[c] = <<>>
          /\ UNCHANGED runqueue
    /\ victims' = [victims EXCEPT ![c] = <<>>]
    /\ mig' = [mig EXCEPT ![c] = MigInit]
    /\ cpc' = [cpc EXCEPT ![c] = intr[c]]
    /\ UNCHANGED <<curthread, isidle, zombies, rq_lock, thVars, wcVars, wakelist, intr>>

-----------------------------------------------------------------------------
(* After thread_bootstrap and cpu_create: each CPU runs its boot thread,  *)
(* every run queue and zombie list is empty.                               *)
Init ==
    /\ cpc = [c \in CPUs |-> "run"]
    /\ curthread = BootThread
    /\ runqueue = [c \in CPUs |-> <<>>]
    /\ isidle = [c \in CPUs |-> FALSE]
    /\ zombies = [c \in CPUs |-> {}]
    /\ rq_lock = [c \in CPUs |-> NULL]
    /\ t_state = [t \in Threads |->
                    IF \E c \in CPUs : BootThread[c] = t THEN "S_RUN" ELSE "DESTROYED"]
    /\ t_cpu = [t \in Threads |->
                  IF \E c \in CPUs : BootThread[c] = t
                  THEN CHOOSE c \in CPUs : BootThread[c] = t ELSE 0]
    /\ wc_threads = <<>>
    /\ wc_lock = NULL
    /\ wakelist = [c \in CPUs |-> <<>>]
    /\ victims = [c \in CPUs |-> <<>>]
    /\ mig = [c \in CPUs |-> MigInit]
    /\ intr = [c \in CPUs |-> "run"]

(* What the running thread of CPU c may call.                              *)
Call(c) ==
    \/ thread_fork(c)
    \/ thread_exit(c)
    \/ wchan_lock(c)
    \/ wchan_wake(c, FALSE)
    \/ wchan_wake(c, TRUE)

(* Timer interrupt handlers.                                               *)
Timer(c) == thread_yield(c) \/ thread_consider_migration(c)

(* The code CPU c is in the middle of.                                     *)
Step(c) ==
    \/ wchan_sleep(c) \/ SwitchPick(c) \/ SwitchIdle(c) \/ SwitchResume(c)
    \/ WakeMakeRunnable(c)
    \/ MigCount(c) \/ MigDecide(c) \/ MigDetach(c) \/ MigGive(c) \/ MigMove(c)
    \/ MigMoveDone(c) \/ MigReturn(c)

Next == \E c \in CPUs : Call(c) \/ Timer(c) \/ Step(c)

Spec == Init /\ [][Next]_vars

(* A CPU keeps executing the code it is in, and the timer keeps           *)
(* interrupting a running thread.  Both are strong: a step that waits for *)
(* a spinlock is enabled only while the lock is free, and a CPU spinning  *)
(* on a lock that is released infinitely often (the idle loop holds its   *)
(* run queue lock only between two cpu_idle calls) eventually gets it.    *)
(* The steps of one CPU are told apart by cpc[c], so fairness on Step(c) *)
(* is fairness on each of them, except in cpu_idle, where the timer may   *)
(* start a migration pass: the idle loop resuming is fair on its own.     *)
FairSpec ==
    /\ Spec
    /\ \A c \in CPUs :
          SF_vars(Step(c)) /\ SF_vars(SwitchIdle(c)) /\ SF_vars(thread_yield(c))

-----------------------------------------------------------------------------
(* Properties.                                                               *)

CPCs == {"run", "sleep_locked", "sw_pick", "sw_idle", "sw_resume", "wake_mr",
         "mig_count", "mig_detach", "mig_give", "mig_move"}

TypeOK ==
    /\ cpc \in [CPUs -> CPCs]
    /\ curthread \in [CPUs -> Threads]
    /\ runqueue \in [CPUs -> Seq(Threads)]
    /\ isidle \in [CPUs -> BOOLEAN]
    /\ zombies \in [CPUs -> SUBSET Threads]
    /\ rq_lock \in [CPUs -> CPUs \cup {NULL}]
    /\ t_state \in [Threads -> States]
    /\ t_cpu \in [Threads -> CPUs]
    /\ wc_threads \in Seq(Threads)
    /\ wc_lock \in CPUs \cup {NULL}
    /\ wakelist \in [CPUs -> Seq(Threads)]
    /\ victims \in [CPUs -> Seq(Threads)]
    /\ mig \in [CPUs -> [i : 0..NCPU, total : 0..NCPU * Cardinality(Threads),
                          my : 0..Cardinality(Threads), share : 0..Cardinality(Threads),
                          send : 0..Cardinality(Threads)]]
    /\ intr \in [CPUs -> {"run", "sw_idle"}]

(* CPU c is in the idle loop of thread_switch, or in a timer interrupt   *)
(* taken inside its cpu_idle.                                              *)
InIdleLoop(c) ==
    \/ cpc[c] \in {"sw_pick", "sw_idle"}
    \/ cpc[c] \in {"mig_count", "mig_detach", "mig_give", "mig_move"} /\ intr[c] = "sw_idle"

(* The thread executing on CPU c: its current thread, except inside the   *)
(* idle loop, where the outgoing thread is already queued elsewhere.      *)
OnCpu(c) == IF InIdleLoop(c) THEN {} ELSE {curthread[c]}

CountIn(s, t) == Cardinality({i \in DOMAIN s : s[i] = t})

(* Number of places thread t is kept in.                                   *)
Places(t) ==
    LET perCpu == [c \in CPUs |->
                     CountIn(runqueue[c], t) + CountIn(wakelist[c], t)
                     + CountIn(victims[c], t)
                     + (IF t \in zombies[c] THEN 1 ELSE 0)
                     + (IF t \in OnCpu(c) THEN 1 ELSE 0)]
    IN CountIn(wc_threads, t) + FoldFunction(+, 0, perCpu)

(* Every thread is in exactly one place (executing on one CPU, one run    *)
(* queue, the wait channel, a wake list, a migration victims list or a    *)
(* zombie list) and a destroyed thread in none: neither a switch, a       *)
(* wakeup nor a migration pass that races with the others ever loses or   *)
(* duplicates a thread.                                                    *)
ThreadPlacement ==
    \A t \in Threads : Places(t) = IF t_state[t] = "DESTROYED" THEN 0 ELSE 1

(* A thread on CPU c's run queue, or executing on CPU c, has t_cpu = c:   *)
(* thread_make_runnable of a woken thread and thread_switch's              *)
(* curthread->t_cpu == curcpu assertion rely on it after migrations.       *)
CpuConsistent ==
    \A c \in CPUs :
        /\ \A i \in DOMAIN runqueue[c] : t_cpu[runqueue[c][i]] = c
        /\ \A t \in OnCpu(c) : t_cpu[t] = c

(* A thread put on a run queue eventually runs: FIFO run queues, timer    *)
(* preemption and migration together never starve a ready thread.         *)
ReadyRuns ==
    \A t \in Threads :
        (\E c \in CPUs : CountIn(runqueue[c], t) > 0)
            ~> (\E c \in CPUs : cpc[c] = "run" /\ curthread[c] = t)

(* No thread is the current thread of two CPUs.  An idle CPU keeps the    *)
(* thread that went to sleep as c_curthread and will save its context     *)
(* into it at the next switchframe_switch; thread_consider_migration,     *)
(* run from the timer inside cpu_idle, must therefore never send that     *)
(* thread to another CPU once it has been woken onto this CPU's queue.     *)
CurthreadNotShared ==
    \A c, d \in CPUs : c # d => curthread[c] # curthread[d]
=============================================================================
