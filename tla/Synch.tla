------------------------------- MODULE Synch -------------------------------
(***************************************************************************)
(* The semaphore, the sleep lock and the condition variable of            *)
(* kern/thread/synch.c, over the wait channels of kern/thread/thread.c.   *)
(*                                                                         *)
(* One instance of each primitive, each with its own wait channel ("sem", *)
(* "lk", "cv").  A spinlock that a thread holds across steps is a         *)
(* variable naming its holder: sem_lock, lk_lock and wc_lock[w].  A       *)
(* thread spinning on a spinlock is a thread whose step is not enabled.   *)
(* Every step of a thread is one critical section of the code or one      *)
(* spinlock acquisition; the thread resumes at pc[t].                     *)
(*                                                                         *)
(* The per-CPU scheduler is abstracted: a thread on no wait channel is    *)
(* runnable and may step (thread_make_runnable places it on a run queue   *)
(* and the timer-driven scheduler eventually runs it), a thread on a wait *)
(* channel's queue may not.                                               *)
(*                                                                         *)
(* Each thread is a client that calls the primitives in any order their   *)
(* KASSERTs allow: P, V or lock_acquire when it holds nothing; and        *)
(* lock_release, cv_wait, cv_signal or cv_broadcast while it holds the    *)
(* lock.                                                                   *)
(***************************************************************************)
EXTENDS Naturals, Sequences, SequencesExt

CONSTANTS Threads,    \* the kernel threads using the primitives
          NULL,       \* the absent thread (lk_holder == NULL, unlocked spinlock)
          MaxCount,   \* bound on sem_count: V is not called beyond it
          InitCount   \* initial_count given to sem_create

ASSUME /\ NULL \notin Threads
       /\ MaxCount \in Nat \ {0}
       /\ InitCount \in 0..MaxCount

WChans == {"sem", "lk", "cv"}

VARIABLES pc,          \* where each thread resumes
          sem_count,   \* sem->sem_count
          sem_lock,    \* holder of the spinlock sem->sem_lock
          lk_holder,   \* lock->lk_holder
          lk_lock,     \* holder of the spinlock lock->lk_lock
          wc_threads,  \* wc->wc_threads of each wait channel
          wc_lock      \* holder of the spinlock wc->wc_lock of each channel

vars == <<pc, sem_count, sem_lock, lk_holder, lk_lock, wc_threads, wc_lock>>

PCs == {"idle", "P_test", "P_sleep", "P_retry", "V_wake",
        "LA_test", "LA_sleep", "LA_retry", "cs", "LR_wake",
        "CW_release", "CW_wake", "CW_sleep", "CW_reacquire"}

-----------------------------------------------------------------------------
(* Wait channels (kern/thread/thread.c).                                   *)

Sleeping == UNION {ToSet(wc_threads[w]) : w \in WChans}

Runnable(t) == t \notin Sleeping

(* wchan_sleep: thread_switch(S_SLEEP) appends the thread to the channel  *)
(* and unlocks the channel, which the caller had locked.                  *)
wchan_sleep(t, w, resume) ==
    /\ wc_lock[w] = t
    /\ wc_threads' = [wc_threads EXCEPT ![w] = Append(@, t)]
    /\ wc_lock' = [wc_lock EXCEPT ![w] = NULL]
    /\ pc' = [pc EXCEPT ![t] = resume]

(* Fault-injected variant: the head is taken without the channel's       *)
(* spinlock, so a sleeper still on its way to the queue is missed.        *)
wchan_wakeone_unlocked(w) ==
    wc_threads' = [wc_threads EXCEPT ![w] = SubSeq(@, 2, Len(@))]

(* wchan_wakeone: under the channel's spinlock remove its head, then make *)
(* it runnable.  Nobody sleeping: nothing happens.                        *)
wchan_wakeone(w) ==
    /\ wc_lock[w] = NULL
    /\ wc_threads' = [wc_threads EXCEPT ![w] = SubSeq(@, 2, Len(@))]

(* wchan_wakeall: move every sleeper to a private list, then make each    *)
(* of them runnable.                                                      *)
wchan_wakeall(w) ==
    /\ wc_lock[w] = NULL
    /\ wc_threads' = [wc_threads EXCEPT ![w] = <<>>]

-----------------------------------------------------------------------------
(* Semaphore.                                                               *)

AcquireSemLock(t, from) ==
    /\ pc[t] = from
    /\ Runnable(t)
    /\ sem_lock = NULL
    /\ sem_lock' = t
    /\ pc' = [pc EXCEPT ![t] = "P_test"]
    /\ UNCHANGED <<sem_count, lk_holder, lk_lock, wc_threads, wc_lock>>

(* P is called: spinlock_acquire(&sem->sem_lock).                          *)
P(t) == AcquireSemLock(t, "idle")

(* A woken sleeper retakes sem_lock before testing the count again.       *)
P_retry(t) == AcquireSemLock(t, "P_retry")

(* Fault-injected variant: the count is decremented without the while     *)
(* loop's test.                                                            *)
P_test_nowait(t) ==
    /\ pc[t] = "P_test"
    /\ sem_count' = sem_count - 1
    /\ sem_lock' = NULL
    /\ pc' = [pc EXCEPT ![t] = "idle"]
    /\ UNCHANGED <<lk_holder, lk_lock, wc_threads, wc_lock>>

(* The while loop of P, holding sem_lock: take a unit, or lock the wait   *)
(* channel (spinning while another sleeper holds it) and release sem_lock.*)
P_test(t) ==
    /\ pc[t] = "P_test"
    /\ \/ /\ sem_count > 0
          /\ sem_count' = sem_count - 1
          /\ sem_lock' = NULL
          /\ pc' = [pc EXCEPT ![t] = "idle"]
          /\ UNCHANGED wc_lock
       \/ /\ sem_count = 0
          /\ wc_lock["sem"] = NULL
          /\ wc_lock' = [wc_lock EXCEPT !["sem"] = t]
          /\ sem_lock' = NULL
          /\ pc' = [pc EXCEPT ![t] = "P_sleep"]
          /\ UNCHANGED sem_count
    /\ UNCHANGED <<lk_holder, lk_lock, wc_threads>>

(* P sleeps on the semaphore's wait channel.                               *)
P_sleep(t) ==
    /\ pc[t] = "P_sleep"
    /\ wchan_sleep(t, "sem", "P_retry")
    /\ UNCHANGED <<sem_count, sem_lock, lk_holder, lk_lock>>

(* V: under sem_lock, increment the count.                                 *)
V(t) ==
    /\ pc[t] = "idle"
    /\ sem_lock = NULL
    /\ sem_count < MaxCount
    /\ sem_count' = sem_count + 1
    /\ sem_lock' = t
    /\ pc' = [pc EXCEPT ![t] = "V_wake"]
    /\ UNCHANGED <<lk_holder, lk_lock, wc_threads, wc_lock>>

(* Fault-injected variant: V forgets to wake a sleeper.                    *)
V_wake_none(t) ==
    /\ pc[t] = "V_wake"
    /\ sem_lock' = NULL
    /\ pc' = [pc EXCEPT ![t] = "idle"]
    /\ UNCHANGED <<sem_count, lk_holder, lk_lock, wc_threads, wc_lock>>

(* V, still holding sem_lock, wakes one sleeper and releases sem_lock.     *)
V_wake(t) ==
    /\ pc[t] = "V_wake"
    /\ wchan_wakeone("sem")
    /\ sem_lock' = NULL
    /\ pc' = [pc EXCEPT ![t] = "idle"]
    /\ UNCHANGED <<sem_count, lk_holder, lk_lock, wc_lock>>

-----------------------------------------------------------------------------
(* Lock.                                                                     *)

AcquireLkLock(t, from) ==
    /\ pc[t] = from
    /\ Runnable(t)
    /\ lk_lock = NULL
    /\ lk_lock' = t
    /\ pc' = [pc EXCEPT ![t] = "LA_test"]
    /\ UNCHANGED <<sem_count, sem_lock, lk_holder, wc_threads, wc_lock>>

(* lock_acquire is called by a thread that does not hold the lock          *)
(* (KASSERT(!lock_do_i_hold)): spinlock_acquire(&lock->lk_lock).          *)
lock_acquire(t) == AcquireLkLock(t, "idle")

(* Fault-injected variant: a woken thread takes the lock without testing   *)
(* lk_holder again ("if" for "while").                                     *)
LA_retry_if(t) ==
    /\ pc[t] = "LA_retry"
    /\ Runnable(t)
    /\ lk_lock = NULL
    /\ lk_holder' = t
    /\ pc' = [pc EXCEPT ![t] = "cs"]
    /\ UNCHANGED <<sem_count, sem_lock, lk_lock, wc_threads, wc_lock>>

(* A woken sleeper retakes lk_lock before testing lk_holder again.        *)
LA_retry(t) == AcquireLkLock(t, "LA_retry")

(* cv_wait's lock_acquire(lock) after the thread was woken.               *)
CW_reacquire(t) == AcquireLkLock(t, "CW_reacquire")

(* The while loop of lock_acquire, holding lk_lock: claim the lock, or    *)
(* lock the wait channel and release lk_lock.                             *)
LA_test(t) ==
    /\ pc[t] = "LA_test"
    /\ \/ /\ lk_holder = NULL
          /\ lk_holder' = t
          /\ lk_lock' = NULL
          /\ pc' = [pc EXCEPT ![t] = "cs"]
          /\ UNCHANGED wc_lock
       \/ /\ lk_holder # NULL
          /\ wc_lock["lk"] = NULL
          /\ wc_lock' = [wc_lock EXCEPT !["lk"] = t]
          /\ lk_lock' = NULL
          /\ pc' = [pc EXCEPT ![t] = "LA_sleep"]
          /\ UNCHANGED lk_holder
    /\ UNCHANGED <<sem_count, sem_lock, wc_threads>>

(* lock_acquire sleeps on the lock's wait channel.                         *)
LA_sleep(t) ==
    /\ pc[t] = "LA_sleep"
    /\ wchan_sleep(t, "lk", "LA_retry")
    /\ UNCHANGED <<sem_count, sem_lock, lk_holder, lk_lock>>

(* Where lock_release goes after clearing lk_holder, and after waking,    *)
(* depending on whether the client or cv_wait called it.                  *)
AfterClear == [cs |-> "LR_wake", CW_release |-> "CW_wake"]
AfterWake  == [LR_wake |-> "idle", CW_wake |-> "CW_sleep"]

ReleaseLk(t, from) ==
    /\ pc[t] = from
    /\ lk_lock = NULL
    /\ lk_holder' = NULL
    /\ lk_lock' = t
    /\ pc' = [pc EXCEPT ![t] = AfterClear[from]]
    /\ UNCHANGED <<sem_count, sem_lock, wc_threads, wc_lock>>

(* lock_release by the holder: under lk_lock, clear lk_holder.            *)
lock_release(t) == ReleaseLk(t, "cs")

(* cv_wait's lock_release(lock).                                           *)
CW_release(t) == ReleaseLk(t, "CW_release")

(* Fault-injected variant: lock_release does not wake a sleeper.         *)
LR_wake_none(t) ==
    /\ pc[t] \in DOMAIN AfterWake
    /\ lk_lock' = NULL
    /\ pc' = [pc EXCEPT ![t] = AfterWake[pc[t]]]
    /\ UNCHANGED <<sem_count, sem_lock, lk_holder, wc_threads, wc_lock>>

(* lock_release, still holding lk_lock: wake one sleeper, release lk_lock. *)
LR_wake(t) ==
    /\ pc[t] \in DOMAIN AfterWake
    /\ wchan_wakeone("lk")
    /\ lk_lock' = NULL
    /\ pc' = [pc EXCEPT ![t] = AfterWake[pc[t]]]
    /\ UNCHANGED <<sem_count, sem_lock, lk_holder, wc_lock>>

-----------------------------------------------------------------------------
(* Condition variable.                                                       *)

(* Fault-injected variant: cv_wait releases the lock before it locks the  *)
(* wait channel.                                                           *)
cv_wait_late(t) ==
    /\ pc[t] = "cs"
    /\ lk_lock = NULL
    /\ lk_holder' = NULL
    /\ lk_lock' = t
    /\ pc' = [pc EXCEPT ![t] = "CW_wake"]
    /\ UNCHANGED <<sem_count, sem_lock, wc_threads, wc_lock>>

(* cv_wait by the holder: lock the cv's wait channel, then lock_release.  *)
cv_wait(t) ==
    /\ pc[t] = "cs"
    /\ wc_lock["cv"] = NULL
    /\ wc_lock' = [wc_lock EXCEPT !["cv"] = t]
    /\ pc' = [pc EXCEPT ![t] = "CW_release"]
    /\ UNCHANGED <<sem_count, sem_lock, lk_holder, lk_lock, wc_threads>>

(* cv_wait sleeps on the cv's channel; once woken it reacquires the lock. *)
CW_sleep(t) ==
    /\ pc[t] = "CW_sleep"
    /\ wchan_sleep(t, "cv", "CW_reacquire")
    /\ UNCHANGED <<sem_count, sem_lock, lk_holder, lk_lock>>

(* cv_signal by the holder: wake one waiter.                               *)
cv_signal(t) ==
    /\ pc[t] = "cs"
    /\ wchan_wakeone("cv")
    /\ UNCHANGED <<pc, sem_count, sem_lock, lk_holder, lk_lock, wc_lock>>

(* cv_broadcast by the holder: wake every waiter.                          *)
cv_broadcast(t) ==
    /\ pc[t] = "cs"
    /\ wchan_wakeall("cv")
    /\ UNCHANGED <<pc, sem_count, sem_lock, lk_holder, lk_lock, wc_lock>>

-----------------------------------------------------------------------------

Init ==
    /\ pc = [t \in Threads |-> "idle"]
    /\ sem_count = InitCount
    /\ sem_lock = NULL
    /\ lk_holder = NULL
    /\ lk_lock = NULL
    /\ wc_threads = [w \in WChans |-> <<>>]
    /\ wc_lock = [w \in WChans |-> NULL]

(* The calls a client makes by its own choice.                             *)
Call(t) == P(t) \/ V(t) \/ lock_acquire(t) \/ lock_release(t)
           \/ cv_wait(t) \/ cv_signal(t) \/ cv_broadcast(t)

(* The steps a call in progress takes until it returns.                    *)
Progress(t) == P_retry(t) \/ P_test(t) \/ P_sleep(t) \/ V_wake(t)
               \/ LA_retry(t) \/ CW_reacquire(t) \/ LA_test(t) \/ LA_sleep(t)
               \/ CW_release(t) \/ LR_wake(t) \/ CW_sleep(t)

Next == \E t \in Threads : Call(t) \/ Progress(t)

Spec == Init /\ [][Next]_vars

(* A runnable thread is eventually run by the preemptive scheduler and a  *)
(* spinning CPU eventually takes a free spinlock: a call in progress is   *)
(* weakly fair.  A client is never forced to make a call.                 *)
FairSpec == Spec /\ \A t \in Threads : WF_vars(Progress(t))

-----------------------------------------------------------------------------
(* Properties.                                                               *)

TypeOK ==
    /\ pc \in [Threads -> PCs]
    /\ sem_count \in 0..MaxCount
    /\ {sem_lock, lk_holder, lk_lock} \subseteq Threads \cup {NULL}
    /\ wc_threads \in [WChans -> Seq(Threads)]
    /\ wc_lock \in [WChans -> Threads \cup {NULL}]

(* Mutual exclusion of lock_acquire/lock_release: a thread that has       *)
(* returned from lock_acquire (or from cv_wait) and not yet called        *)
(* lock_release is lk_holder, so no two threads are ever inside.          *)
HoldsLock(t) == pc[t] \in {"cs", "CW_release"}

LockMutex == \A t \in Threads : HoldsLock(t) => lk_holder = t

(* No lost wakeup.  While threads sleep on the semaphore, every unit of   *)
(* sem_count is matched by a thread about to test the count (a woken      *)
(* sleeper, or a thread in P holding sem_lock) or by a V about to wake a  *)
(* sleeper; while threads sleep on the lock and it is free, such a thread *)
(* or a lock_release about to wake one exists.  It relies on P and        *)
(* lock_acquire locking the wait channel before releasing their spinlock, *)
(* and on the wakeup taking that channel lock.                             *)
Woken(at) == {t \in Threads : pc[t] \in at /\ Runnable(t)}

NoLostWakeup ==
    /\ wc_threads["sem"] # <<>>
         => sem_count <= Cardinality(Woken({"P_retry", "P_test", "V_wake"}))
    /\ (wc_threads["lk"] # <<>> /\ lk_holder = NULL)
         => Woken({"LA_retry", "LA_test", "LR_wake", "CW_wake"}) # {}

(* cv_wait releases the lock and goes to sleep atomically: while a       *)
(* waiter has given up the lock but is not yet on the cv's queue, no      *)
(* holder of the lock can run cv_signal or cv_broadcast (which would find *)
(* the queue without it and lose the signal).                              *)
CvWindow == {"CW_wake", "CW_sleep"}

CvSignalNotLost ==
    \A t, s \in Threads :
        pc[t] \in CvWindow => ~ENABLED (cv_signal(s) \/ cv_broadcast(s))

(* Liveness.  While threads wait for the lock and it is free, some thread *)
(* eventually holds it.                                                    *)
LockWaiters == {t \in Threads : pc[t] \in {"LA_test", "LA_sleep", "LA_retry"}}

LockProgress == (lk_holder = NULL /\ LockWaiters # {}) ~> (lk_holder # NULL)

(* Liveness.  While threads sleep in P and units are available, the units *)
(* are eventually taken or the sleepers are all woken.                    *)
SemProgress ==
    (sem_count > 0 /\ wc_threads["sem"] # <<>>)
        ~> (sem_count = 0 \/ wc_threads["sem"] = <<>>)
=============================================================================
