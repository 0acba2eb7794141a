-------------------------------- MODULE Ipi --------------------------------
(***************************************************************************)
(* Inter-processor interrupts of kern/thread/thread.c: ipi_send,          *)
(* ipi_broadcast (from thread_shutdown and thread_panic),                  *)
(* ipi_tlbshootdown and the handler interprocessor_interrupt, with the two *)
(* callers that hold a run queue lock around ipi_send: thread_make_runnable *)
(* and the distribution loop of thread_consider_migration, which send     *)
(* IPI_UNIDLE to an idle target while holding its c_runqueue_lock.        *)
(*                                                                         *)
(* The scheduler itself is Sched.tla; here a CPU is running ("run"),       *)
(* inside cpu_idle ("idle", c_isidle set, run queue lock released), or in *)
(* one of the calls above.  Interrupts are taken in "run" and in "idle".  *)
(* c_numshootdown is an unsigned counter of ShootdownBits bits.            *)
(***************************************************************************)
EXTENDS Naturals, FiniteSets, Relation

CONSTANTS NCPU,
          Mappings,        \* the struct tlbshootdown values sent
          TLBSHOOTDOWN_MAX,
          TLBSHOOTDOWN_ALL,
          ShootdownBits,   \* width of c_numshootdown
          Broadcasts,      \* the codes thread_shutdown / thread_panic may broadcast
          MaxShootdowns,   \* bound on ipi_tlbshootdown calls
          NULL

CPUs == 0..NCPU - 1

Codes == {"PANIC", "OFFLINE", "UNIDLE", "TLBSHOOTDOWN"}

Word == 0..(2^ShootdownBits - 1)

ASSUME /\ NCPU \in Nat \ {0, 1}
       /\ TLBSHOOTDOWN_MAX \in Nat \ {0}
       /\ TLBSHOOTDOWN_ALL \in Word \ (0..TLBSHOOTDOWN_MAX)
       /\ Broadcasts \subseteq {"PANIC", "OFFLINE"}
       /\ MaxShootdowns \in Nat

VARIABLES cpc,          \* where the code on each CPU is
          target,       \* the CPU thread_make_runnable / migration is sending to
          bcast,        \* [code, i] of a running ipi_broadcast
          isidle,       \* c_isidle
          rq_lock,      \* holder of c_runqueue_lock, or NULL
          ipi_lock,     \* holder of c_ipi_lock, or NULL
          ipi_pending,  \* c_ipi_pending, as the set of codes whose bit is set
          numshootdown, \* c_numshootdown
          shootdown,    \* c_shootdown[0..TLBSHOOTDOWN_MAX-1]
          overrun,      \* c_shootdown indices written past the array
          requested,    \* mappings sent to the CPU and not yet invalidated there
          sent          \* number of ipi_tlbshootdown calls so far

vars == <<cpc, target, bcast, isidle, rq_lock, ipi_lock, ipi_pending,
          numshootdown, shootdown, overrun, requested, sent>>

Slots == 0..TLBSHOOTDOWN_MAX - 1

-----------------------------------------------------------------------------
(* thread_switch finds the run queue empty: c_isidle = true, release the  *)
(* lock, cpu_idle.  (The whole idle loop is Sched.tla's.)                  *)
IdleEnter(c) ==
    /\ cpc[c] = "run"
    /\ rq_lock[c] = NULL
    /\ isidle' = [isidle EXCEPT ![c] = TRUE]
    /\ cpc' = [cpc EXCEPT ![c] = "idle"]
    /\ UNCHANGED <<target, bcast, rq_lock, ipi_lock, ipi_pending,
                   numshootdown, shootdown, overrun, requested, sent>>

(* cpu_idle returns, the lock is retaken and a thread found:               *)
(* c_isidle = false.                                                       *)
IdleExit(c) ==
    /\ cpc[c] = "idle"
    /\ rq_lock[c] = NULL
    /\ isidle' = [isidle EXCEPT ![c] = FALSE]
    /\ cpc' = [cpc EXCEPT ![c] = "run"]
    /\ UNCHANGED <<target, bcast, rq_lock, ipi_lock, ipi_pending,
                   numshootdown, shootdown, overrun, requested, sent>>

(* thread_make_runnable(t, false) for a thread of CPU d (or one pass of   *)
(* the migration loop to d): take d's run queue lock, read c_isidle,      *)
(* addtail; if d is idle go on to ipi_send while holding the lock.        *)
thread_make_runnable(c, d) ==
    /\ cpc[c] = "run"
    /\ rq_lock[d] = NULL
    /\ \/ /\ isidle[d]
          /\ rq_lock' = [rq_lock EXCEPT ![d] = c]
          /\ target' = [target EXCEPT ![c] = d]
          /\ cpc' = [cpc EXCEPT ![c] = "mr_ipi"]
       \/ /\ ~isidle[d]
          /\ UNCHANGED <<rq_lock, target, cpc>>
    /\ UNCHANGED <<bcast, isidle, ipi_lock, ipi_pending, numshootdown,
                   shootdown, overrun, requested, sent>>

(* ipi_send(d, IPI_UNIDLE) under d's ipi lock, then the run queue lock is *)
(* released.                                                               *)
MakeRunnableIpi(c) ==
    LET d == target[c] IN
    /\ cpc[c] = "mr_ipi"
    /\ ipi_lock[d] = NULL
    /\ ipi_pending' = [ipi_pending EXCEPT ![d] = @ \cup {"UNIDLE"}]
    /\ rq_lock' = [rq_lock EXCEPT ![d] = NULL]
    /\ target' = [target EXCEPT ![c] = NULL]
    /\ cpc' = [cpc EXCEPT ![c] = "run"]
    /\ UNCHANGED <<bcast, isidle, ipi_lock, numshootdown, shootdown,
                   overrun, requested, sent>>

(* thread_shutdown / thread_panic start ipi_broadcast(code).               *)
ipi_broadcast(c, code) ==
    /\ cpc[c] = "run"
    /\ bcast' = [bcast EXCEPT ![c] = [code |-> code, i |-> 0]]
    /\ cpc' = [cpc EXCEPT ![c] = "bcast"]
    /\ UNCHANGED <<target, isidle, rq_lock, ipi_lock, ipi_pending,
                   numshootdown, shootdown, overrun, requested, sent>>

(* One pass of the broadcast loop: ipi_send(allcpus[i], code) unless it   *)
(* is this CPU; the loop ends after the last CPU.                          *)
BroadcastStep(c) ==
    LET i == bcast[c].i IN
    /\ cpc[c] = "bcast"
    /\ \/ /\ i < NCPU /\ i = c
          /\ bcast' = [bcast EXCEPT ![c].i = i + 1]
          /\ UNCHANGED <<ipi_pending, cpc>>
       \/ /\ i < NCPU /\ i # c
          /\ ipi_lock[i] = NULL
          /\ ipi_pending' = [ipi_pending EXCEPT ![i] = @ \cup {bcast[c].code}]
          /\ bcast' = [bcast EXCEPT ![c].i = i + 1]
          /\ UNCHANGED cpc
       \/ /\ i = NCPU
          /\ cpc' = [cpc EXCEPT ![c] = "run"]
          /\ UNCHANGED <<bcast, ipi_pending>>
    /\ UNCHANGED <<target, isidle, rq_lock, ipi_lock, numshootdown,
                   shootdown, overrun, requested, sent>>

(* ipi_tlbshootdown(d, m): under d's ipi lock, n = c_numshootdown; at     *)
(* TLBSHOOTDOWN_MAX it becomes TLBSHOOTDOWN_ALL, otherwise the mapping is *)
(* stored at c_shootdown[n] and the count becomes n+1; set the bit.       *)
ipi_tlbshootdown(c, d, m) ==
    LET n == numshootdown[d] IN
    /\ cpc[c] = "run"
    /\ sent < MaxShootdowns
    /\ ipi_lock[d] = NULL
    /\ \/ /\ n = TLBSHOOTDOWN_MAX
          /\ numshootdown' = [numshootdown EXCEPT ![d] = TLBSHOOTDOWN_ALL]
          /\ UNCHANGED <<shootdown, overrun>>
       \/ /\ n \in Slots
          /\ shootdown' = [shootdown EXCEPT ![d][n] = m]
          /\ numshootdown' = [numshootdown EXCEPT ![d] = n + 1]
          /\ UNCHANGED overrun
       \/ /\ n \notin Slots \cup {TLBSHOOTDOWN_MAX}
          /\ overrun' = [overrun EXCEPT ![d] = @ \cup {n}]
          /\ numshootdown' = [numshootdown EXCEPT ![d] = (n + 1) % 2^ShootdownBits]
          /\ UNCHANGED shootdown
    /\ requested' = [requested EXCEPT ![d] = @ \cup {m}]
    /\ ipi_pending' = [ipi_pending EXCEPT ![d] = @ \cup {"TLBSHOOTDOWN"}]
    /\ sent' = sent + 1
    /\ UNCHANGED <<cpc, target, bcast, isidle, rq_lock, ipi_lock>>

(* Fault-injected variant: the handler's loop stops one entry early.     *)
Invalidated_short(c) ==
    IF numshootdown[c] = TLBSHOOTDOWN_ALL THEN Mappings
    ELSE {shootdown[c][i] : i \in {j \in Slots : j + 1 < numshootdown[c]}}

(* The mappings the TLBSHOOTDOWN branch of the handler invalidates: all   *)
(* of them after an overflow, else c_shootdown[0..c_numshootdown-1].       *)
Invalidated(c) ==
    IF numshootdown[c] = TLBSHOOTDOWN_ALL THEN Mappings
    ELSE {shootdown[c][i] : i \in {j \in Slots : j < numshootdown[c]}}

(* The TLBSHOOTDOWN branch, c_ipi_pending = 0 and the ipi lock released:  *)
(* the handler returns to the interrupted code.                            *)
HandlerFinish(c, bits) ==
    /\ IF "TLBSHOOTDOWN" \in bits
          THEN /\ requested' = [requested EXCEPT ![c] = @ \ Invalidated(c)]
               /\ numshootdown' = [numshootdown EXCEPT ![c] = 0]
          ELSE UNCHANGED <<requested, numshootdown>>
    /\ ipi_pending' = [ipi_pending EXCEPT ![c] = {}]
    /\ ipi_lock' = [ipi_lock EXCEPT ![c] = NULL]

(* interprocessor_interrupt: take the own ipi lock and read the bits.     *)
(* PANIC halts at once and OFFLINE goes on to take the run queue lock,    *)
(* both still holding the ipi lock; otherwise the handler finishes.       *)
interprocessor_interrupt(c) ==
    LET bits == ipi_pending[c] IN
    /\ cpc[c] \in {"run", "idle"}
    /\ bits # {}
    /\ ipi_lock[c] = NULL
    /\ \/ /\ "PANIC" \in bits
          /\ ipi_lock' = [ipi_lock EXCEPT ![c] = c]
          /\ cpc' = [cpc EXCEPT ![c] = "halted"]
          /\ UNCHANGED <<ipi_pending, numshootdown, requested>>
       \/ /\ "PANIC" \notin bits /\ "OFFLINE" \in bits
          /\ ipi_lock' = [ipi_lock EXCEPT ![c] = c]
          /\ cpc' = [cpc EXCEPT ![c] = "ii_offline"]
          /\ UNCHANGED <<ipi_pending, numshootdown, requested>>
       \/ /\ bits \cap {"PANIC", "OFFLINE"} = {}
          /\ HandlerFinish(c, bits)
          /\ UNCHANGED cpc
    /\ UNCHANGED <<target, bcast, isidle, rq_lock, shootdown, overrun, sent>>

(* The OFFLINE branch: take and release the own run queue lock (checking  *)
(* c_isidle), then cpu_halt with the ipi lock still held.                  *)
OfflineHalt(c) ==
    /\ cpc[c] = "ii_offline"
    /\ rq_lock[c] = NULL
    /\ cpc' = [cpc EXCEPT ![c] = "halted"]
    /\ UNCHANGED <<target, bcast, isidle, rq_lock, ipi_lock, ipi_pending,
                   numshootdown, shootdown, overrun, requested, sent>>

-----------------------------------------------------------------------------
Init ==
    /\ cpc = [c \in CPUs |-> "run"]
    /\ target = [c \in CPUs |-> NULL]
    /\ bcast = [c \in CPUs |-> [code |-> "PANIC", i |-> 0]]
    /\ isidle = [c \in CPUs |-> FALSE]
    /\ rq_lock = [c \in CPUs |-> NULL]
    /\ ipi_lock = [c \in CPUs |-> NULL]
    /\ ipi_pending = [c \in CPUs |-> {}]
    /\ numshootdown = [c \in CPUs |-> 0]
    /\ shootdown = [c \in CPUs |-> [i \in Slots |-> NULL]]
    /\ overrun = [c \in CPUs |-> {}]
    /\ requested = [c \in CPUs |-> {}]
    /\ sent = 0

Next ==
    \E c \in CPUs :
        \/ IdleEnter(c) \/ IdleExit(c)
        \/ \E d \in CPUs \ {c} : thread_make_runnable(c, d)
        \/ MakeRunnableIpi(c)
        \/ \E code \in Broadcasts : ipi_broadcast(c, code)
        \/ BroadcastStep(c)
        \/ \E d \in CPUs \ {c}, m \in Mappings : ipi_tlbshootdown(c, d, m)
        \/ interprocessor_interrupt(c) \/ OfflineHalt(c)

Spec == Init /\ [][Next]_vars

-----------------------------------------------------------------------------
(* Properties.                                                               *)

(* Every mapping sent to a CPU and not yet invalidated there is still     *)
(* recorded for its handler: in c_shootdown below c_numshootdown, or      *)
(* covered by TLBSHOOTDOWN_ALL after the buffer overflowed.                *)
ShootdownCovered ==
    \A c \in CPUs : requested[c] \subseteq Invalidated(c)

(* The same for every CPU whose c_shootdown has not been written past its *)
(* end: the first overflow turns into TLBSHOOTDOWN_ALL and the handler    *)
(* invalidates everything recorded before it resets the count.            *)
ShootdownCoveredUntilOverrun ==
    \A c \in CPUs : overrun[c] = {} => requested[c] \subseteq Invalidated(c)

(* c waits for d: c spins on a spinlock that d holds.                      *)
WaitsFor ==
    [p \in CPUs \X CPUs |->
        \/ cpc[p[1]] = "mr_ipi" /\ ipi_lock[target[p[1]]] = p[2]
        \/ cpc[p[1]] = "ii_offline" /\ rq_lock[p[1]] = p[2]]

(* No CPUs spin on each other's spinlocks in a cycle: the run queue lock  *)
(* -> ipi lock order of thread_make_runnable and the ipi lock -> run      *)
(* queue lock order of the OFFLINE handler never close a cycle.           *)
NoSpinCycle ==
    IsIrreflexive(TransitiveClosure(WaitsFor, CPUs), CPUs)
=============================================================================
