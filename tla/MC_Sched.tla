------------------------------ MODULE MC_Sched ------------------------------
(* Two CPUs and four thread structures; th0 and th1 are the boot threads. *)
EXTENDS Sched

CONSTANTS th0, th1, th2, th3

MC_Threads == {th0, th1, th2, th3}

(* The liveness run uses three thread structures.                         *)
MC_Threads3 == {th0, th1, th2}

MC_BootThread == [c \in 0..1 |-> IF c = 0 THEN th0 ELSE th1]

(* The threads that are not boot threads are interchangeable.              *)
MC_Symmetry == Permutations({th2, th3})
=============================================================================
