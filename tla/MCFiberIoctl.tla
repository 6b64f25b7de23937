---------------------------- MODULE MCFiberIoctl ----------------------------
(* Instances of FiberIoctl for TLC: two threads of one process. *)
EXTENDS FiberIoctl, TLC

CONSTANTS t1, t2, p1

OneProcess == [t \in Thread |-> p1]

\* For the safety properties only.
ThreadSymmetry == Permutations(Thread)
=============================================================================
