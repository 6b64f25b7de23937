----------------------------- MODULE MCSchedTime ----------------------------
(***************************************************************************)
(* Instances of SchedTime: two threads that migrate between two CPUs.      *)
(***************************************************************************)
EXTENDS SchedTime, TLC

CONSTANTS c1, c2, t1, t2, f1, f2, f3

MCCpu    == {c1, c2}
MCThread == {t1, t2}
MCFiber  == {f1, f2, f3}

Symmetric == Permutations(MCCpu) \cup Permutations(MCThread) \cup Permutations(MCFiber)
=============================================================================
