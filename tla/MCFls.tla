------------------------------- MODULE MCFls -------------------------------
(* Instances of Fls for TLC: a bitmap word of a few bits, then one bit of  *)
(* regs and one of f_list (fpu_reg behaves as regs does).                     *)
EXTENDS Fls, TLC

CONSTANTS t1, t2, f1, f2, f3

\* Threads, and fibers, are interchangeable.
Symmetric == Permutations(Thread) \cup Permutations(Fiber)
=============================================================================
