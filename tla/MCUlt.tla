------------------------------- MODULE MCUlt -------------------------------
(* Instances of Ult for TLC. *)
EXTENDS Ult, TLC

CONSTANTS t1, t2

ThreadSymmetry == Permutations(Thread)
=============================================================================
