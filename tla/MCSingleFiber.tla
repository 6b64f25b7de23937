--------------------------- MODULE MCSingleFiber ----------------------------
(***************************************************************************)
(* Instances of SingleFiber: two tasks with one pid, words of two bits and *)
(* a bitmap of one word that is used with five bits, as if it had three.   *)
(***************************************************************************)
EXTENDS SingleFiber

MCTask == 1..2
MCFiber == {11, 12}
MCComputation == {21}
MCData == {{0}, {0, 1}}
=============================================================================
