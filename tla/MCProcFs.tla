------------------------------ MODULE MCProcFs ------------------------------
(***************************************************************************)
(* Instances of ProcFs: a process whose fiber table is freed and made      *)
(* again, with fibers that leave holes between the indices of others.      *)
(***************************************************************************)
EXTENDS ProcFs
=============================================================================
