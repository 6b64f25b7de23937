--------------------------- MODULE MCSimulation ----------------------------
(* Simulation on two threads: every bound comes from the .cfg.               *)
EXTENDS Simulation
=============================================================================
