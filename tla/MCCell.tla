------------------------------- MODULE MCCell -------------------------------
(***************************************************************************)
(* Instances of Cell: four channels in two words of which the second is    *)
(* used in part, so that the cell fills up and frees channels in any order.*)
(***************************************************************************)
EXTENDS Cell
=============================================================================
