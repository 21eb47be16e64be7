------------------------ MODULE MCRepeatedAllocation ------------------------
(* Instances of RepeatedAllocation for TLC. *)
EXTENDS RepeatedAllocation

(* The argument vector, and the barrier configuration of a group of tiles. *)
MCLaunch == <<1, 2>>
=============================================================================
