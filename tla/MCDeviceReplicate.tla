------------------------- MODULE MCDeviceReplicate --------------------------
(* Instances of DeviceReplicate for TLC. *)
EXTENDS DeviceReplicate

(* Nothing, which takes a unit, and a size that needs padding. *)
MCRequests == {0, 3}
=============================================================================
