---------------------------- MODULE PodGeometry ----------------------------
(***************************************************************************)
(* Where the tiles and the victim caches of the pods are in the network    *)
(* (bsg_manycore_config_pod.h).  The network is cut into blocks of W x H   *)
(* coordinates.  Blocks in odd rows are the tiles of a pod; a pod's caches *)
(* are the row above and the row below its tiles, in blocks of even rows   *)
(* that it shares with the pods above and below.                           *)
(***************************************************************************)
EXTENDS Integers

CONSTANTS
  W, H,           \* pod_shape: tiles of a pod, powers of two
  PX, PY,         \* pods
  HostX, HostY    \* host_interface

(* The northernmost row of blocks is reserved for the host.                  *)
ASSUME PodAssumption ==
  /\ W \in Nat \ {0} /\ H \in Nat \ {0} /\ PX \in Nat \ {0} /\ PY \in Nat \ {0}
  /\ HostX \in Nat /\ HostY \in 0 .. H - 1

Pods == (0 .. PX - 1) \X (0 .. PY - 1)

(* tile_in_pod and npod: a coordinate in its block, and its block.           *)
InBlock(co) == <<co[1] % W, co[2] % H>>
NetBlock(co) == <<co[1] \div W, co[2] \div H>>

IsNorth(co)   == InBlock(co)[2] = H - 1 /\ NetBlock(co)[2] % 2 = 0
IsSouth(co)   == InBlock(co)[2] = 0 /\ NetBlock(co)[2] % 2 = 0 /\ co[2] # HostY
IsDram(co)    == IsNorth(co) \/ IsSouth(co)
IsVanilla(co) == NetBlock(co)[2] % 2 = 1
IsHost(co)    == co = <<HostX, HostY>>

(* The pod of a tile or of a cache.                                          *)
PodOf(co) ==
  LET n == NetBlock(co)
  IN IF IsVanilla(co) \/ (IsNorth(co) /\ ~IsSouth(co)) THEN <<n[1] - 1, n[2] \div 2>>
     ELSE IF IsSouth(co) THEN <<n[1] - 1, (n[2] \div 2) - 1>>
     ELSE <<0, 0>>

VcoreOrigin(p) == <<W + W * p[1], H + H * (2 * p[2])>>

NorthY(p) == VcoreOrigin(p)[2] - 1
SouthY(p) == VcoreOrigin(p)[2] + H

(* The caches of a pod by number, those of the north end first, ...          *)
PodCache(p, id) ==
  <<VcoreOrigin(p)[1] + (id % W), IF id \div W = 0 THEN NorthY(p) ELSE SouthY(p)>>

PodDramId(co) == InBlock(co)[1] + (IF IsNorth(co) THEN 0 ELSE W)

(* ... and those of all pods.                                                *)
PodDrams == W * 2

Dram(id) ==
  LET pod == id \div PodDrams
  IN PodCache(<<pod \div PY, pod % PY>>, id % PodDrams)

DramId(co) ==
  LET p == PodOf(co)
  IN PodDrams * (p[1] * PY + p[2]) + PodDramId(co)
=============================================================================
