------------------------------- MODULE EvaMap -------------------------------
(***************************************************************************)
(* The default map between a tile's addresses (EVAs) and places in the     *)
(* network (NPAs: coordinate and address there), bsg_manycore_eva.cpp.     *)
(* Addresses count words.  The leading bits of an EVA select the DRAM of   *)
(* the pod (DramMap), any coordinate (global), a coordinate relative to    *)
(* the group's origin (group), or the tile's own memory (local).           *)
(***************************************************************************)
EXTENDS PodGeometry, DramMap

CONSTANT Dmem    \* words of a tile's data memory

LocalSpan  == 65536       \* HB_MC_EPA_LOGSZ is 18, in bytes
GroupX     == 64
GroupY     == 32
GroupBit   == LocalSpan * GroupX * GroupY
GlobalSpan == 16384       \* HB_MC_GLOBAL_EPA_LOGSZ is 16
GlobalX    == 128
GlobalY    == 128
GlobalBit  == GlobalSpan * GlobalX * GlobalY
DramBit    == 536870912   \* bit 31 of the byte address

ASSUME EvaAssumption ==
  /\ Cols = W /\ ColSpan = W
  /\ Dmem \in Nat \ {0} /\ Dmem <= GlobalSpan

Csrs == 32768 .. 32770   \* freeze and the origin of the group

NoNpa == <<>>   \* the translation fails
NoEva == -1

(* A word of a tile's memory or one of its registers.                        *)
TileNpa(co, a) == IF a < Dmem \/ a \in Csrs THEN <<co, a>> ELSE NoNpa

LocalNpa(src, eva) == TileNpa(src, eva % LocalSpan)

(* cfg->origin is the first tile of the first pod.                           *)
GroupNpa(origin, eva) ==
  LET x == origin[1] + ((eva \div LocalSpan) % GroupX)
      y == origin[2] + ((eva \div (LocalSpan * GroupX)) % GroupY)
      base == VcoreOrigin(<<0, 0>>)
  IN IF x > W + base[1] \/ y > H + base[2] THEN NoNpa
     ELSE TileNpa(<<x, y>>, eva % LocalSpan)

GlobalNpa(eva) ==
  TileNpa(<<(eva \div GlobalSpan) % GlobalX, (eva \div (GlobalSpan * GlobalX)) % GlobalY>>,
          eva % GlobalSpan)

DramNpa(src, eva) ==
  LET w == eva % DramBit
      p == PodOf(src)
  IN IF ~ValidEva(w) THEN NoNpa
     ELSE <<<<VcoreOrigin(p)[1] + Column(w), IF South(w) = 1 THEN SouthY(p) ELSE NorthY(p)>>,
            Epa(w)>>

Bit(eva, b) == (eva \div b) % 2 = 1

(* default_eva_to_npa, for tile src of the group at origin.                  *)
EvaToNpa(src, origin, eva) ==
  IF Bit(eva, DramBit) THEN DramNpa(src, eva)
  ELSE IF Bit(eva, GlobalBit) THEN GlobalNpa(eva)
  ELSE IF Bit(eva, GroupBit) THEN GroupNpa(origin, eva)
  ELSE IF eva < LocalSpan THEN LocalNpa(src, eva)
  ELSE NoNpa

(* The fields are or-ed without a check that they fit: a sum, when they do.  *)
GlobalEva(npa) ==
  GlobalBit + npa[1][2] * (GlobalSpan * GlobalX) + npa[1][1] * GlobalSpan + npa[2]

(* With DRAM enabled, the check is against the size of all DRAM, not of that *)
(* behind one cache.                                                         *)
DramSize == MaxEpa * (PX * PY * PodDrams)

IsDramNpa(tgt, npa) ==
  LET first == VcoreOrigin(PodOf(tgt))[1]
  IN IsDram(npa[1]) /\ npa[2] < DramSize /\ npa[1][1] \in first .. first + W - 1

DramEva(tgt, npa) ==
  LET first == VcoreOrigin(PodOf(tgt))[1]
      south == IF IsSouth(npa[1]) THEN 1 ELSE 0
  IN DramBit + (NpaToEva(<<<<npa[1][1] - first, south>>, npa[2]>>) % DramBit)

(* default_npa_to_eva, for tile tgt.                                         *)
EvaOf(tgt, npa) ==
  IF IsDramNpa(tgt, npa) THEN DramEva(tgt, npa)
  ELSE IF IsHost(npa[1]) \/ (npa[2] < Dmem /\ (npa[1] = tgt \/ IsVanilla(npa[1])))
       THEN GlobalEva(npa)
  ELSE NoEva
=============================================================================
