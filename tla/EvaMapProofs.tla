---------------------------- MODULE EvaMapProofs ----------------------------
(***************************************************************************)
(* Pods and their caches do not overlap in the network, and the two        *)
(* directions of the EVA map agree, for every shape and number of pods -   *)
(* and where they do not.                                                  *)
(***************************************************************************)
EXTENDS EvaMap, DramMapProofs

-----------------------------------------------------------------------------
(* The geometry of the pods. *)

(* A coordinate by its block.                                                *)
LEMMA Blocks ==
  ASSUME NEW n \in Nat, NEW m \in Nat, NEW c \in 0 .. W - 1, NEW r \in 0 .. H - 1
  PROVE  /\ NetBlock(<<W * n + c, H * m + r>>) = <<n, m>>
         /\ InBlock(<<W * n + c, H * m + r>>) = <<c, r>>
BY PodAssumption, DivUnique DEF NetBlock, InBlock

LEMMA OriginBlock ==
  ASSUME NEW p \in Pods
  PROVE  /\ p[1] \in Nat /\ p[2] \in Nat /\ p = <<p[1], p[2]>>
         /\ VcoreOrigin(p)[1] = W * (p[1] + 1)
         /\ VcoreOrigin(p)[2] = H * (2 * p[2] + 1)
<1>1. p[1] \in Nat /\ p[2] \in Nat /\ p = <<p[1], p[2]>>
  BY DEF Pods
<1>2. W + W * p[1] = W * (p[1] + 1) /\ H + H * (2 * p[2]) = H * (2 * p[2] + 1)
  BY <1>1, PodAssumption
<1> QED BY <1>1, <1>2 DEF VcoreOrigin

Tiles(p) ==
  {<<VcoreOrigin(p)[1] + c, VcoreOrigin(p)[2] + r>> : c \in 0 .. W - 1, r \in 0 .. H - 1}

(* Every tile of a pod is known as one, and as one of that pod               *)
(* (hb_mc_config_pod).                                                       *)
THEOREM TilesOfPod ==
  ASSUME NEW p \in Pods, NEW co \in Tiles(p)
  PROVE  IsVanilla(co) /\ ~IsDram(co) /\ PodOf(co) = p
<1>1. PICK c \in 0 .. W - 1, r \in 0 .. H - 1 :
        co = <<W * (p[1] + 1) + c, H * (2 * p[2] + 1) + r>>
  BY OriginBlock DEF Tiles
<1>2. NetBlock(co) = <<p[1] + 1, 2 * p[2] + 1>>
  <2>1. p[1] + 1 \in Nat /\ 2 * p[2] + 1 \in Nat
    BY OriginBlock
  <2> QED BY <1>1, <2>1, Blocks
<1>3. p[2] \in Nat /\ (2 * p[2] + 1) % 2 = 1 /\ (2 * p[2] + 1) \div 2 = p[2]
  BY OriginBlock
<1>a. NetBlock(co)[1] = p[1] + 1 /\ NetBlock(co)[2] % 2 = 1 /\ NetBlock(co)[2] \div 2 = p[2] /\ 0 # 1
  BY <1>2, <1>3
<1>4. IsVanilla(co) /\ ~IsDram(co)
  BY <1>a, Zenon DEF IsVanilla, IsDram, IsNorth, IsSouth
<1>5. PodOf(co) = <<p[1], p[2]>>
  BY <1>a, <1>4, OriginBlock DEF PodOf, IsDram
<1> QED BY <1>4, <1>5, OriginBlock

LEMMA CacheBlock ==
  ASSUME NEW p \in Pods, NEW id \in 0 .. PodDrams - 1
  PROVE  /\ id % W \in 0 .. W - 1 /\ id \div W \in {0, 1} /\ id = W * (id \div W) + (id % W)
         /\ PodCache(p, id)[1] = W * (p[1] + 1) + (id % W)
         /\ PodCache(p, id) = <<PodCache(p, id)[1], PodCache(p, id)[2]>>
         /\ id \div W = 0 => PodCache(p, id)[2] = H * (2 * p[2]) + (H - 1)
         /\ id \div W = 1 => PodCache(p, id)[2] = H * (2 * p[2] + 2) + 0
<1>1. id \in Nat /\ id \div W \in Nat /\ id % W \in 0 .. W - 1 /\ id = W * (id \div W) + (id % W)
  BY PodAssumption, DivMod DEF PodDrams
<1>2. id \div W < 2
  <2>1. SUFFICES ASSUME id \div W >= 2 PROVE FALSE
    BY <1>1
  <2>2. W * (id \div W) >= W * 2
    BY <1>1, <2>1, PodAssumption
  <2> QED BY <1>1, <2>2, PodAssumption DEF PodDrams
<1>3. H * (2 * p[2] + 1) - 1 = H * (2 * p[2]) + (H - 1)
  BY OriginBlock, PodAssumption
<1>4. H * (2 * p[2] + 1) + H = H * (2 * p[2] + 2) + 0
  BY OriginBlock, PodAssumption
<1>5. PodCache(p, id) =
        <<W * (p[1] + 1) + (id % W),
          IF id \div W = 0 THEN H * (2 * p[2] + 1) - 1 ELSE H * (2 * p[2] + 1) + H>>
  BY OriginBlock DEF PodCache, NorthY, SouthY
<1> QED BY <1>1, <1>2, <1>3, <1>4, <1>5

(* Every cache of a pod is known as one, at the right end, and as one of     *)
(* that pod only - if pods are at least two tiles high: otherwise the row    *)
(* below a pod is also that above the next.                                  *)
THEOREM CachesOfPod ==
  ASSUME H > 1, NEW p \in Pods, NEW id \in 0 .. PodDrams - 1
  PROVE  /\ IsDram(PodCache(p, id)) /\ ~IsVanilla(PodCache(p, id))
         /\ IsSouth(PodCache(p, id)) <=> id \div W = 1
         /\ PodOf(PodCache(p, id)) = p /\ PodDramId(PodCache(p, id)) = id
<1> DEFINE co == PodCache(p, id)
           c == id % W
<1>0. /\ c \in 0 .. W - 1 /\ id \div W \in {0, 1} /\ id = W * (id \div W) + c
      /\ p[1] \in Nat /\ p[2] \in Nat /\ p = <<p[1], p[2]>>
      /\ p[1] + 1 \in Nat /\ 2 * p[2] \in Nat /\ 2 * p[2] + 2 \in Nat
  BY CacheBlock, OriginBlock
<1>1. CASE id \div W = 0
  <2>1. co = <<W * (p[1] + 1) + c, H * (2 * p[2]) + (H - 1)>>
    BY <1>1, CacheBlock
  <2>2. NetBlock(co) = <<p[1] + 1, 2 * p[2]>> /\ InBlock(co) = <<c, H - 1>>
    <3>1. H - 1 \in 0 .. H - 1
      BY PodAssumption
    <3> HIDE DEF c, co
    <3>2. /\ NetBlock(<<W * (p[1] + 1) + c, H * (2 * p[2]) + (H - 1)>>) = <<p[1] + 1, 2 * p[2]>>
          /\ InBlock(<<W * (p[1] + 1) + c, H * (2 * p[2]) + (H - 1)>>) = <<c, H - 1>>
      BY <1>0, <3>1, Blocks
    <3> QED BY <2>1, <3>2
  <2>4. (2 * p[2]) \div 2 = p[2] /\ (2 * p[2]) % 2 = 0
    BY <1>0
  <2> HIDE DEF c
  <2>a. /\ NetBlock(co)[1] = p[1] + 1 /\ NetBlock(co)[2] % 2 = 0 /\ NetBlock(co)[2] \div 2 = p[2]
        /\ InBlock(co)[1] = c /\ InBlock(co)[2] = H - 1 /\ H - 1 # 0 /\ 0 # 1
    BY <2>2, <2>4, PodAssumption
  <2> HIDE DEF co
  <2>3. IsNorth(co) /\ ~IsSouth(co) /\ ~IsVanilla(co)
    BY <2>a, Zenon DEF IsNorth, IsSouth, IsVanilla
  <2>5. PodOf(co) = p
    <3>1. PodOf(co) = <<(p[1] + 1) - 1, p[2]>>
      BY <2>a, <2>3 DEF PodOf
    <3> QED BY <3>1, <1>0
  <2>6. PodDramId(co) = id
    BY <1>0, <1>1, <2>a, <2>3, PodAssumption DEF PodDramId
  <2> QED BY <1>1, <2>3, <2>5, <2>6 DEF IsDram, co
<1>2. CASE id \div W = 1
  <2>1. co = <<W * (p[1] + 1) + c, H * (2 * p[2] + 2) + 0>>
    BY <1>2, CacheBlock
  <2>2. NetBlock(co) = <<p[1] + 1, 2 * p[2] + 2>> /\ InBlock(co) = <<c, 0>>
    <3>1. 0 \in 0 .. H - 1
      BY PodAssumption
    <3> HIDE DEF c, co
    <3>2. /\ NetBlock(<<W * (p[1] + 1) + c, H * (2 * p[2] + 2) + 0>>) = <<p[1] + 1, 2 * p[2] + 2>>
          /\ InBlock(<<W * (p[1] + 1) + c, H * (2 * p[2] + 2) + 0>>) = <<c, 0>>
      BY <1>0, <3>1, Blocks
    <3> QED BY <2>1, <3>2
  <2>3. co[2] # HostY
    <3>1. H * (2 * p[2] + 2) >= H * 2
      BY <1>0, PodAssumption
    <3>2. co[2] = H * (2 * p[2] + 2)
      BY <2>1, <1>0, PodAssumption
    <3>3. HostY < H /\ H * (2 * p[2] + 2) \in Int
      BY <1>0, PodAssumption
    <3> QED BY <3>1, <3>2, <3>3, PodAssumption
  <2>5. (2 * p[2] + 2) \div 2 = p[2] + 1 /\ (2 * p[2] + 2) % 2 = 0
    BY <1>0
  <2> HIDE DEF c
  <2>a. /\ NetBlock(co)[1] = p[1] + 1 /\ NetBlock(co)[2] % 2 = 0 /\ NetBlock(co)[2] \div 2 = p[2] + 1
        /\ InBlock(co)[1] = c /\ InBlock(co)[2] = 0 /\ H - 1 # 0 /\ 0 # 1
    BY <2>2, <2>5, PodAssumption
  <2> HIDE DEF co
  <2>4. ~IsNorth(co) /\ IsSouth(co) /\ ~IsVanilla(co)
    BY <2>a, <2>3, Zenon DEF IsNorth, IsSouth, IsVanilla
  <2>6. PodOf(co) = p
    <3>1. PodOf(co) = <<(p[1] + 1) - 1, (p[2] + 1) - 1>>
      BY <2>a, <2>4 DEF PodOf
    <3> QED BY <3>1, <1>0
  <2>7. PodDramId(co) = id
    BY <1>0, <1>2, <2>a, <2>4, PodAssumption DEF PodDramId
  <2> QED BY <1>2, <2>4, <2>6, <2>7 DEF IsDram, co
<1> QED BY <1>0, <1>1, <1>2

(* The numbers of the caches of all pods, as the DMA uses them, name each    *)
(* cache once (hb_mc_config_dram, hb_mc_config_dram_id).                     *)
THEOREM DramIds ==
  ASSUME H > 1, NEW id \in 0 .. PX * PY * PodDrams - 1
  PROVE  IsDram(Dram(id)) /\ DramId(Dram(id)) = id
<1> DEFINE pod == id \div PodDrams
           k == id % PodDrams
           p == <<pod \div PY, pod % PY>>
<1>1. PodDrams \in Nat /\ PodDrams > 0 /\ PX * PY \in Nat
  BY PodAssumption DEF PodDrams
<1>2. id \in Nat
  OBVIOUS
<1>3. pod \in Nat /\ k \in 0 .. PodDrams - 1 /\ id = PodDrams * pod + k
  BY <1>1, <1>2, DivMod
<1>4. pod < PX * PY
  <2> DEFINE n == PX * PY
  <2>1. n \in Nat /\ id < n * PodDrams
    BY <1>1
  <2> HIDE DEF pod, k, n
  <2>2. SUFFICES ASSUME pod >= n PROVE FALSE
    BY <1>3, <2>1 DEF n
  <2>3. PodDrams * pod >= PodDrams * n
    BY <1>1, <1>3, <2>1, <2>2
  <2> QED BY <1>1, <1>3, <2>1, <2>3
<1>5. pod \div PY \in Nat /\ pod % PY \in 0 .. PY - 1 /\ pod = PY * (pod \div PY) + (pod % PY)
  <2> HIDE DEF pod
  <2> QED BY <1>3, PodAssumption, DivMod
<1>6. pod \div PY < PX
  <2> DEFINE a == pod \div PY
             b == pod % PY
  <2>1. a \in Nat /\ b \in Nat /\ PY * a + b < PX * PY
    BY <1>4, <1>5
  <2> HIDE DEF a, b
  <2>2. SUFFICES ASSUME a >= PX PROVE FALSE
    BY <2>1, PodAssumption DEF a
  <2>3. PY * a >= PX * PY
    BY <2>1, <2>2, PodAssumption
  <2> QED BY <2>1, <2>3, PodAssumption
<1>7. p \in Pods
  BY <1>5, <1>6, PodAssumption DEF Pods
<1>8. Dram(id) = PodCache(p, k)
  BY DEF Dram
<1>9. IsDram(Dram(id)) /\ PodOf(Dram(id)) = p /\ PodDramId(Dram(id)) = k
  BY <1>3, <1>7, <1>8, CachesOfPod
<1>10. p[1] * PY + p[2] = pod
  <2> HIDE DEF pod
  <2> QED BY <1>5, PodAssumption
<1> QED BY <1>3, <1>9, <1>10 DEF DramId
-----------------------------------------------------------------------------
(* The two directions of the map. *)

LEMMA GlobalFields ==
  ASSUME NEW x \in 0 .. GlobalX - 1, NEW y \in 0 .. GlobalY - 1, NEW a \in 0 .. GlobalSpan - 1
  PROVE  LET g == GlobalEva(<<<<x, y>>, a>>)
         IN /\ ~Bit(g, DramBit) /\ Bit(g, GlobalBit)
            /\ (g \div GlobalSpan) % GlobalX = x
            /\ (g \div (GlobalSpan * GlobalX)) % GlobalY = y
            /\ g % GlobalSpan = a
<1> DEFINE g == 268435456 + y * 2097152 + x * 16384 + a
<1>1. GlobalEva(<<<<x, y>>, a>>) = g
  BY DEF GlobalEva, GlobalBit, GlobalSpan, GlobalX, GlobalY
<1>2. x \in 0 .. 127 /\ y \in 0 .. 127 /\ a \in 0 .. 16383
  BY DEF GlobalSpan, GlobalX, GlobalY
<1>3. g \div 536870912 = 0 /\ g \div 268435456 = 1
  BY <1>2
<1>4. g \div 16384 = 16384 + y * 128 + x /\ g % 16384 = a
  BY <1>2
<1>5. (g \div 16384) % 128 = x
  <2> HIDE DEF g
  <2> QED BY <1>2, <1>4
<1>6. g \div 2097152 = 128 + y
  BY <1>2
<1>7. (g \div 2097152) % 128 = y
  <2> HIDE DEF g
  <2> QED BY <1>2, <1>6
<1>8. 0 % 2 # 1 /\ 1 % 2 = 1
  OBVIOUS
<1> HIDE DEF g
<1> QED BY <1>1, <1>3, <1>4, <1>5, <1>7, <1>8
        DEF Bit, DramBit, GlobalBit, GlobalSpan, GlobalX, GlobalY

(* A word of any tile's memory has an EVA that leads to it from every tile:  *)
(* default_eva_to_npa undoes default_npa_to_eva.                             *)
THEOREM TileWords ==
  ASSUME NEW p \in Pods, NEW co \in Tiles(p), co[1] < GlobalX, co[2] < GlobalY,
         NEW a \in 0 .. Dmem - 1, NEW tgt, NEW src, NEW origin
  PROVE  EvaToNpa(src, origin, EvaOf(tgt, <<co, a>>)) = <<co, a>>
<1> DEFINE g == GlobalEva(<<co, a>>)
<1>1. IsVanilla(co) /\ ~IsDram(co)
  BY TilesOfPod
<1>2. EvaOf(tgt, <<co, a>>) = g
  <2> DEFINE npa == <<co, a>>
  <2>1. npa[1] = co /\ npa[2] = a /\ a < Dmem
    BY EvaAssumption
  <2> HIDE DEF npa
  <2>2. ~IsDramNpa(tgt, npa)
    BY <1>1, <2>1 DEF IsDramNpa
  <2>3. EvaOf(tgt, npa) = GlobalEva(npa)
    BY <1>1, <2>1, <2>2 DEF EvaOf
  <2> QED BY <2>3 DEF npa
<1>3. co \in Nat \X Nat
  <2>1. PICK c \in 0 .. W - 1, r \in 0 .. H - 1 :
          co = <<W * (p[1] + 1) + c, H * (2 * p[2] + 1) + r>>
    BY OriginBlock DEF Tiles
  <2>2. W * (p[1] + 1) \in Nat /\ H * (2 * p[2] + 1) \in Nat
    BY OriginBlock, PodAssumption, TimesNat
  <2> QED BY <2>1, <2>2
<1>4. /\ co = <<co[1], co[2]>> /\ co[1] \in 0 .. GlobalX - 1 /\ co[2] \in 0 .. GlobalY - 1
      /\ a \in 0 .. GlobalSpan - 1
  <2>1. co = <<co[1], co[2]>> /\ co[1] \in Nat /\ co[2] \in Nat
    BY <1>3
  <2>2. GlobalX \in Nat /\ GlobalY \in Nat /\ GlobalSpan \in Nat
    BY DEF GlobalX, GlobalY, GlobalSpan
  <2>3. a \in 0 .. GlobalSpan - 1
    BY <2>2, EvaAssumption
  <2> QED BY <2>1, <2>2, <2>3
<1>5. /\ ~Bit(g, DramBit) /\ Bit(g, GlobalBit)
      /\ (g \div GlobalSpan) % GlobalX = co[1]
      /\ (g \div (GlobalSpan * GlobalX)) % GlobalY = co[2]
      /\ g % GlobalSpan = a
  BY <1>4, GlobalFields
<1> HIDE DEF g
<1>6. EvaToNpa(src, origin, g) = GlobalNpa(g)
  BY <1>5 DEF EvaToNpa
<1>7. GlobalNpa(g) = <<co, a>>
  <2>1. GlobalNpa(g) = TileNpa(<<co[1], co[2]>>, a)
    BY <1>5 DEF GlobalNpa
  <2>2. TileNpa(co, a) = <<co, a>>
    BY EvaAssumption DEF TileNpa
  <2> QED BY <1>4, <2>1, <2>2
<1> QED BY <1>2, <1>6, <1>7

(* The words behind the caches of a pod have EVAs below the bit that marks   *)
(* DRAM, when half of the address space is enough for them.                  *)
LEMMA DramEvaFits ==
  ASSUME (W * 2) * MaxEpa <= DramBit,
         NEW c \in 0 .. W - 1, NEW y \in {0, 1}, NEW a \in 0 .. MaxEpa - 1
  PROVE  NpaToEva(<<<<c, y>>, a>>) \in 0 .. DramBit - 1
<1> DEFINE l == a \div Stripe
           r == a % Stripe
           k == MaxEpa \div Stripe
           w == NpaToEva(<<<<c, y>>, a>>)
<1>1. l \in Nat /\ r \in 0 .. Stripe - 1 /\ a = Stripe * l + r
  BY Sizes, DivMod
<1>2. k \in Nat /\ MaxEpa = Stripe * k
  BY DramAssumption, DivMod, Sizes
<1>3. w \in Nat
  BY NpaRoundTrip, EvaAssumption
<1>4. w = r + Stripe * (c + W * (y + 2 * l))
  BY EvaAssumption DEF NpaToEva
<1> HIDE DEF l, r, k, w
<1>5. l + 1 <= k
  <2>1. SUFFICES ASSUME l >= k PROVE FALSE
    BY <1>1, <1>2
  <2>2. Stripe * l >= Stripe * k
    BY <1>1, <1>2, <2>1, Sizes
  <2>3. Stripe * l \in Nat /\ Stripe * k \in Nat
    BY <1>1, <1>2, Sizes, TimesNat
  <2> QED BY <1>1, <1>2, <2>2, <2>3
<1> DEFINE b == c + W * (y + 2 * l)
<1>6. b \in Nat /\ b + 1 <= W * (2 * l + 2)
  <2>1. y + 2 * l \in Nat /\ y + 2 * l + 1 <= 2 * l + 2
    BY <1>1
  <2>2. W * (y + 2 * l) \in Nat
    BY <2>1, PodAssumption, TimesNat
  <2>3. W * (y + 2 * l) + W <= W * (2 * l + 2)
    <3> DEFINE m == y + 2 * l
    <3>1. m \in Nat /\ m + 1 <= 2 * l + 2 /\ 2 * l + 2 \in Nat
      BY <1>1, <2>1
    <3> HIDE DEF m
    <3>2. W * (m + 1) = W * m + W
      BY <3>1, PodAssumption
    <3>3. W * (m + 1) <= W * (2 * l + 2)
      BY <1>1, <3>1, PodAssumption
    <3> QED BY <3>2, <3>3 DEF m
  <2> DEFINE z == W * (y + 2 * l)
             t == W * (2 * l + 2)
  <2>4. z \in Nat /\ t \in Nat /\ z + W <= t
    BY <1>1, <2>2, <2>3, PodAssumption, TimesNat
  <2> HIDE DEF z, t
  <2>5. c + z \in Nat /\ c + z + 1 <= t
    BY <2>4, PodAssumption
  <2> QED BY <2>5 DEF z, t
<1>7. W * (2 * l + 2) <= (W * 2) * k
  <2>1. W * (2 * l + 2) = (W * 2) * (l + 1)
    BY <1>1, PodAssumption
  <2>2. (W * 2) * (l + 1) <= (W * 2) * k
    BY <1>1, <1>2, <1>5, PodAssumption
  <2> QED BY <2>1, <2>2
<1>8. w < Stripe * (b + 1)
  <2>1. w = r + Stripe * b
    BY <1>4
  <2> HIDE DEF b
  <2>2. Stripe * b \in Nat /\ Stripe * (b + 1) = Stripe * b + Stripe
    BY <1>6, Sizes, TimesNat
  <2> QED BY <2>1, <2>2, <1>1, Sizes
<1>9. Stripe * (b + 1) <= (W * 2) * MaxEpa
  <2> DEFINE n == W * 2
  <2>1. n \in Nat /\ b + 1 <= n * k
    <3>1. n \in Nat /\ n * k \in Nat /\ W * (2 * l + 2) \in Nat
      BY <1>1, <1>2, PodAssumption, TimesNat
    <3> HIDE DEF b
    <3> QED BY <3>1, <1>6, <1>7
  <2> HIDE DEF n, b
  <2>2. n * k \in Nat
    BY <2>1, <1>2, TimesNat
  <2>3. Stripe * (b + 1) <= Stripe * (n * k)
    BY <2>1, <2>2, <1>6, Sizes
  <2>4. Stripe * (n * k) = n * MaxEpa
    BY <2>1, <1>2, Sizes
  <2> QED BY <2>3, <2>4 DEF n
<1>10. Stripe * (b + 1) \in Nat /\ (W * 2) * MaxEpa \in Nat
  <2> HIDE DEF b
  <2> QED BY <1>6, Sizes, PodAssumption, TimesNat
<1> HIDE DEF b
<1>11. DramBit \in Nat
  BY DEF DramBit
<1> QED BY <1>3, <1>8, <1>9, <1>10, <1>11 DEF w

(* A word behind a cache of the same column of pods has an EVA that leads    *)
(* the tile's own pod to it: default_npa_to_eva checks the column, not the   *)
(* pod (default_npa_is_dram).  It is the word itself for the pod's own       *)
(* caches, and another word for those of the pods above and below.           *)
THEOREM DramWords ==
  ASSUME H > 1, (W * 2) * MaxEpa <= DramBit,
         NEW p \in Pods, NEW q \in Pods, p[1] = q[1],
         NEW id \in 0 .. PodDrams - 1, NEW a \in 0 .. MaxEpa - 1,
         NEW tgt, PodOf(tgt) = p, NEW origin
  PROVE  EvaToNpa(tgt, origin, EvaOf(tgt, <<PodCache(q, id), a>>)) = <<PodCache(p, id), a>>
<1> DEFINE co == PodCache(q, id)
           first == VcoreOrigin(p)[1]
           c == id % W
           y == id \div W
           w == NpaToEva(<<<<c, y>>, a>>)
<1>0. DramBit \in Nat /\ DramBit > 0
  BY DEF DramBit
<1>1. /\ c \in 0 .. W - 1 /\ y \in {0, 1}
      /\ first \in Nat /\ first = W * (p[1] + 1) /\ co[1] = first + c
  <2>1. first = W * (p[1] + 1) /\ p[1] + 1 \in Nat
    BY OriginBlock
  <2>2. W * (p[1] + 1) \in Nat
    BY <2>1, PodAssumption, TimesNat
  <2> QED BY <2>1, <2>2, CacheBlock
<1>2. IsDram(co) /\ (IsSouth(co) <=> y = 1)
  BY CachesOfPod
<1>3. a < DramSize
  <2> DEFINE n == PX * PY * PodDrams
  <2>1. n \in Nat /\ n >= 1
    <3>1. PX * PY \in Nat /\ PX * PY >= 1 /\ PodDrams \in Nat /\ PodDrams >= 1
      BY PodAssumption DEF PodDrams
    <3> QED BY <3>1
  <2> HIDE DEF n
  <2>2. MaxEpa * n >= MaxEpa
    BY <2>1, Sizes
  <2>3. MaxEpa * n \in Nat
    BY <2>1, Sizes, TimesNat
  <2> QED BY <2>2, <2>3, Sizes DEF DramSize, n
<1>4. w \in 0 .. DramBit - 1
  BY <1>1, DramEvaFits
<1>5. /\ Home(w) = <<<<c, y>>, a>>
  BY <1>1, NpaRoundTrip, EvaAssumption
<1> HIDE DEF co, first, c, y
<1>6. IsDramNpa(tgt, <<co, a>>)
  BY <1>1, <1>2, <1>3, PodAssumption DEF IsDramNpa, first
<1>7. EvaOf(tgt, <<co, a>>) = DramBit + w
  <2>1. co[1] - first = c /\ (IF IsSouth(co) THEN 1 ELSE 0) = y
    BY <1>1, <1>2
  <2>2. w % DramBit = w
    BY <1>4, <1>0
  <2>3. DramEva(tgt, <<co, a>>) = DramBit + (NpaToEva(<<<<co[1] - first, IF IsSouth(co) THEN 1 ELSE 0>>, a>>) % DramBit)
    BY DEF DramEva, first
  <2>4. EvaOf(tgt, <<co, a>>) = DramEva(tgt, <<co, a>>)
    BY <1>6 DEF EvaOf
  <2> QED BY <2>1, <2>2, <2>3, <2>4
<1> HIDE DEF w
<1>8. Bit(DramBit + w, DramBit) /\ (DramBit + w) % DramBit = w
  <2>1. (DramBit * 1 + w) \div DramBit = 1 /\ (DramBit * 1 + w) % DramBit = w
    BY <1>0, <1>4, DivUnique
  <2>2. DramBit * 1 + w = DramBit + w
    BY <1>0, <1>4
  <2> QED BY <2>1, <2>2 DEF Bit
<1>9. EvaToNpa(tgt, origin, DramBit + w) = DramNpa(tgt, DramBit + w)
  BY <1>8 DEF EvaToNpa
<1>10. Column(w) = c /\ South(w) = y /\ Epa(w) = a
  BY <1>5 DEF Home
<1>11. ValidEva(w)
  BY <1>1, <1>10, EvaAssumption, Sizes DEF ValidEva
<1>12. DramNpa(tgt, DramBit + w) = <<<<first + c, IF y = 1 THEN SouthY(p) ELSE NorthY(p)>>, a>>
  BY <1>8, <1>10, <1>11 DEF DramNpa, first
<1>13. PodCache(p, id) = <<first + c, IF y = 1 THEN SouthY(p) ELSE NorthY(p)>>
  BY <1>1 DEF PodCache, first, c, y
<1> QED BY <1>7, <1>9, <1>12, <1>13 DEF co
-----------------------------------------------------------------------------
(* The group segment. *)

(* Beyond the first pods, no group EVA is translated: the check compares     *)
(* with the first pod's end, whatever the origin of the group.               *)
THEOREM GroupOfOtherPods ==
  ASSUME NEW p \in Pods, p[1] > 1 \/ p[2] > 0, NEW o \in Tiles(p), NEW eva \in Nat
  PROVE  GroupNpa(o, eva) = NoNpa
<1> DEFINE x == (eva \div LocalSpan) % GroupX
           y == (eva \div (LocalSpan * GroupX)) % GroupY
<1>1. x \in Nat /\ y \in Nat
  <2>1. x = (eva \div 65536) % 64 /\ y = (eva \div 4194304) % 32
    BY DEF LocalSpan, GroupX, GroupY
  <2> QED BY <2>1
<1>2. PICK c \in 0 .. W - 1, r \in 0 .. H - 1 :
        o = <<W * (p[1] + 1) + c, H * (2 * p[2] + 1) + r>>
  BY OriginBlock DEF Tiles
<1>3. W * (p[1] + 1) \in Nat /\ H * (2 * p[2] + 1) \in Nat /\ p[1] \in Nat /\ p[2] \in Nat
  BY OriginBlock, PodAssumption, TimesNat
<1>4. VcoreOrigin(<<0, 0>>)[1] = W /\ VcoreOrigin(<<0, 0>>)[2] = H
  BY PodAssumption DEF VcoreOrigin
<1> HIDE DEF x, y
<1>5. o[1] + x > W + W \/ o[2] + y > H + H
  <2>1. CASE p[1] > 1
    <3>1. W * (p[1] + 1) >= W * 3
      BY <2>1, <1>3, PodAssumption
    <3> QED BY <3>1, <1>1, <1>2, <1>3, PodAssumption
  <2>2. CASE p[2] > 0
    <3>1. H * (2 * p[2] + 1) >= H * 3
      BY <2>2, <1>3, PodAssumption
    <3> QED BY <3>1, <1>1, <1>2, <1>3, PodAssumption
  <2> QED BY <2>1, <2>2
<1> QED BY <1>4, <1>5 DEF GroupNpa, x, y

(* The check lets the coordinate one beyond the mesh through: a group EVA of *)
(* the first tile leads to the pod's south caches.                           *)
THEOREM GroupBeyondMesh ==
  ASSUME H < GroupY
  PROVE  LET eva == GroupBit + H * (LocalSpan * GroupX)
         IN GroupNpa(VcoreOrigin(<<0, 0>>), eva) = <<PodCache(<<0, 0>>, W), 0>>
<1> DEFINE eva == 134217728 + H * 4194304
<1>1. GroupBit + H * (LocalSpan * GroupX) = eva /\ H \in 1 .. 31
  BY PodAssumption DEF GroupBit, LocalSpan, GroupX, GroupY
<1>2. (eva \div 65536) % 64 = 0 /\ (eva \div 4194304) % 32 = H /\ eva % 65536 = 0
  BY <1>1
<1>3. VcoreOrigin(<<0, 0>>)[1] = W /\ VcoreOrigin(<<0, 0>>)[2] = H
  BY PodAssumption DEF VcoreOrigin
<1>4. PodCache(<<0, 0>>, W) = <<W, H + H>>
  <2>1. W % W = 0 /\ W \div W = 1
    BY PodAssumption
  <2> QED BY <1>3, <2>1, PodAssumption DEF PodCache, SouthY
<1> HIDE DEF eva
<1>5. GroupNpa(VcoreOrigin(<<0, 0>>), eva) = TileNpa(<<W + 0, H + H>>, 0)
  <2>1. 65536 * 64 = 4194304
    OBVIOUS
  <2> QED BY <1>2, <1>3, <2>1, PodAssumption DEF GroupNpa, LocalSpan, GroupX, GroupY
<1>6. TileNpa(<<W + 0, H + H>>, 0) = <<<<W, H + H>>, 0>>
  BY PodAssumption, EvaAssumption DEF TileNpa
<1> QED BY <1>1, <1>4, <1>5, <1>6
=============================================================================
