---------------------------- MODULE HarrisProofs ----------------------------
(***************************************************************************)
(* The Harris kernel is right for images of any width and for all 32 tiles *)
(* (and for any part of them): whatever the interleaving, halos are ready  *)
(* when they are read, and Output is complete when a tile returns.  The    *)
(* links of the hardware barrier form a tree for groups of any size, and   *)
(* on a ruche factor of 3 its wires are the barrier that the kernel needs. *)
(***************************************************************************)
EXTENDS HarrisBarrier, WellFoundedInduction, TLAPS

-----------------------------------------------------------------------------
(* The map of the strips. *)

LEMMA Strips == \A t \in Ids : Strip(t) \in 0 .. 31
BY SMTT(60) DEF Ids, TilesX, TilesY, Strip

(* The tiles above and below a tile hold the strips above and below its own  *)
(* (bsg_id_up, bsg_id_dn).                                                   *)
THEOREM NeighbourStrips ==
  ASSUME NEW t \in Ids
  PROVE  /\ t # 0 => Up(t) \in Ids /\ Strip(Up(t)) = Strip(t) - 1
         /\ t # 31 => Down(t) \in Ids /\ Strip(Down(t)) = Strip(t) + 1
<1>1. ASSUME t # 0
      PROVE  Up(t) \in Ids /\ Strip(Up(t)) = Strip(t) - 1
  BY <1>1, SMTT(120) DEF Ids, TilesX, TilesY, Strip, Up
<1>2. ASSUME t # 31
      PROVE  Down(t) \in Ids /\ Strip(Down(t)) = Strip(t) + 1
  BY <1>2, SMTT(120) DEF Ids, TilesX, TilesY, Strip, Down
<1> QED BY <1>1, <1>2

(* Every row of the image is in exactly one strip (Cinit).                   *)
THEOREM EveryRowOnce ==
  /\ \A y \in 0 .. NY - 1 : \E t \in Ids, r \in StripRows : y = ImageRow(t, r)
  /\ \A t, u \in Ids : \A r, q \in StripRows :
       ImageRow(t, r) = ImageRow(u, q) => t = u /\ r = q
<1>1. ASSUME NEW y \in 0 .. NY - 1
      PROVE  \E t \in Ids, r \in StripRows : y = ImageRow(t, r)
  <2> DEFINE s == y \div 2
             t == 8 * (s \div 16) + ((s \div 4) % 4) + 16 * ((s \div 2) % 2) + 4 * (s % 2)
             r == y % 2
  <2>1. s \in 0 .. 31 /\ y = 2 * s + r /\ r \in 0 .. 1
    BY DEF NY
  <2>2. t \in 0 .. 31 /\ Strip(t) = s
    <3> HIDE DEF s
    <3> QED BY <2>1, SMTT(120) DEF Strip
  <2> HIDE DEF s, t, r
  <2> QED BY <2>1, <2>2 DEF ImageRow, TileRows, StripRows, Ids, TilesX, TilesY
<1>2. ASSUME NEW t \in Ids, NEW u \in Ids, NEW r \in StripRows, NEW q \in StripRows,
             ImageRow(t, r) = ImageRow(u, q)
      PROVE  t = u /\ r = q
  <2>1. Strip(t) = Strip(u) /\ r = q
    BY <1>2, Strips DEF ImageRow, TileRows, StripRows
  <2>2. t = u
    BY <2>1, SMTT(120) DEF Strip, Ids, TilesX, TilesY
  <2> QED BY <2>1, <2>2
<1> QED BY <1>1, <1>2
-----------------------------------------------------------------------------
(* The inductive invariant. *)

Expected(t, p, r) == IF ImageRow(t, r) \in Rows(p) THEN Cols(p) ELSE {}

(* No tile is further than one barrier ahead, and then others wait at it.    *)
Lockstep == \A t, u \in Tiles : Arrived(u, phase[t] - 1)

(* Past a phase a tile holds the results of it, until it returns.            *)
ArraysRight ==
  \A t \in Tiles, p \in Gray .. Cim :
    phase[t] < Returned /\ Arrived(t, p) =>
      \A r \in StripRows : gm[t][p][r] = Expected(t, p, r)

(* Stores are under way only while their tile waits at its fence, ...        *)
Flying ==
  \A t \in Tiles, p \in {Warmup, LocalMax} :
    <<t, p>> \in flight => phase[t] = p /\ stage[t] = "fence"

(* ... in a phase that stores, ...                                           *)
Fences == \A t \in Tiles : stage[t] = "fence" => phase[t] \in {Warmup, LocalMax}

(* ... they carry the results, ...                                           *)
StoresRight ==
  \A t \in Tiles : <<t, LocalMax>> \in flight =>
    \A r \in StripRows : stores[t][r] = Expected(t, LocalMax, r)

(* ... and once they have landed, Output has them for good.                  *)
Landed(t) ==
  \/ phase[t] = Returned
  \/ phase[t] = LocalMax /\ stage[t] # "run" /\ <<t, LocalMax>> \notin flight

RowsLanded ==
  \A t \in Tiles : Landed(t) =>
    \A r \in StripRows : output[ImageRow(t, r)] = Expected(t, LocalMax, r)

IInv ==
  /\ KernelTypeOK /\ Lockstep /\ ArraysRight
  /\ Flying /\ Fences /\ StoresRight /\ RowsLanded

USE DEF Warmup, Gray, Gradient, Cim, LocalMax, Returned

(* While a tile computes, nobody has lost the arrays of the phase before.    *)
LEMMA SourcesKept ==
  ASSUME IInv, NEW t \in Tiles, stage[t] = "run", phase[t] \in 2 .. 4, NEW u \in Tiles
  PROVE  \A r \in StripRows : gm[u][phase[t] - 1][r] = Expected(u, phase[t] - 1, r)
<1>1. Arrived(u, phase[t] - 1) /\ Arrived(t, phase[u] - 1)
  BY DEF IInv, Lockstep
<1>2. phase[u] \in 0 .. 5 /\ phase[t] - 1 \in Gray .. Cim
  BY DEF IInv, KernelTypeOK
<1>3. phase[u] < Returned
  BY <1>1, <1>2 DEF Arrived
<1> QED BY <1>1, <1>2, <1>3 DEF IInv, ArraysRight

(* Every row it reads is next to its own row, and right.                     *)
LEMMA ReadsRight ==
  ASSUME IInv, NEW t \in Tiles, stage[t] = "run", phase[t] \in 2 .. 4,
         NEW r \in StripRows, ImageRow(t, r) \in Rows(phase[t]), NEW i \in r - 1 .. r + 1
  PROVE  Read(t, phase[t] - 1, i) = Cols(phase[t] - 1)
<1> DEFINE p == phase[t] - 1
           s == Source(t, i)
<1>1. r \in 0 .. 1 /\ i \in -1 .. 2 /\ t \in Ids /\ Strip(t) \in 0 .. 31 /\ p \in 1 .. 3
  BY Strips, KernelAssumption DEF StripRows, TileRows
<1>2. s[1] \in Ids /\ s[2] \in StripRows /\ ImageRow(s[1], s[2]) = ImageRow(t, i)
  <2>1. CASE i = -1
    <3>1. Strip(t) # 0
      BY <1>1, <2>1 DEF ImageRow, Rows, TileRows
    <3>2. t # 0
      BY <3>1 DEF Strip
    <3>3. Strip(Up(t)) = Strip(t) - 1 /\ Up(t) \in Ids
      BY <3>2, <1>1, NeighbourStrips
    <3>4. s = <<Up(t), 1>>
      BY <2>1 DEF Source, TileRows
    <3> QED BY <3>3, <3>4, <1>1, <2>1 DEF ImageRow, TileRows, StripRows
  <2>2. CASE i = 2
    <3>1. Strip(t) # 31
      BY <1>1, <2>2 DEF ImageRow, Rows, TileRows, NY
    <3>2. t # 31
      BY <3>1 DEF Strip
    <3>3. Strip(Down(t)) = Strip(t) + 1 /\ Down(t) \in Ids
      BY <3>2, <1>1, NeighbourStrips
    <3>4. s = <<Down(t), 0>>
      BY <2>2 DEF Source, TileRows
    <3> QED BY <3>3, <3>4, <1>1, <2>2 DEF ImageRow, TileRows, StripRows
  <2>3. CASE i \in 0 .. 1
    <3>1. s = <<t, i>>
      BY <2>3 DEF Source, TileRows
    <3> QED BY <3>1, <1>1, <2>3 DEF StripRows, TileRows
  <2> QED BY <1>1, <2>1, <2>2, <2>3
<1>3. ImageRow(s[1], s[2]) \in Rows(p)
  BY <1>1, <1>2 DEF ImageRow, Rows, TileRows, NY
<1>4. CASE s[1] \in Tiles
  <2>1. gm[s[1]][p][s[2]] = Cols(p)
    BY <1>2, <1>3, <1>4, SourcesKept DEF Expected
  <2> QED BY <1>2, <1>4, <2>1 DEF Read
<1>5. CASE s[1] \notin Tiles
  BY <1>2, <1>5 DEF Read
<1> QED BY <1>4, <1>5

LEMMA WindowRight ==
  ASSUME IInv, NEW t \in Tiles, stage[t] = "run", phase[t] \in 2 .. 4,
         NEW r \in StripRows, ImageRow(t, r) \in Rows(phase[t])
  PROVE  Window(t, phase[t] - 1, r) = Cols(phase[t] - 1)
<1>1. r - 1 \in r - 1 .. r + 1 /\ r \in r - 1 .. r + 1 /\ r + 1 \in r - 1 .. r + 1
  BY DEF StripRows, TileRows
<1> QED BY <1>1, ReadsRight DEF Window

LEMMA ComputesRight ==
  ASSUME IInv, NEW t \in Tiles, stage[t] = "run", phase[t] \in 1 .. 4, NEW r \in StripRows
  PROVE  ComputedRows(t)[r] = Expected(t, phase[t], r)
<1>1. ComputedRows(t)[r] = Computed(t, phase[t], r)
  BY DEF ComputedRows
<1>2. CASE phase[t] = 1 \/ ImageRow(t, r) \notin Rows(phase[t])
  BY <1>1, <1>2 DEF Computed, Expected
<1>3. CASE phase[t] \in 2 .. 4 /\ ImageRow(t, r) \in Rows(phase[t])
  <2>1. Window(t, phase[t] - 1, r) = Cols(phase[t] - 1)
    BY <1>3, WindowRight
  <2>2. \A x \in Cols(phase[t]) : {x - 1, x, x + 1} \subseteq Cols(phase[t] - 1)
    BY <1>3, KernelAssumption DEF Cols
  <2> QED BY <1>1, <1>3, <2>1, <2>2 DEF Computed, Expected
<1> QED BY <1>2, <1>3

-----------------------------------------------------------------------------
(* It holds in the beginning and every step keeps it. *)

LEMMA ColumnsFit == \A p \in 1 .. 4 : Cols(p) \subseteq 0 .. NX - 1
BY KernelAssumption DEF Cols

LEMMA ExpectedFits ==
  ASSUME NEW p \in 1 .. 4, NEW t, NEW r
  PROVE  Expected(t, p, r) \in SUBSET (0 .. NX - 1)
BY ColumnsFit DEF Expected

LEMMA RowsOfTiles ==
  /\ \A t \in Tiles, r \in StripRows : ImageRow(t, r) \in ImageRows /\ ImageRow(t, r) % TileRows = r
  /\ \A y \in ImageRows : y % TileRows \in StripRows
<1>1. ASSUME NEW t \in Tiles, NEW r \in StripRows
      PROVE  ImageRow(t, r) \in ImageRows /\ ImageRow(t, r) % TileRows = r
  <2>1. Strip(t) \in 0 .. 31 /\ r \in 0 .. 1
    BY Strips, KernelAssumption DEF StripRows, TileRows
  <2> QED BY <2>1 DEF ImageRow, TileRows, ImageRows
<1>2. ASSUME NEW y \in ImageRows
      PROVE  y % TileRows \in StripRows
  <2>1. PICK t \in Tiles, r \in StripRows : y = ImageRow(t, r)
    BY DEF ImageRows
  <2> QED BY <1>1, <2>1
<1> QED BY <1>1, <1>2

LEMMA InitIInv == Init => IInv
<1> SUFFICES ASSUME Init PROVE IInv
  OBVIOUS
<1>1. KernelTypeOK
  BY DEF Init, KernelTypeOK, Garbage, NoRows
<1>2. \A t \in Tiles : phase[t] = 0
  BY DEF Init
<1>3. Lockstep
  BY <1>2 DEF Lockstep, Arrived
<1>4. ArraysRight
  BY <1>2 DEF ArraysRight, Arrived
<1>5. Flying /\ Fences /\ StoresRight
  BY DEF Init, Flying, Fences, StoresRight
<1>6. RowsLanded
  BY <1>2 DEF RowsLanded, Landed
<1> QED BY <1>1, <1>3, <1>4, <1>5, <1>6 DEF IInv

LEMMA ComputeIInv ==
  ASSUME IInv, NEW t \in Tiles, Compute(t)
  PROVE  IInv'
<1> USE DEF IInv
<1> DEFINE k == phase[t]
<1>0. /\ stage[t] = "run" /\ k \in 1 .. 3
      /\ stage' = [stage EXCEPT ![t] = "sync"]
      /\ gm' = [gm EXCEPT ![t][k] = ComputedRows(t)]
      /\ phase' = phase /\ flight' = flight /\ stores' = stores /\ output' = output
  BY DEF Compute
<1>1. \A r \in StripRows : ComputedRows(t)[r] = Expected(t, k, r)
  BY <1>0, ComputesRight
<1>2. KernelTypeOK'
  <2>1. ComputedRows(t) \in [StripRows -> SUBSET (0 .. NX - 1)]
    <3>1. \A r \in StripRows : ComputedRows(t)[r] \in SUBSET (0 .. NX - 1)
      BY <1>0, <1>1, ExpectedFits
    <3> QED BY <3>1 DEF ComputedRows
  <2> QED BY <1>0, <2>1 DEF KernelTypeOK
<1>3. \A u \in Tiles, p \in -1 .. 4 : Arrived(u, p)' <=> Arrived(u, p) \/ (u = t /\ p = k)
  BY <1>0 DEF KernelTypeOK, Arrived
<1>4. Lockstep'
  BY <1>0 DEF Lockstep, Arrived, KernelTypeOK
<1>5. ArraysRight'
  <2> SUFFICES ASSUME NEW u \in Tiles, NEW p \in 1 .. 3, phase[u] < 5, Arrived(u, p)',
                      NEW r \in StripRows
               PROVE  gm'[u][p][r] = Expected(u, p, r)
    BY <1>0 DEF ArraysRight, Expected
  <2>1. CASE u = t /\ p = k
    BY <1>0, <1>1, <2>1 DEF KernelTypeOK
  <2>2. CASE ~(u = t /\ p = k)
    <3>1. gm'[u][p] = gm[u][p]
      BY <1>0, <2>2 DEF KernelTypeOK
    <3>2. Arrived(u, p)
      BY <1>3, <2>2
    <3> QED BY <3>1, <3>2 DEF ArraysRight
  <2> QED BY <2>1, <2>2
<1>6. Flying' /\ Fences'
  BY <1>0 DEF Flying, Fences, KernelTypeOK
<1>7. StoresRight'
  BY <1>0 DEF StoresRight, Expected
<1>8. RowsLanded'
  BY <1>0 DEF RowsLanded, Landed, Expected, KernelTypeOK
<1> QED BY <1>2, <1>4, <1>5, <1>6, <1>7, <1>8

LEMMA SendIInv ==
  ASSUME IInv, NEW t \in Tiles, Send(t)
  PROVE  IInv'
<1> USE DEF IInv
<1>0. /\ stage[t] = "run" /\ phase[t] \in {0, 4}
      /\ stage' = [stage EXCEPT ![t] = "fence"]
      /\ flight' = flight \cup {<<t, phase[t]>>}
      /\ stores' = [stores EXCEPT ![t] = IF phase[t] = 0 THEN NoRows ELSE ComputedRows(t)]
      /\ phase' = phase /\ gm' = gm /\ output' = output
  BY DEF Send
<1>1. phase[t] = 4 => \A r \in StripRows : ComputedRows(t)[r] = Expected(t, 4, r)
  BY <1>0, ComputesRight
<1>2. KernelTypeOK'
  <2>1. phase[t] = 4 => ComputedRows(t) \in [StripRows -> SUBSET (0 .. NX - 1)]
    <3>1. phase[t] = 4 => \A r \in StripRows : ComputedRows(t)[r] \in SUBSET (0 .. NX - 1)
      BY <1>1, ExpectedFits
    <3> QED BY <3>1 DEF ComputedRows
  <2>2. NoRows \in [StripRows -> SUBSET (0 .. NX - 1)]
    BY DEF NoRows
  <2> QED BY <1>0, <2>1, <2>2 DEF KernelTypeOK
<1>3. \A u \in Tiles, p \in -1 .. 4 : Arrived(u, p)' <=> Arrived(u, p)
  BY <1>0 DEF KernelTypeOK, Arrived
<1>4. Lockstep'
  BY <1>0 DEF Lockstep, Arrived, KernelTypeOK
<1>5. ArraysRight'
  BY <1>0, <1>3 DEF ArraysRight, Expected
<1>6. Flying' /\ Fences'
  BY <1>0 DEF Flying, Fences, KernelTypeOK
<1>7. StoresRight'
  <2> SUFFICES ASSUME NEW u \in Tiles, <<u, 4>> \in flight', NEW r \in StripRows
               PROVE  stores'[u][r] = Expected(u, 4, r)
    BY DEF StoresRight, Expected
  <2>1. CASE u = t
    <3>1. phase[t] = 4
      BY <1>0, <1>6, <2>1 DEF Flying
    <3> QED BY <1>0, <1>1, <2>1, <3>1 DEF KernelTypeOK
  <2>2. CASE u # t
    <3>1. stores'[u] = stores[u] /\ <<u, 4>> \in flight
      BY <1>0, <2>2 DEF KernelTypeOK
    <3> QED BY <3>1 DEF StoresRight
  <2> QED BY <2>1, <2>2
<1>8. RowsLanded'
  <2>1. \A u \in Tiles : Landed(u)' => Landed(u)
    BY <1>0 DEF Landed, KernelTypeOK
  <2> QED BY <1>0, <2>1 DEF RowsLanded, Expected
<1> QED BY <1>2, <1>4, <1>5, <1>6, <1>7, <1>8

LEMMA LandIInv ==
  ASSUME IInv, NEW t \in Tiles, NEW p \in {0, 4}, Land(t, p)
  PROVE  IInv'
<1> USE DEF IInv
<1>0. /\ <<t, p>> \in flight /\ flight' = flight \ {<<t, p>>}
      /\ phase' = phase /\ stage' = stage /\ gm' = gm /\ stores' = stores
  BY DEF Land
<1>1. phase[t] = p /\ stage[t] = "fence"
  BY <1>0 DEF Flying
<1>2. KernelTypeOK'
  <2>1. output' \in [ImageRows -> SUBSET (0 .. NX - 1)]
    BY RowsOfTiles DEF Land, KernelTypeOK
  <2> QED BY <1>0, <2>1 DEF KernelTypeOK
<1>3. Lockstep' /\ ArraysRight'
  BY <1>0 DEF Lockstep, ArraysRight, Arrived, Expected
<1>4. Flying' /\ Fences' /\ StoresRight'
  BY <1>0 DEF Flying, Fences, StoresRight, Expected
<1>5. RowsLanded'
  <2> SUFFICES ASSUME NEW u \in Tiles, Landed(u)', NEW r \in StripRows
               PROVE  output'[ImageRow(u, r)] = Expected(u, 4, r)
    BY DEF RowsLanded, Expected
  <2>1. ImageRow(u, r) \in ImageRows /\ ImageRow(u, r) % TileRows = r
    BY RowsOfTiles
  <2>2. Arrived(t, phase[u] - 1) /\ phase[u] \in 4 .. 5
    BY <1>0 DEF Lockstep, Landed
  <2>3. p = 4
    BY <1>1, <2>2 DEF Arrived
  <2>4. CASE u = t
    <3>1. output'[ImageRow(u, r)] = stores[t][r]
      BY <2>1, <2>3, <2>4 DEF Land
    <3> QED BY <1>0, <2>3, <2>4, <3>1 DEF StoresRight
  <2>5. CASE u # t
    <3>1. \A q \in StripRows : ImageRow(u, r) # ImageRow(t, q)
      BY <2>5, EveryRowOnce, KernelAssumption
    <3>2. output'[ImageRow(u, r)] = output[ImageRow(u, r)]
      BY <2>1, <2>3, <3>1 DEF Land
    <3>3. Landed(u)
      BY <1>0, <2>5 DEF Landed
    <3> QED BY <3>2, <3>3 DEF RowsLanded
  <2> QED BY <2>4, <2>5
<1> QED BY <1>2, <1>3, <1>4, <1>5

LEMMA FenceIInv ==
  ASSUME IInv, NEW t \in Tiles, Fence(t)
  PROVE  IInv'
<1> USE DEF IInv
<1>0. /\ stage[t] = "fence" /\ <<t, 0>> \notin flight /\ <<t, 4>> \notin flight
      /\ stage' = [stage EXCEPT ![t] = "sync"]
      /\ phase' = phase /\ gm' = gm /\ flight' = flight /\ stores' = stores /\ output' = output
  BY DEF Fence, Fenced
<1>1. KernelTypeOK'
  BY <1>0 DEF KernelTypeOK
<1>2. phase[t] \in {0, 4}
  BY <1>0 DEF Fences
<1>3. Lockstep'
  BY <1>0 DEF Lockstep, Arrived, KernelTypeOK
<1>4. ArraysRight'
  <2>1. \A u \in Tiles, p \in 1 .. 3 : Arrived(u, p)' => Arrived(u, p)
    BY <1>0, <1>2 DEF KernelTypeOK, Arrived
  <2> QED BY <1>0, <2>1 DEF ArraysRight, Expected
<1>5. Flying' /\ Fences'
  BY <1>0 DEF Flying, Fences, KernelTypeOK
<1>6. StoresRight'
  BY <1>0 DEF StoresRight, Expected
<1>7. RowsLanded'
  <2>1. \A u \in Tiles : Landed(u)' => Landed(u)
    BY <1>0 DEF Landed, KernelTypeOK
  <2> QED BY <1>0, <2>1 DEF RowsLanded, Expected
<1> QED BY <1>1, <1>3, <1>4, <1>5, <1>6, <1>7

LEMMA LeaveIInv ==
  ASSUME IInv, NEW t \in Tiles, Leave(t)
  PROVE  IInv'
<1> USE DEF IInv
<1>0. /\ \A u \in Tiles : Arrived(u, phase[t])
      /\ stage[t] = "sync" /\ phase[t] \in 0 .. 4
      /\ phase' = [phase EXCEPT ![t] = phase[t] + 1]
      /\ stage' = [stage EXCEPT ![t] = "run"]
      /\ gm' = IF phase[t] = 4 THEN [gm EXCEPT ![t] = Garbage] ELSE gm
      /\ flight' = flight /\ stores' = stores /\ output' = output
  BY DEF Leave, Proceed, KernelTypeOK
<1>1. KernelTypeOK'
  <2>1. Garbage \in [1 .. 3 -> [StripRows -> SUBSET (0 .. NX - 1)]]
    BY DEF Garbage, NoRows
  <2> QED BY <1>0, <2>1 DEF KernelTypeOK
<1>2. \A u \in Tiles, p \in -1 .. 4 : Arrived(u, p) => Arrived(u, p)'
  BY <1>0 DEF KernelTypeOK, Arrived
<1>3. Lockstep'
  <2> SUFFICES ASSUME NEW a \in Tiles, NEW u \in Tiles
               PROVE  Arrived(u, phase[a] - 1)'
    BY DEF Lockstep
  <2>1. CASE a = t
    BY <1>0, <2>1 DEF Arrived, KernelTypeOK
  <2>2. CASE a # t
    <3>1. Arrived(u, phase[a] - 1)
      BY DEF Lockstep
    <3>2. phase'[a] = phase[a] /\ phase[a] - 1 \in -1 .. 4
      BY <1>0, <2>2 DEF KernelTypeOK
    <3>3. CASE u = t
      BY <1>0, <3>1, <3>2, <3>3 DEF Arrived, KernelTypeOK
    <3>4. CASE u # t
      <4>1. phase'[u] = phase[u] /\ stage'[u] = stage[u]
        BY <1>0, <3>4 DEF KernelTypeOK
      <4> QED BY <3>1, <3>2, <4>1 DEF Arrived
    <3> QED BY <3>3, <3>4
  <2> QED BY <2>1, <2>2
<1>4. ArraysRight'
  <2> SUFFICES ASSUME NEW u \in Tiles, NEW p \in 1 .. 3, phase'[u] < 5, Arrived(u, p)'
               PROVE  \A r \in StripRows : gm'[u][p][r] = Expected(u, p, r)
    BY DEF ArraysRight, Expected
  <2>1. phase[u] < 5 /\ Arrived(u, p)
    BY <1>0 DEF Arrived, KernelTypeOK
  <2>2. gm'[u] = gm[u]
    BY <1>0 DEF KernelTypeOK
  <2> QED BY <2>1, <2>2 DEF ArraysRight
<1>5. Flying'
  BY <1>0 DEF Flying, KernelTypeOK
<1>6. Fences'
  BY <1>0 DEF Fences, KernelTypeOK
<1>7. StoresRight'
  BY <1>0 DEF StoresRight, Expected
<1>8. RowsLanded'
  <2>1. ASSUME NEW u \in Tiles, Landed(u)'
        PROVE  Landed(u)
    <3>1. CASE u = t
      <4>1. phase[t] = 4
        BY <1>0, <2>1, <3>1 DEF Landed, KernelTypeOK
      <4>2. <<t, 4>> \notin flight
        BY <1>0 DEF Flying
      <4> QED BY <1>0, <3>1, <4>1, <4>2 DEF Landed
    <3>2. CASE u # t
      BY <1>0, <2>1, <3>2 DEF Landed, KernelTypeOK
    <3> QED BY <3>1, <3>2
  <2> QED BY <1>0, <2>1 DEF RowsLanded, Expected
<1> QED BY <1>1, <1>3, <1>4, <1>5, <1>6, <1>7, <1>8

LEMMA NextIInv == IInv /\ [Next]_vars => IInv'
<1> SUFFICES ASSUME IInv, [Next]_vars PROVE IInv'
  OBVIOUS
<1>1. ASSUME NEW t \in Tiles, Compute(t) PROVE IInv'
  BY <1>1, ComputeIInv
<1>2. ASSUME NEW t \in Tiles, Send(t) PROVE IInv'
  BY <1>2, SendIInv
<1>3. ASSUME NEW t \in Tiles, NEW p \in {0, 4}, Land(t, p) PROVE IInv'
  BY <1>3, LandIInv
<1>4. ASSUME NEW t \in Tiles, Fence(t) PROVE IInv'
  BY <1>4, FenceIInv
<1>5. ASSUME NEW t \in Tiles, Leave(t) PROVE IInv'
  BY <1>5, LeaveIInv
<1>6. CASE UNCHANGED vars
  <2>1. /\ phase' = phase /\ stage' = stage /\ gm' = gm
        /\ flight' = flight /\ stores' = stores /\ output' = output
    BY <1>6 DEF vars
  <2>2. KernelTypeOK' /\ Lockstep' /\ ArraysRight'
    BY <2>1 DEF IInv, KernelTypeOK, Lockstep, ArraysRight, Arrived, Expected
  <2>3. Flying' /\ Fences' /\ StoresRight' /\ RowsLanded'
    BY <2>1 DEF IInv, Flying, Fences, StoresRight, RowsLanded, Landed, Expected
  <2> QED BY <2>2, <2>3 DEF IInv
<1> QED BY <1>1, <1>2, <1>3, <1>4, <1>5, <1>6 DEF Next, Work

-----------------------------------------------------------------------------
(* What follows from it. *)

LEMMA IInvHalo == IInv => HaloReady
BY WindowRight DEF HaloReady

LEMMA IInvOutput == IInv => OutputRight
<1> SUFFICES ASSUME IInv, NEW a \in Tiles, phase[a] = 5, NEW t \in Tiles, NEW r \in StripRows,
                    ImageRow(t, r) \in Rows(4)
             PROVE  output[ImageRow(t, r)] = Cols(4)
  BY DEF OutputRight
<1>1. Arrived(t, 4) /\ phase[t] \in 0 .. 5
  BY DEF IInv, Lockstep, KernelTypeOK
<1>2. Landed(t)
  <2>1. stage[t] = "sync" => <<t, 4>> \notin flight
    BY DEF IInv, Flying
  <2> QED BY <1>1, <2>1 DEF Arrived, Landed
<1> QED BY <1>2 DEF IInv, RowsLanded, Expected

(* Every behaviour of the kernel satisfies the inductive invariant.          *)
LEMMA AlwaysIInv == Spec => []IInv
BY InitIInv, NextIInv, PTL DEF Spec

(* What the kernel computes and stores stays inside the image.               *)
THEOREM KernelTyped == Spec => []KernelTypeOK
<1>1. IInv => KernelTypeOK
  BY DEF IInv
<1> QED BY <1>1, AlwaysIInv, PTL

(* Halos are ready when a phase reads them, and stay so (the barrier between *)
(* two phases is all that the kernel needs).                                 *)
THEOREM HalosReady == Spec => []HaloReady
BY IInvHalo, AlwaysIInv, PTL

(* A tile returns only when all of Output is complete and final.             *)
THEOREM OutputComplete == Spec => []OutputRight
BY IInvOutput, AlwaysIInv, PTL

-----------------------------------------------------------------------------
(* The wires between the tiles. *)


LEMMA Center == CenterX \in 0 .. TX - 1 /\ CenterY \in 0 .. TY - 1
<1>1. \A n \in Nat \ {0} : n \div 2 \in 0 .. n - 1
  OBVIOUS
<1> QED BY <1>1, TreeAssumption DEF CenterX, CenterY

(* Every tile of the group but the one at the centre sends to a tile of the  *)
(* group that waits for it, and nobody waits for a tile that sends elsewhere *)
(* (hb_mc_hw_barrier_csr_val): no barrier hangs on the wiring, and none      *)
(* opens without a tile.                                                     *)
THEOREM TreeMatched ==
  ASSUME R = 3, NEW t \in Grid
  PROVE  Matched(t)
<1> DEFINE x == t[1]
           y == t[2]
<1>1. /\ x \in 0 .. TX - 1 /\ y \in 0 .. TY - 1 /\ t = <<x, y>>
      /\ CenterX \in 0 .. TX - 1 /\ CenterY \in 0 .. TY - 1
      /\ TX \in Nat /\ TY \in Nat
  BY Center, TreeAssumption DEF Grid
<1> HIDE DEF x, y
<1>2. ASSUME Output(t) # "Root"
      PROVE  /\ Neighbour(t, Output(t)) \in Grid
             /\ Opposite[Output(t)] \in Inputs(Neighbour(t, Output(t)))
  <2> DEFINE Joined(d) == /\ Neighbour(t, d) \in Grid
                          /\ Opposite[d] \in Inputs(Neighbour(t, d))
  <2>1. CASE x <= CenterX - 3
    <3>1. Output(t) = "RE"
      BY <2>1, <1>1, SMTT(60) DEF Output
    <3>2. Joined("RE")
      BY <2>1, <1>1, SMTT(60) DEF Inputs, Neighbour, Opposite, Directions, Grid
    <3> QED BY <3>1, <3>2
  <2>2. CASE x < CenterX /\ x > CenterX - 3
    <3>1. Output(t) = "E"
      BY <2>2, <1>1, SMTT(60) DEF Output
    <3>2. Joined("E")
      BY <2>2, <1>1, SMTT(60) DEF Inputs, Neighbour, Opposite, Directions, Grid
    <3> QED BY <3>1, <3>2
  <2>3. CASE x = CenterX /\ y < CenterY
    <3>1. Output(t) = "S"
      BY <2>3, <1>1, SMTT(60) DEF Output
    <3>2. Joined("S")
      BY <2>3, <1>1, SMTT(60) DEF Inputs, Neighbour, Opposite, Directions, Grid
    <3> QED BY <3>1, <3>2
  <2>4. CASE x = CenterX /\ y > CenterY
    <3>1. Output(t) = "N"
      BY <2>4, <1>1, SMTT(60) DEF Output
    <3>2. Joined("N")
      BY <2>4, <1>1, SMTT(60) DEF Inputs, Neighbour, Opposite, Directions, Grid
    <3> QED BY <3>1, <3>2
  <2>5. CASE x > CenterX /\ x < CenterX + 3
    <3>1. Output(t) = "W"
      BY <2>5, <1>1, SMTT(60) DEF Output
    <3>2. Joined("W")
      BY <2>5, <1>1, SMTT(60) DEF Inputs, Neighbour, Opposite, Directions, Grid
    <3> QED BY <3>1, <3>2
  <2>6. CASE x >= CenterX + 3
    <3>1. Output(t) = "RW"
      BY <2>6, <1>1, SMTT(60) DEF Output
    <3>2. Joined("RW")
      BY <2>6, <1>1, SMTT(60) DEF Inputs, Neighbour, Opposite, Directions, Grid
    <3> QED BY <3>1, <3>2
  <2>7. ~(x = CenterX /\ y = CenterY)
    BY <1>1, <1>2, SMTT(60) DEF Output
  <2> QED BY <2>1, <2>2, <2>3, <2>4, <2>5, <2>6, <2>7, <1>1
<1>3. ASSUME NEW d \in Inputs(t)
      PROVE  Neighbour(t, d) \in Grid /\ Output(Neighbour(t, d)) = Opposite[d]
  BY <1>1, <1>3, SMTT(60) DEF Output, Inputs, Neighbour, Opposite, Directions, Grid
<1> QED BY <1>2, <1>3 DEF Matched

(* Each link leads closer to the centre, so the links form no cycle and all  *)
(* of them end at the root.                                                  *)
THEOREM TowardsRoot ==
  ASSUME R = 3, NEW t \in Grid, Output(t) # "Root"
  PROVE  Distance(Neighbour(t, Output(t))) < Distance(t)
<1> DEFINE x == t[1]
           y == t[2]
<1>1. /\ x \in 0 .. TX - 1 /\ y \in 0 .. TY - 1 /\ t = <<x, y>>
      /\ CenterX \in 0 .. TX - 1 /\ CenterY \in 0 .. TY - 1
      /\ TX \in Nat /\ TY \in Nat
  BY Center, TreeAssumption DEF Grid
<1> HIDE DEF x, y
<1>2. CASE x < CenterX
  BY <1>1, <1>2, SMTT(60) DEF Output, Neighbour, Distance
<1>3. CASE x = CenterX
  BY <1>1, <1>3, SMTT(60) DEF Output, Neighbour, Distance
<1>4. CASE x > CenterX
  BY <1>1, <1>4, SMTT(60) DEF Output, Neighbour, Distance
<1> QED BY <1>1, <1>2, <1>3, <1>4

(* The only tile without a link to another one is the centre.                *)
THEOREM OneRoot ==
  ASSUME R \in Nat \ {0}, NEW t \in Grid
  PROVE  Output(t) = "Root" <=> t = <<CenterX, CenterY>>
<1>1. /\ t[1] \in Int /\ t[2] \in Int /\ t = <<t[1], t[2]>>
      /\ CenterX \in Int /\ CenterY \in Int
  BY Center, TreeAssumption DEF Grid
<1> QED BY <1>1, SMTT(60) DEF Output

(* The code takes the span from the configuration, but local inputs are      *)
(* enabled at the centre and next to it, whatever the span is.  With a       *)
(* shorter one the tile next to the centre waits for a tile that uses its    *)
(* ruche link; with a longer one a tile sends to one that does not wait.     *)
THEOREM OnlyThree ==
  ASSUME TX >= 6
  PROVE  (\A t \in Grid : Matched(t)) <=> R = 3
<1>1. CenterX >= 3 /\ CenterX < TX /\ CenterX \in Int /\ R \in Nat \ {0} /\ TX \in Nat /\ TY \in Nat \ {0}
  <2>1. \A n \in Nat : n >= 6 => n \div 2 >= 3
    OBVIOUS
  <2> QED BY <2>1, Center, TreeAssumption DEF CenterX
<1>2. ASSUME R < 3
      PROVE  \E t \in Grid : ~Matched(t)
  <2> DEFINE t == <<CenterX - 1, 0>>
             u == <<CenterX - 2, 0>>
  <2>1. t \in Grid /\ "W" \in Inputs(t)
    BY <1>1, SMTT(60) DEF Inputs, Directions, Grid
  <2>2. Neighbour(t, "W") = u
    BY <1>1 DEF Neighbour
  <2>3. Output(u) = "RE" /\ Opposite["W"] = "E"
    BY <1>1, <1>2, SMTT(60) DEF Output, Opposite, Directions
  <2> QED BY <2>1, <2>2, <2>3, Zenon DEF Matched
<1>3. ASSUME R > 3
      PROVE  \E t \in Grid : ~Matched(t)
  <2> DEFINE t == <<CenterX - 3, 0>>
             u == <<CenterX - 2, 0>>
  <2>1. t \in Grid /\ Output(t) = "E"
    BY <1>1, <1>3, SMTT(60) DEF Output, Grid
  <2>2. Neighbour(t, "E") = u /\ Opposite["E"] = "W"
    BY <1>1, SMTT(60) DEF Neighbour, Opposite, Directions
  <2>3. "W" \notin Inputs(u)
    BY <1>1, SMTT(60) DEF Inputs, Directions
  <2> QED BY <2>1, <2>2, <2>3 DEF Matched
<1> QED BY <1>1, <1>2, <1>3, TreeMatched

-----------------------------------------------------------------------------
(* The barrier in hardware. *)

(* A set of natural numbers has a least element.                             *)
LEMMA LeastNumber ==
  ASSUME NEW T, T \subseteq Nat, T # {}
  PROVE  \E n \in T : \A k \in T : ~(k < n)
<1>1. IsWellFoundedOn(OpToRel(<, Nat), Nat)
  BY NatLessThanWellFounded
<1>2. PICK n \in T : \A k \in T : ~(<<k, n>> \in OpToRel(<, Nat))
  BY <1>1, WFMin
<1>3. \A k \in T : ~(k < n)
  <2> SUFFICES ASSUME NEW k \in T, k < n PROVE FALSE
    OBVIOUS
  <2>1. <<k, n>> \in OpToRel(<, Nat)
    BY DEF OpToRel
  <2> QED BY <1>2, <2>1
<1> QED BY <1>3

IsRoot(t) == Output(Place[t]) = "Root"

(* The tile that a tile sends to. *)
Parent(t) == TileAt(Neighbour(Place[t], Output(Place[t])))

(* The tiles that a tile waits for. *)
Children(t) == {TileAt(Neighbour(Place[t], d)) : d \in Inputs(Place[t])}

(* After r barriers have opened, when v is the value that opened the last:   *)
(* a tile still waits at that one, is between it and the next, or waits at   *)
(* the next.                                                                 *)
Stands(t, r, v) ==
  \/ phase[t] = r - 1 /\ t \in waiting /\ own[t] = v
  \/ phase[t] = r /\ t \notin waiting /\ own[t] = v /\ down[t] = v
  \/ phase[t] = r /\ t \in waiting /\ own[t] # v /\ down[t] = v

(* A node whose output has changed since has a subtree in which all wait at  *)
(* the next barrier; the value v goes from the root to the leaves.           *)
Round(r, v) ==
  /\ \A t \in Tiles : Stands(t, r, v)
  /\ \A t \in Tiles : up[t] # v => own[t] # v /\ \A c \in Children(t) : up[c] # v
  /\ \A t \in Tiles : IsRoot(t) => down[t] = v
  /\ \A t \in Tiles : ~IsRoot(t) /\ down[t] = v => down[Parent(t)] = v

BarrierInv ==
  /\ phase \in [Tiles -> Int] /\ stage \in [Tiles -> {"run", "fence", "sync"}]
  /\ own \in [Tiles -> BOOLEAN] /\ up \in [Tiles -> BOOLEAN] /\ down \in [Tiles -> BOOLEAN]
  /\ waiting \subseteq Tiles
  /\ \A t \in waiting : stage[t] = "sync"
  /\ \E r \in Int, v \in BOOLEAN : Round(r, v)

LEMMA PlacedAt ==
  /\ \A n \in Grid : TileAt(n) \in Tiles /\ Place[TileAt(n)] = n
  /\ \A t \in Tiles : Place[t] \in Grid /\ TileAt(Place[t]) = t
<1>1. \A n \in Grid : TileAt(n) \in Tiles /\ Place[TileAt(n)] = n
  <2> TAKE n \in Grid
  <2>1. \E t \in Tiles : Place[t] = n
    BY PlaceAssumption
  <2> QED BY <2>1 DEF TileAt
<1>2. \A t \in Tiles : Place[t] \in Grid
  BY PlaceAssumption
<1>3. \A t \in Tiles : TileAt(Place[t]) = t
  BY <1>1, <1>2, PlaceAssumption
<1> QED BY <1>1, <1>2, <1>3

(* Links lead back and forth. *)
LEMMA ThereAndBack ==
  ASSUME NEW n \in Grid, NEW d \in Directions
  PROVE  Neighbour(Neighbour(n, d), Opposite[d]) = n
<1>1. n = <<n[1], n[2]>> /\ n[1] \in Int /\ n[2] \in Int /\ R \in Int
  BY TreeAssumption DEF Grid
<1>2. CASE d = "W"
  BY <1>1, <1>2 DEF Neighbour, Opposite, Directions
<1>3. CASE d = "E"
  BY <1>1, <1>3 DEF Neighbour, Opposite, Directions
<1>4. CASE d = "N"
  BY <1>1, <1>4 DEF Neighbour, Opposite, Directions
<1>5. CASE d = "S"
  BY <1>1, <1>5 DEF Neighbour, Opposite, Directions
<1>6. CASE d = "RW"
  BY <1>1, <1>6 DEF Neighbour, Opposite, Directions
<1>7. CASE d = "RE"
  BY <1>1, <1>7 DEF Neighbour, Opposite, Directions
<1> QED BY <1>2, <1>3, <1>4, <1>5, <1>6, <1>7 DEF Directions

LEMMA OutputsAreDirections ==
  ASSUME NEW n \in Grid
  PROVE  Output(n) \in Directions \cup {"Root"}
<1>1. n[1] \in Int /\ n[2] \in Int /\ R \in Nat \ {0} /\ CenterX \in Int /\ CenterY \in Int
  BY TreeAssumption, Center DEF Grid
<1> QED BY <1>1, SMTT(60) DEF Output, Directions

(* A tile that is not the root is a child of its parent, which is closer to  *)
(* the root.                                                                 *)
LEMMA ChildOfParent ==
  ASSUME R = 3, NEW t \in Tiles, ~IsRoot(t)
  PROVE  /\ Parent(t) \in Tiles /\ t \in Children(Parent(t))
         /\ Distance(Place[Parent(t)]) < Distance(Place[t])
<1> DEFINE n == Place[t]
           d == Output(n)
           m == Neighbour(n, d)
<1>1. n \in Grid /\ d # "Root" /\ TileAt(n) = t
  BY PlacedAt DEF IsRoot
<1>2. m \in Grid /\ Opposite[d] \in Inputs(m)
  BY <1>1, TreeMatched DEF Matched
<1>3. Neighbour(m, Opposite[d]) = n
  BY <1>1, ThereAndBack, OutputsAreDirections
<1>4. Distance(m) < Distance(n)
  BY <1>1, TowardsRoot
<1>5. Parent(t) = TileAt(m) /\ Place[Parent(t)] = m /\ Parent(t) \in Tiles
  BY <1>2, PlacedAt DEF Parent
<1> QED BY <1>1, <1>2, <1>3, <1>4, <1>5 DEF Children

(* When the output of the root has changed, all outputs have.                *)
LEMMA RootKnowsAll ==
  ASSUME R = 3, NEW r, NEW v, Round(r, v),
         NEW z \in Tiles, IsRoot(z), up[z] # v
  PROVE  \A t \in Tiles : up[t] # v
<1> DEFINE late == {t \in Tiles : up[t] = v}
           T == {Distance(Place[t]) : t \in late}
<1>1. SUFFICES ASSUME late # {} PROVE FALSE
  OBVIOUS
<1>2. T \subseteq Nat
  <2> SUFFICES ASSUME NEW t \in Tiles PROVE Distance(Place[t]) \in Nat
    OBVIOUS
  <2>1. Place[t] \in Grid
    BY PlacedAt
  <2> QED BY <2>1, Center, TreeAssumption DEF Distance, Grid
<1>3. PICK n \in T : \A k \in T : ~(k < n)
  BY <1>1, <1>2, LeastNumber
<1>4. PICK t \in late : n = Distance(Place[t])
  BY <1>3
<1>5. ~IsRoot(t)
  <2> SUFFICES ASSUME IsRoot(t) PROVE FALSE
    OBVIOUS
  <2>1. Place[t] = Place[z]
    BY OneRoot, PlacedAt, TreeAssumption DEF IsRoot
  <2>2. t = z
    BY <2>1, PlaceAssumption
  <2> QED BY <2>2
<1>6. Parent(t) \in Tiles /\ t \in Children(Parent(t))
      /\ Distance(Place[Parent(t)]) < Distance(Place[t])
  BY <1>5, ChildOfParent
<1>7. Parent(t) \notin late
  BY <1>3, <1>4, <1>6
<1>8. up[t] # v
  BY <1>6, <1>7 DEF Round
<1> QED BY <1>8

(* The wires do not change, and no tile passes a barrier. *)
LEMMA RoundFrame ==
  ASSUME BarrierInv, UNCHANGED <<waiting, wires, phase>>,
         stage' \in [Tiles -> {"run", "fence", "sync"}], \A t \in waiting : stage'[t] = stage[t]
  PROVE  BarrierInv'
<1>1. PICK r \in Int, v \in BOOLEAN : Round(r, v)
  BY DEF BarrierInv
<1>2. Round(r, v)'
  BY <1>1, PlacedAt DEF Round, Stands, IsRoot, Parent, Children, TileAt, wires
<1> QED BY <1>2 DEF BarrierInv, wires

(* The kernel's own steps leave tiles alone that wait. *)
LEMMA WorkRound ==
  ASSUME BarrierInv, NEW t \in Tiles, Work(t), UNCHANGED <<waiting, wires>>
  PROVE  BarrierInv'
<1>1. phase' = phase
  BY DEF Work, Compute, Send, Fence, Land
<1>0. /\ stage \in [Tiles -> {"run", "fence", "sync"}] /\ waiting \subseteq Tiles
      /\ \A u \in waiting : stage[u] = "sync"
  BY DEF BarrierInv
<1>2. CASE Compute(t)
  <2>1. stage[t] = "run" /\ stage' = [stage EXCEPT ![t] = "sync"]
    BY <1>2 DEF Compute
  <2>2. stage' \in [Tiles -> {"run", "fence", "sync"}]
    BY <1>0, <2>1
  <2>3. \A u \in waiting : stage'[u] = stage[u]
    BY <1>0, <2>1
  <2> QED BY <1>1, <2>2, <2>3, RoundFrame
<1>3. CASE Send(t)
  <2>1. stage[t] = "run" /\ stage' = [stage EXCEPT ![t] = "fence"]
    BY <1>3 DEF Send
  <2>2. stage' \in [Tiles -> {"run", "fence", "sync"}]
    BY <1>0, <2>1
  <2>3. \A u \in waiting : stage'[u] = stage[u]
    BY <1>0, <2>1
  <2> QED BY <1>1, <2>2, <2>3, RoundFrame
<1>4. CASE Fence(t)
  <2>1. stage[t] = "fence" /\ stage' = [stage EXCEPT ![t] = "sync"]
    BY <1>4 DEF Fence
  <2>2. stage' \in [Tiles -> {"run", "fence", "sync"}]
    BY <1>0, <2>1
  <2>3. \A u \in waiting : stage'[u] = stage[u]
    BY <1>0, <2>1
  <2> QED BY <1>1, <2>2, <2>3, RoundFrame
<1>5. CASE \E p \in {Warmup, LocalMax} : Land(t, p)
  <2>1. stage' = stage
    BY <1>5 DEF Land
  <2>2. stage' \in [Tiles -> {"run", "fence", "sync"}]
    BY <1>0, <2>1
  <2> QED BY <1>1, <2>1, <2>2, RoundFrame
<1> QED BY <1>2, <1>3, <1>4, <1>5 DEF Work

LEMMA SendRound ==
  ASSUME BarrierInv, NEW t \in Tiles, BarSend(t)
  PROVE  BarrierInv'
<1>1. PICK r \in Int, v \in BOOLEAN : Round(r, v)
  BY DEF BarrierInv
<1>2. /\ own' = [own EXCEPT ![t] = ~own[t]]
      /\ waiting' = waiting \cup {t} /\ t \notin waiting /\ stage[t] = "sync"
      /\ phase' = phase /\ stage' = stage /\ up' = up /\ down' = down
  BY DEF BarSend, vars
<1>3. phase[t] = r /\ own[t] = v /\ down[t] = v
  BY <1>1, <1>2 DEF Round, Stands
<1>4. own' \in [Tiles -> BOOLEAN] /\ own'[t] # v /\ \A u \in Tiles \ {t} : own'[u] = own[u]
  BY <1>2, <1>3, Zenon DEF BarrierInv
<1>5. \A u \in Tiles : Stands(u, r, v)'
  <2> TAKE u \in Tiles
  <2>1. CASE u = t
    BY <1>2, <1>3, <1>4, <2>1 DEF Stands
  <2>2. CASE u # t
    BY <1>1, <1>2, <1>4, <2>2 DEF Round, Stands
  <2> QED BY <2>1, <2>2
<1>6. \A u \in Tiles : up'[u] # v =>
        own'[u] # v /\ \A c \in Children(u)' : up'[c] # v
  BY <1>1, <1>2, <1>4 DEF Round, Children, TileAt
<1>7. Round(r, v)'
  BY <1>1, <1>2, <1>5, <1>6 DEF Round, IsRoot, Parent, TileAt
<1> QED BY <1>2, <1>4, <1>7 DEF BarrierInv

LEMMA RecvRound ==
  ASSUME BarrierInv, NEW t \in Tiles, BarRecv(t)
  PROVE  BarrierInv' /\ Leave(t)
<1>1. PICK r \in Int, v \in BOOLEAN : Round(r, v)
  BY DEF BarrierInv
<1>2. /\ t \in waiting /\ down[t] = own[t] /\ waiting' = waiting \ {t}
      /\ phase' = [phase EXCEPT ![t] = phase[t] + 1]
      /\ stage' = [stage EXCEPT ![t] = "run"]
      /\ own' = own /\ up' = up /\ down' = down
  BY DEF BarRecv, Proceed, wires
<1>3. phase[t] = r - 1 /\ own[t] = v /\ down[t] = v
  BY <1>1, <1>2 DEF Round, Stands
<1>4. /\ phase'[t] = r /\ phase' \in [Tiles -> Int]
      /\ \A u \in Tiles \ {t} : phase'[u] = phase[u]
  BY <1>1, <1>2, <1>3 DEF BarrierInv
<1>5. \A u \in Tiles : Stands(u, r, v)'
  <2> TAKE u \in Tiles
  <2>1. CASE u = t
    BY <1>2, <1>3, <1>4, <2>1 DEF Stands
  <2>2. CASE u # t
    BY <1>1, <1>2, <1>4, <2>2 DEF Round, Stands
  <2> QED BY <2>1, <2>2
<1>6. Round(r, v)'
  BY <1>1, <1>2, <1>5 DEF Round, IsRoot, Parent, Children, TileAt
<1>7. BarrierInv'
  <2>1. \A u \in waiting' : stage'[u] = "sync"
    BY <1>2 DEF BarrierInv
  <2>2. stage \in [Tiles -> {"run", "fence", "sync"}]
    BY DEF BarrierInv
  <2>3. stage' \in [Tiles -> {"run", "fence", "sync"}]
    BY <1>2, <2>2
  <2> QED BY <1>2, <1>4, <1>6, <2>1, <2>3 DEF BarrierInv
<1>8. \A u \in Tiles : Arrived(u, phase[t])
  <2> TAKE u \in Tiles
  <2>1. Stands(u, r, v)
    BY <1>1 DEF Round
  <2>2. u \in waiting => stage[u] = "sync"
    BY DEF BarrierInv
  <2> QED BY <1>3, <2>1, <2>2 DEF Stands, Arrived
<1> QED BY <1>7, <1>8 DEF Leave, BarRecv

LEMMA GatherRound ==
  ASSUME R = 3, BarrierInv, NEW t \in Tiles, Gather(t)
  PROVE  BarrierInv'
<1>1. PICK r \in Int, v \in BOOLEAN : Round(r, v)
  BY DEF BarrierInv
<1>2. /\ \A d \in Inputs(Place[t]) : Input(t, d) = own[t]
      /\ up[t] # own[t] /\ up' = [up EXCEPT ![t] = own[t]]
      /\ phase' = phase /\ stage' = stage /\ waiting' = waiting
      /\ own' = own /\ down' = down
  BY DEF Gather, vars
<1>3. own[t] # v
  BY <1>1, <1>2 DEF Round
<1>4. up' \in [Tiles -> BOOLEAN] /\ up'[t] # v /\ \A u \in Tiles \ {t} : up'[u] = up[u]
  BY <1>2, <1>3, Zenon DEF BarrierInv
<1>5. \A c \in Children(t) : up[c] # v
  <2> SUFFICES ASSUME NEW d \in Inputs(Place[t])
               PROVE  up[TileAt(Neighbour(Place[t], d))] # v
    BY DEF Children
  <2> DEFINE n == Neighbour(Place[t], d)
  <2>1. n \in Grid /\ Output(n) = Opposite[d]
    BY PlacedAt, TreeMatched DEF Matched
  <2>2. Input(t, d) <=> up[TileAt(n)]
    BY <2>1, Zenon DEF Input
  <2>3. up[TileAt(n)] \in BOOLEAN /\ own[t] \in BOOLEAN
    BY <2>1, PlacedAt DEF BarrierInv
  <2> HIDE DEF n
  <2>4. up[TileAt(n)] <=> own[t]
    BY <1>2, <2>2, Zenon
  <2> QED BY <1>3, <2>3, <2>4, Zenon DEF n
<1>6. Round(r, v)'
  <2>1. \A u \in Tiles : Stands(u, r, v)'
    BY <1>1, <1>2 DEF Round, Stands
  <2>2. \A u \in Tiles : up'[u] # v =>
          own'[u] # v /\ \A c \in Children(u)' : up'[c] # v
    <3> SUFFICES ASSUME NEW u \in Tiles, up'[u] # v
                 PROVE  own'[u] # v /\ \A c \in Children(u) : up'[c] # v
      BY <1>2 DEF Children, TileAt
    <3>1. Children(u) \subseteq Tiles
      <4>1. \A d \in Inputs(Place[u]) : Neighbour(Place[u], d) \in Grid
        BY PlacedAt, TreeMatched DEF Matched
      <4> QED BY <4>1, PlacedAt DEF Children
    <3>2. own[u] # v /\ \A c \in Children(u) : up[c] # v
      BY <1>1, <1>3, <1>4, <1>5 DEF Round
    <3> QED BY <1>2, <1>4, <3>1, <3>2
  <2> QED BY <1>1, <1>2, <2>1, <2>2 DEF Round, IsRoot, Parent, TileAt
<1> QED BY <1>2, <1>4, <1>6 DEF BarrierInv

LEMMA ReleaseRound ==
  ASSUME R = 3, BarrierInv, NEW t \in Tiles, Release(t)
  PROVE  BarrierInv'
<1>1. PICK r \in Int, v \in BOOLEAN : Round(r, v)
  BY DEF BarrierInv
<1>2. phase' = phase /\ stage' = stage /\ waiting' = waiting /\ own' = own /\ up' = up
  BY DEF Release, vars
<1>3. CASE IsRoot(t)
  <2>1. down[t] # up[t] /\ down' = [down EXCEPT ![t] = up[t]]
    BY <1>3 DEF Release, IsRoot
  <2>2. down[t] = v /\ up[t] # v /\ up[t] \in BOOLEAN
    BY <1>1, <1>3, <2>1 DEF Round, BarrierInv
  <2>3. \A u \in Tiles : up[u] # v
    BY <1>1, <1>3, <2>2, RootKnowsAll
  <2>4. \A u \in Tiles : phase[u] = r /\ u \in waiting /\ own[u] # v /\ down[u] = v
    BY <1>1, <2>3 DEF Round, Stands
  <2>5. PICK w \in BOOLEAN : w = up[t]
    BY <2>2
  <2>6. \A u \in Tiles : up[u] = w /\ own[u] = w
    BY <2>2, <2>3, <2>4, <2>5, Zenon DEF BarrierInv
  <2>7. /\ down'[t] = w /\ down' \in [Tiles -> BOOLEAN]
        /\ \A u \in Tiles \ {t} : down'[u] # w
    BY <2>1, <2>2, <2>4, <2>5, Zenon DEF BarrierInv
  <2>8. \A u \in Tiles : IsRoot(u) => u = t
    <3>1. \A u \in Tiles : IsRoot(u) => Place[u] = Place[t]
      BY <1>3, OneRoot, PlacedAt, TreeAssumption DEF IsRoot
    <3> QED BY <3>1, PlaceAssumption
  <2>9. r + 1 \in Int /\ r = (r + 1) - 1
    BY <1>1
  <2>10. \A u \in Tiles : Stands(u, r + 1, w)'
    BY <1>2, <2>4, <2>6, <2>9 DEF Stands
  <2>11. Round(r + 1, w)'
    BY <1>2, <1>3, <2>6, <2>7, <2>8, <2>10 DEF Round, IsRoot
  <2>12. \E s \in Int, x \in BOOLEAN : Round(s, x)'
    BY <2>9, <2>11
  <2> QED BY <1>2, <2>7, <2>12 DEF BarrierInv
<1>4. CASE ~IsRoot(t)
  <2> DEFINE p == Parent(t)
  <2>1. down[t] # down[p] /\ down' = [down EXCEPT ![t] = down[p]]
    BY <1>4 DEF Release, IsRoot, Parent
  <2>2. p \in Tiles
    BY <1>4, ChildOfParent
  <2> HIDE DEF p
  <2>3. down[t] # v
    BY <1>1, <1>4, <2>1 DEF Round, p
  <2>4. down[p] = v /\ t # p
    BY <2>1, <2>2, <2>3, Zenon DEF BarrierInv
  <2>5. /\ down'[t] = v /\ down' \in [Tiles -> BOOLEAN]
        /\ \A u \in Tiles \ {t} : down'[u] = down[u]
    BY <2>1, <2>2, <2>4 DEF BarrierInv
  <2>6. \A u \in Tiles : Stands(u, r, v)'
    BY <1>1, <1>2, <2>5 DEF Round, Stands
  <2>7. \A u \in Tiles : ~IsRoot(u) /\ down'[u] = v => down'[Parent(u)] = v
    <3> SUFFICES ASSUME NEW u \in Tiles, ~IsRoot(u), down'[u] = v
                 PROVE  down'[Parent(u)] = v
      OBVIOUS
    <3>1. Parent(u) \in Tiles
      BY ChildOfParent
    <3>2. down[Parent(u)] = v
      BY <1>1, <2>4, <2>5 DEF Round, p
    <3> QED BY <2>5, <3>1, <3>2
  <2>8. Round(r, v)'
    BY <1>1, <1>2, <2>5, <2>6, <2>7 DEF Round, IsRoot, Parent, Children, TileAt
  <2> QED BY <1>2, <2>5, <2>8 DEF BarrierInv
<1> QED BY <1>3, <1>4

(* Every step keeps the rounds, and a tile that passes the barrier takes the *)
(* kernel's step over it.                                                    *)
LEMMA BarrierStep ==
  ASSUME R = 3, BarrierInv, [BarrierNext]_bvars
  PROVE  BarrierInv' /\ [Next]_vars
<1>1. ASSUME NEW t \in Tiles, Work(t), UNCHANGED <<waiting, wires>>
      PROVE  BarrierInv' /\ Next
  BY <1>1, WorkRound DEF Next
<1>2. ASSUME NEW t \in Tiles, BarRecv(t)
      PROVE  BarrierInv' /\ Next
  BY <1>2, RecvRound DEF Next
<1>3. ASSUME NEW t \in Tiles, BarSend(t) \/ Gather(t) \/ Release(t)
      PROVE  BarrierInv' /\ vars' = vars
  <2>1. vars' = vars
    BY <1>3 DEF BarSend, Gather, Release
  <2> QED BY <1>3, <2>1, SendRound, GatherRound, ReleaseRound
<1>4. CASE UNCHANGED bvars
  <2>1. vars' = vars /\ waiting' = waiting /\ wires' = wires
    BY <1>4 DEF bvars
  <2>2. phase' = phase /\ stage' = stage
    BY <2>1 DEF vars
  <2>3. stage' \in [Tiles -> {"run", "fence", "sync"}]
    BY <2>2 DEF BarrierInv
  <2>4. BarrierInv'
    BY <2>1, <2>2, <2>3, RoundFrame
  <2> QED BY <2>1, <2>4
<1> QED BY <1>1, <1>2, <1>3, <1>4 DEF BarrierNext, Step

(* In a tile group of any dimensions, wherever its tiles are, the wires make *)
(* a barrier: no tile goes on before all have arrived, also when some are at *)
(* the next one already (bsg_barrier_hw_tile_group_sync).                    *)
THEOREM WiresAreBarrier == ASSUME R = 3 PROVE BarrierSpec => ImplementsKernel
<1>1. BarrierInit => Init /\ BarrierInv
  <2> SUFFICES ASSUME BarrierInit PROVE BarrierInv
    BY DEF BarrierInit
  <2>1. /\ phase = [t \in Tiles |-> 0] /\ waiting = {}
        /\ own = [t \in Tiles |-> FALSE] /\ up = own /\ down = own
    BY DEF BarrierInit, Init, Warmup
  <2>2. \A t \in Tiles : own[t] = FALSE /\ up[t] = FALSE /\ down[t] = FALSE /\ phase[t] = 0
    BY <2>1
  <2>3. \A t \in Tiles : ~IsRoot(t) => Parent(t) \in Tiles
    BY ChildOfParent
  <2>4. \E v \in BOOLEAN : Round(0, v)
    <3> DEFINE v == FALSE
    <3>1. \A t \in Tiles : Stands(t, 0, v)
      BY <2>1, <2>2 DEF Stands
    <3>2. \A t \in Tiles : up[t] = v /\ down[t] = v
      BY <2>2
    <3>3. \A t \in Tiles : ~IsRoot(t) => down[Parent(t)] = v
      BY <2>2, <2>3
    <3>0. v \in BOOLEAN
      OBVIOUS
    <3> HIDE DEF v
    <3>4. \A t \in Tiles : up[t] # v => own[t] # v /\ \A c \in Children(t) : up[c] # v
      BY <3>2
    <3>5. Round(0, v)
      BY <3>1, <3>2, <3>3, <3>4, Zenon DEF Round
    <3> QED BY <3>0, <3>5
  <2>5. \E r \in Int, v \in BOOLEAN : Round(r, v)
    BY <2>4
  <2>6. stage \in [Tiles -> {"run", "fence", "sync"}]
    <3>1. stage = [t \in Tiles |-> "run"] \/ stage = [t \in Tiles |-> "sync"]
      BY DEF BarrierInit, Init
    <3> QED BY <3>1
  <2> QED BY <2>1, <2>5, <2>6 DEF BarrierInv
<1>2. BarrierInv /\ [BarrierNext]_bvars => BarrierInv' /\ [Next]_vars
  BY BarrierStep
<1> QED BY <1>1, <1>2, PTL DEF BarrierSpec, ImplementsKernel, Spec

=============================================================================
