---------------------------- MODULE HarrisKernel ----------------------------
(***************************************************************************)
(* The kernel of examples/apps/harris_color: corner detection on an image  *)
(* of 64 rows by the 32 tiles of a group of 8 x 4.  Each tile owns a strip *)
(* of two rows.  In each phase it computes its rows of an array in its     *)
(* local memory from a window of 3 x 3 of the array of the phase before,   *)
(* the rows above and below the strip from the memory of other tiles; the  *)
(* last phase stores to Output in DRAM.  All tiles meet after each phase   *)
(* at a barrier, which is one step here and wires in HarrisBarrier.        *)
(*                                                                         *)
(* Of a value the model keeps whether it is the one that the algorithm     *)
(* specifies: the columns of a row in which it is.                         *)
(***************************************************************************)
EXTENDS Integers, FiniteSets

CONSTANTS
  Tiles,   \* bound: the tiles (__bsg_id) that take part, all 32 or some
  NX       \* N_X: columns of the image

TilesX == 8
TilesY == 4
Ids    == 0 .. TilesX * TilesY - 1

ASSUME KernelAssumption ==
  /\ Tiles \subseteq Ids /\ Tiles # {}
  /\ NX \in Nat \ {0} /\ NX % TilesX = 0

NY       == 64
TileRows == 2

Warmup   == 0   \* zeroes Output, when the cache is warmed
Gray     == 1
Gradient == 2
Cim      == 3
LocalMax == 4
Returned == 5

VARIABLES
  phase,    \* of each tile
  stage,    \* of each tile in its phase: "run", "fence" or "sync"
  gm,       \* columns of the rows of gm_gray, gm_lxx, gm_cim that are right
  flight,   \* <<tile, phase>> whose stores to Output are under way
  stores,   \* columns of the rows that a tile stores to Output that are right
  output    \* columns of the rows of Output that are right

vars == <<phase, stage, gm, flight, stores, output>>

-----------------------------------------------------------------------------
(* Who owns what. *)

(* Cinit / 4: the number of the strip of a tile.                             *)
Strip(t) ==
  16 * ((t \div 8) % 2) + 4 * (t % 4) + 2 * (t \div 16) + (t % 8) \div 4

(* Variant: without the tile at the seam of the upper and the lower half.    *)
UpNoSeam(t) ==
  CASE t = 0                       -> 0
    [] t \in 1 .. 3 \cup 9 .. 11   -> t + 19
    [] t % 8 > 3                   -> t - 4
    [] OTHER                       -> t - 12

(* bsg_id_up and bsg_id_dn: the tiles with the strips above and below.       *)
Up(t) ==
  CASE t = 0                       -> 0
    [] t = 8                       -> 23
    [] t \in 1 .. 3 \cup 9 .. 11   -> t + 19
    [] t % 8 > 3                   -> t - 4
    [] OTHER                       -> t - 12

Down(t) ==
  CASE t = 31                      -> 31
    [] t = 23                      -> 8
    [] t \in 28 .. 30 \cup 20 .. 22 -> t - 19
    [] t % 8 < 4                   -> t + 4
    [] OTHER                       -> t + 12

(* The row of the image at row r of the strip of t, also above and below.    *)
ImageRow(t, r) == TileRows * Strip(t) + r

(* Variant: one column too many.                                             *)
ColsWide(p) == p - 1 .. NX - p + 1

(* Each phase leaves out a border that is one wider than that before.        *)
Rows(p) == p - 1 .. NY - p
Cols(p) == p - 1 .. NX - p

(* The columns of Output that warmup zeroes, and their rows.                 *)
InBlock(t, x, y) ==
  /\ x \div (NX \div TilesX) = t % TilesX
  /\ y \div (NY \div TilesY) = t \div TilesX

-----------------------------------------------------------------------------
(* Where a tile reads row r of its strip: in its own memory, or as the last  *)
(* row of the tile above, or as the first of that below.                     *)
Source(t, r) ==
  CASE r = -1       -> <<Up(t), TileRows - 1>>
    [] r = TileRows -> <<Down(t), 0>>
    [] OTHER        -> <<t, r>>

(* What is right of what it reads; tiles left out are taken to be ready.     *)
Read(t, p, r) ==
  LET s == Source(t, r)
  IN CASE s[1] \notin Ids \/ ImageRow(s[1], s[2]) # ImageRow(t, r) -> {}
       [] s[1] \notin Tiles -> Cols(p)
       [] OTHER             -> gm[s[1]][p][s[2]]

(* The columns in which it reads the three rows around row r right.          *)
Window(t, p, r) == Read(t, p, r - 1) \cap Read(t, p, r) \cap Read(t, p, r + 1)

(* What is right of what it computes in row r in phase p.                    *)
Computed(t, p, r) ==
  IF ImageRow(t, r) \notin Rows(p) THEN {}
  ELSE IF p = Gray THEN Cols(p)
  ELSE LET w == Window(t, p - 1, r)
       IN {x \in Cols(p) : {x - 1, x, x + 1} \subseteq w}

StripRows == 0 .. TileRows - 1
NoRows    == [r \in StripRows |-> {}]
Garbage   == [p \in Gray .. Cim |-> NoRows]
ImageRows == {ImageRow(t, r) : t \in Tiles, r \in StripRows}

Init ==
  /\ \/ phase = [t \in Tiles |-> Warmup] /\ stage = [t \in Tiles |-> "run"]
     \/ phase = [t \in Tiles |-> Warmup] /\ stage = [t \in Tiles |-> "sync"]
  /\ gm = [t \in Tiles |-> Garbage]
  /\ flight = {} /\ stores = [t \in Tiles |-> NoRows]
  /\ output = [y \in ImageRows |-> {}]

ComputedRows(t) == [r \in StripRows |-> Computed(t, phase[t], r)]

(* A tile computes its rows in its local memory, ...                         *)
Compute(t) ==
  /\ stage[t] = "run" /\ phase[t] \in {Gray, Gradient, Cim}
  /\ stage' = [stage EXCEPT ![t] = "sync"]
  /\ gm' = [gm EXCEPT ![t][phase[t]] = ComputedRows(t)]
  /\ UNCHANGED <<phase, flight, stores, output>>

(* ... or sends stores to Output.                                            *)
Send(t) ==
  /\ stage[t] = "run" /\ phase[t] \in {Warmup, LocalMax}
  /\ stage' = [stage EXCEPT ![t] = "fence"]
  /\ flight' = flight \cup {<<t, phase[t]>>}
  /\ stores' = [stores EXCEPT ![t] = IF phase[t] = Warmup THEN NoRows ELSE ComputedRows(t)]
  /\ UNCHANGED <<phase, gm, output>>

(* The stores of a tile arrive.  Nobody reads Output before the tiles have   *)
(* returned, so it does not matter which of them come first.                 *)
Land(t, p) ==
  /\ <<t, p>> \in flight
  /\ flight' = flight \ {<<t, p>>}
  /\ output' = IF p = Warmup
               THEN [y \in ImageRows |-> {x \in output[y] : ~InBlock(t, x, y)}]
               ELSE [y \in ImageRows |->
                       IF \E r \in StripRows : y = ImageRow(t, r)
                       THEN stores[t][y % TileRows] ELSE output[y]]
  /\ UNCHANGED <<phase, stage, gm, stores>>

(* bsg_fence waits for the stores of the tile.                               *)
Fenced(t) == \A p \in {Warmup, LocalMax} : <<t, p>> \notin flight

Fence(t) ==
  /\ stage[t] = "fence" /\ Fenced(t)
  /\ stage' = [stage EXCEPT ![t] = "sync"]
  /\ UNCHANGED <<phase, gm, flight, stores, output>>

(* Past the barrier; the arrays are on the stack and end with the kernel.    *)
Proceed(t) ==
  /\ stage[t] = "sync" /\ phase[t] < Returned
  /\ phase' = [phase EXCEPT ![t] = @ + 1]
  /\ stage' = [stage EXCEPT ![t] = "run"]
  /\ gm' = IF phase[t] = LocalMax THEN [gm EXCEPT ![t] = Garbage] ELSE gm
  /\ UNCHANGED <<flight, stores, output>>

Arrived(t, p) == phase[t] > p \/ (phase[t] = p /\ stage[t] = "sync")

(* bsg_barrier_hw_tile_group_sync, as a kernel sees it.                      *)
Leave(t) == (\A u \in Tiles : Arrived(u, phase[t])) /\ Proceed(t)

Work(t) ==
  \/ Compute(t) \/ Send(t) \/ Fence(t)
  \/ \E p \in {Warmup, LocalMax} : Land(t, p)

Next == \E t \in Tiles : Work(t) \/ Leave(t)

Spec == Init /\ [][Next]_vars

-----------------------------------------------------------------------------
(* Type invariant: what is computed or stored lies in the image.             *)
KernelTypeOK ==
  /\ phase \in [Tiles -> Warmup .. Returned]
  /\ stage \in [Tiles -> {"run", "fence", "sync"}]
  /\ gm \in [Tiles -> [Gray .. Cim -> [StripRows -> SUBSET (0 .. NX - 1)]]]
  /\ flight \subseteq Tiles \X {Warmup, LocalMax}
  /\ stores \in [Tiles -> [StripRows -> SUBSET (0 .. NX - 1)]]
  /\ output \in [ImageRows -> SUBSET (0 .. NX - 1)]

(* Whatever a tile reads while it computes a phase is right before it starts *)
(* and stays so until it is done: the neighbours have computed it, their     *)
(* arrays still exist, and they are the arrays of the rows next to the strip.*)
HaloReady ==
  \A t \in Tiles :
    stage[t] = "run" /\ phase[t] \in Gradient .. LocalMax =>
      \A r \in StripRows : ImageRow(t, r) \in Rows(phase[t]) =>
        Window(t, phase[t] - 1, r) = Cols(phase[t] - 1)

(* When any tile returns, all of Output has its result, and no zero from the *)
(* warm-up is still to come: the host may copy it.                           *)
OutputRight ==
  (\E t \in Tiles : phase[t] = Returned) =>
    \A t \in Tiles, r \in StripRows :
      ImageRow(t, r) \in Rows(LocalMax) => output[ImageRow(t, r)] = Cols(LocalMax)
=============================================================================
