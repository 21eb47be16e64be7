---------------------------- MODULE BarrierTree ----------------------------
(***************************************************************************)
(* The values of the barrier registers of a tile group                     *)
(* (bsg_manycore_cuda_barrier.h).  Each tile sends to one neighbour and    *)
(* waits for those of its inputs that are enabled, and for itself; row by  *)
(* row towards the centre column, with ruche links over R tiles, and along *)
(* the centre column to the root.                                          *)
(***************************************************************************)
EXTENDS Integers

CONSTANTS
  TX, TY,   \* dimensions of the tile group
  R         \* bar_ruche_factor.x: the tiles that a ruche link spans

ASSUME TreeAssumption ==
  TX \in Nat \ {0} /\ TY \in Nat \ {0} /\ R \in Nat \ {0}

Grid == (0 .. TX - 1) \X (0 .. TY - 1)

Directions == {"W", "E", "N", "S", "RW", "RE"}

CenterX == TX \div 2
CenterY == TY \div 2

(* Variant: the comparison is strict.                                        *)
OutputStrict(t) ==
  LET x == t[1]  y == t[2]
  IN CASE x < CenterX - R                 -> "RE"
       [] x < CenterX /\ x >= CenterX - R -> "E"
       [] x = CenterX /\ y < CenterY      -> "S"
       [] x = CenterX /\ y = CenterY      -> "Root"
       [] x = CenterX /\ y > CenterY      -> "N"
       [] x > CenterX /\ x < CenterX + R  -> "W"
       [] x >= CenterX + R                -> "RW"

(* Where a tile sends.                                                       *)
Output(t) ==
  LET x == t[1]  y == t[2]
  IN CASE x <= CenterX - R                -> "RE"
       [] x < CenterX /\ x > CenterX - R  -> "E"
       [] x = CenterX /\ y < CenterY      -> "S"
       [] x = CenterX /\ y = CenterY      -> "Root"
       [] x = CenterX /\ y > CenterY      -> "N"
       [] x > CenterX /\ x < CenterX + R  -> "W"
       [] x >= CenterX + R                -> "RW"

(* Variant: only the links between neighbours.                               *)
InputsLocal(t) ==
  LET x == t[1]  y == t[2]
  IN {d \in Directions :
        \/ d = "W" /\ x \in {CenterX - 1, CenterX} /\ x > 0
        \/ d = "E" /\ x \in {CenterX, CenterX + 1} /\ x < TX - 1
        \/ d = "N" /\ x = CenterX /\ y > 0 /\ y <= CenterY
        \/ d = "S" /\ x = CenterX /\ y < TY - 1 /\ y >= CenterY}

(* The inputs a tile waits for, besides its own.                             *)
Inputs(t) ==
  LET x == t[1]  y == t[2]
  IN {d \in Directions :
        \/ d = "W" /\ x \in {CenterX - 1, CenterX} /\ x > 0
        \/ d = "RW" /\ x - R >= 0 /\ x <= CenterX
        \/ d = "E" /\ x \in {CenterX, CenterX + 1} /\ x < TX - 1
        \/ d = "RE" /\ x + R < TX /\ x >= CenterX
        \/ d = "N" /\ x = CenterX /\ y > 0 /\ y <= CenterY
        \/ d = "S" /\ x = CenterX /\ y < TY - 1 /\ y >= CenterY}

(* The tile at the other end of a link, and the name of the link there.      *)
Neighbour(t, d) ==
  CASE d = "W"  -> <<t[1] - 1, t[2]>>
    [] d = "E"  -> <<t[1] + 1, t[2]>>
    [] d = "RW" -> <<t[1] - R, t[2]>>
    [] d = "RE" -> <<t[1] + R, t[2]>>
    [] d = "N"  -> <<t[1], t[2] - 1>>
    [] d = "S"  -> <<t[1], t[2] + 1>>

Opposite == [d \in Directions |->
  CASE d = "W"  -> "E"
    [] d = "E"  -> "W"
    [] d = "RW" -> "RE"
    [] d = "RE" -> "RW"
    [] d = "N"  -> "S"
    [] d = "S"  -> "N"]

(* A tile that is not the root sends to a tile that waits for it, and a tile *)
(* waits only for tiles that send to it.                                     *)
Matched(t) ==
  /\ Output(t) # "Root" =>
       LET d == Output(t)
       IN Neighbour(t, d) \in Grid /\ Opposite[d] \in Inputs(Neighbour(t, d))
  /\ \A d \in Inputs(t) :
       Neighbour(t, d) \in Grid /\ Output(Neighbour(t, d)) = Opposite[d]

(* How far a tile is from the root.                                          *)
Distance(t) ==
  LET Abs(i) == IF i < 0 THEN -i ELSE i
  IN Abs(t[1] - CenterX) + Abs(t[2] - CenterY)
=============================================================================
