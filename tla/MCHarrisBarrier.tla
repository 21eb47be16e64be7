--------------------------- MODULE MCHarrisBarrier ---------------------------
(***************************************************************************)
(* Six of the tiles: those of the strips 14 to 17, on both sides of the    *)
(* seam between the rows of tiles, and those of the first and last strip.  *)
(***************************************************************************)
EXTENDS HarrisBarrier

MCTiles == {0, 8, 12, 19, 23, 31}

(* A row of six: links between neighbours and over three tiles.              *)
MCPlace ==
  [t \in MCTiles |->
     <<CASE t = 0 -> 0 [] t = 19 -> 1 [] t = 23 -> 2 [] t = 8 -> 3 [] t = 12 -> 4 [] t = 31 -> 5, 0>>]
=============================================================================
